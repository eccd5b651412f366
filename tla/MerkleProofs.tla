---------------------------- MODULE MerkleProofs ----------------------------
(***************************************************************************)
(* Proofs about the inclusion proofs of the key-transparency log, for      *)
(* trees and paths of any size.                                            *)
(*                                                                         *)
(* build_audit_path goes down the tree, cutting the leaves at the largest  *)
(* power of two; verify_inclusion climbs from the leaf and knows only two  *)
(* numbers, the node's and that of the last node on its level.  Split is   *)
(* the step that brings the two together: the climb from a leaf is the     *)
(* climb inside the leaf's half of the tree, followed by one turn that     *)
(* joins the halves.  Completeness and soundness follow by induction on    *)
(* the size of a slice of the leaves.                                      *)
(***************************************************************************)
EXTENDS Merkle, WellFoundedInduction, TLAPS

\* The order of the natural numbers.
NatOrder == {ss \in Nat \X Nat : ss[1] < ss[2]}

\* A set of natural numbers has a least element.
LEMMA NatMin ==
    ASSUME NEW T, T \subseteq Nat, T # {}
    PROVE  \E m \in T : \A k \in T : m <= k
<1>1. IsWellFoundedOn(NatOrder, Nat)
  <2>1. NatOrder = OpToRel(<, Nat)
    BY Zenon DEF OpToRel, NatOrder
  <2> QED
    BY <2>1, NatLessThanWellFounded, Zenon
<1>2. PICK m \in T : \A k \in T : ~(<<k, m>> \in NatOrder)
  BY <1>1, WFMin, Zenon
<1>3. \A k \in T : k \in Nat /\ m \in Nat /\ ~(k < m)
  BY <1>2, Zenon DEF NatOrder
<1> QED
  BY <1>3

\* A property of numbers, given as a set, holds of all of them if it holds
\* of each number of which it holds below.
LEMMA StrongInduction ==
    ASSUME NEW P, \A n \in Nat : (\A m \in 0..(n - 1) : m \in P) => n \in P
    PROVE  \A n \in Nat : n \in P
<1> DEFINE Bad == {n \in Nat : n \notin P}
<1> SUFFICES ASSUME Bad # {} PROVE FALSE
  BY Zenon
<1>1. PICK n \in Bad : \A k \in Bad : n <= k
  <2>1. Bad \subseteq Nat
    BY Zenon
  <2> QED
    BY <2>1, NatMin, Zenon
<1>2. \A m \in 0..(n - 1) : m \in Nat /\ ~(n <= m)
  OBVIOUS
<1> QED
  BY <1>1, <1>2, Zenon

\* How f is defined where the measure is at most d.
Unrolled(f, d, D, B, m, h, v, c) ==
  \A x \in D : m[x] <= d => f[x] = IF x \in B THEN v[x] ELSE c[<<x, f[h[x]]>>]

\* f is defined by v on B and from its value at h elsewhere.
Recurs(f, D, B, h, v, c) ==
  \A x \in D : f[x] = IF x \in B THEN v[x] ELSE c[<<x, f[h[x]]>>]

\* A function is defined by recursion along a measure that decreases.
LEMMA Recursion ==
    ASSUME NEW D, NEW V, NEW B, NEW m \in [D -> Nat], NEW h \in [D -> D],
           NEW v \in [D -> V], NEW c \in [D \X V -> V],
           \A x \in D : x \notin B => m[h[x]] < m[x]
    PROVE  \E f \in [D -> V] : Recurs(f, D, B, h, v, c)
<1> DEFINE Sat(f, d) == Unrolled(f, d, D, B, m, h, v, c)
           Once(f) == [x \in D |-> IF x \in B THEN v[x] ELSE c[<<x, f[h[x]]>>]]
           P == {d \in Nat : \E f \in [D -> V] : Sat(f, d)}
<1>1. ASSUME NEW d \in Nat, NEW f \in [D -> V],
             \A x \in D : m[x] < d => f[x] = Once(f)[x]
      PROVE  Once(f) \in [D -> V] /\ Sat(Once(f), d)
  <2>1. Once(f) \in [D -> V]
    BY Zenon
  <2>2. ASSUME NEW x \in D, m[x] <= d
        PROVE  Once(f)[x] = IF x \in B THEN v[x] ELSE c[<<x, Once(f)[h[x]]>>]
    <3>1. x \notin B => h[x] \in D /\ m[h[x]] < d
      BY <2>2
    <3>2. x \notin B => Once(f)[h[x]] = f[h[x]]
      BY <3>1, <1>1, Zenon
    <3> QED
      BY <3>2, Zenon
  <2> QED
    BY <2>1, <2>2, Zenon DEF Unrolled
<1>2. \A d \in Nat : d \in P
  <2>1. ASSUME NEW d \in Nat, \A k \in 0..(d - 1) : k \in P PROVE d \in P
    <3>1. CASE d = 0
      <4>1. \A x \in D : ~(m[x] < d)
        BY <3>1
      <4>2. Once(v) \in [D -> V] /\ Sat(Once(v), d)
        BY <1>1, <4>1, Zenon
      <4> QED
        BY <4>2, Zenon
    <3>2. CASE d # 0
      <4>1. d - 1 \in 0..(d - 1) /\ d - 1 \in Nat /\ \A k \in Nat : k < d => k <= d - 1
        BY <3>2
      <4>2. PICK f \in [D -> V] : Sat(f, d - 1)
        BY <2>1, <4>1, Zenon
      <4>3. \A x \in D : m[x] < d => f[x] = Once(f)[x]
        BY <4>1, <4>2, Zenon DEF Unrolled
      <4>4. Once(f) \in [D -> V] /\ Sat(Once(f), d)
        BY <1>1, <4>3, Zenon
      <4> QED
        BY <4>4, Zenon
    <3> QED
      BY <3>1, <3>2, Zenon
  <2> HIDE DEF P
  <2> QED
    BY <2>1, StrongInduction, Zenon
<1>3. \A d, e \in Nat : \A f, g :
        d <= e /\ Sat(f, d) /\ Sat(g, e) => \A x \in D : m[x] <= d => f[x] = g[x]
  <2> SUFFICES ASSUME NEW d \in Nat, NEW e \in Nat, d <= e, NEW f, NEW g, Sat(f, d), Sat(g, e)
               PROVE  \A x \in D : m[x] <= d => f[x] = g[x]
    OBVIOUS
  <2> DEFINE Q == {n \in Nat : n <= d => \A x \in D : m[x] = n => f[x] = g[x]}
  <2>1. ASSUME NEW n \in Nat, \A k \in 0..(n - 1) : k \in Q PROVE n \in Q
    <3> SUFFICES ASSUME n <= d, NEW x \in D, m[x] = n PROVE f[x] = g[x]
      BY Zenon
    <3>1. m[x] <= d /\ m[x] <= e
      OBVIOUS
    <3>2. x \notin B => f[h[x]] = g[h[x]]
      <4> SUFFICES ASSUME x \notin B PROVE f[h[x]] = g[h[x]]
        BY Zenon
      <4>1. h[x] \in D /\ m[h[x]] \in 0..(n - 1) /\ m[h[x]] <= d
        OBVIOUS
      <4> QED
        BY <2>1, <4>1, Zenon
    <3>3. /\ f[x] = IF x \in B THEN v[x] ELSE c[<<x, f[h[x]]>>]
          /\ g[x] = IF x \in B THEN v[x] ELSE c[<<x, g[h[x]]>>]
      BY <3>1, Zenon DEF Unrolled
    <3> QED
      BY <3>2, <3>3, Zenon
  <2> HIDE DEF Q
  <2>2. \A n \in Nat : n \in Q
    BY <2>1, StrongInduction, Zenon
  <2> QED
    BY <2>2, Zenon DEF Q
<1> DEFINE F(d) == CHOOSE f \in [D -> V] : Sat(f, d)
           f == [x \in D |-> F(m[x])[x]]
<1> HIDE DEF Sat
<1>4. \A d \in Nat : F(d) \in [D -> V] /\ Sat(F(d), d)
  BY <1>2, Zenon
<1>5. f \in [D -> V]
  BY <1>4, Zenon
<1>6. ASSUME NEW x \in D
      PROVE  f[x] = IF x \in B THEN v[x] ELSE c[<<x, f[h[x]]>>]
  <2>1. m[x] \in Nat /\ m[x] <= m[x]
    OBVIOUS
  <2> DEFINE g == F(m[x])
  <2>2. g \in [D -> V] /\ Sat(g, m[x])
    BY <2>1, <1>4, Zenon
  <2>3. f[x] = g[x]
    BY Zenon
  <2>4. g[x] = IF x \in B THEN v[x] ELSE c[<<x, g[h[x]]>>]
    BY <2>1, <2>2, Zenon DEF Sat, Unrolled
  <2>5. ASSUME x \notin B PROVE f[h[x]] = g[h[x]]
    <3>1. h[x] \in D /\ m[h[x]] \in Nat /\ m[h[x]] <= m[x] /\ m[h[x]] <= m[h[x]]
      BY <2>5
    <3> DEFINE d == m[h[x]]
               e == m[x]
               g1 == F(d)
    <3>2. f[h[x]] = g1[h[x]]
      BY <3>1, Zenon
    <3>3. Sat(g1, d)
      BY <3>1, <1>4, Zenon
    <3>4. d \in Nat /\ e \in Nat /\ d <= e /\ Sat(g, e) /\ m[h[x]] <= d
      BY <3>1, <2>1, <2>2, Zenon
    <3> HIDE DEF g, f, d, e, g1
    <3>5. \A y \in D : m[y] <= d => g1[y] = g[y]
      BY <3>3, <3>4, <1>3
    <3> QED
      BY <3>1, <3>2, <3>4, <3>5, Zenon
  <2> HIDE DEF g, F, f
  <2> QED
    BY <2>3, <2>4, <2>5, Zenon
<1> QED
  BY <1>5, <1>6, Zenon DEF Recurs

\* The highest bit, halving by halving.
LEMMA HighestBitStep ==
    /\ HighestBit \in [Nat -> Nat]
    /\ \A x \in Nat : HighestBit[x] = IF x <= 1 THEN 1 ELSE 2 * HighestBit[x \div 2]
<1> DEFINE B == {x \in Nat : x <= 1}
           m == [x \in Nat |-> x]
           h == [x \in Nat |-> x \div 2]
           v == [x \in Nat |-> 1]
           c == [y \in Nat \X Nat |-> 2 * y[2]]
           Def(f) == f = [x \in Nat |-> IF x <= 1 THEN 1 ELSE 2 * f[x \div 2]]
<1>1. /\ m \in [Nat -> Nat] /\ h \in [Nat -> Nat] /\ v \in [Nat -> Nat]
      /\ c \in [Nat \X Nat -> Nat]
      /\ \A x \in Nat : x \notin B => m[h[x]] < m[x]
  OBVIOUS
<1>2. PICK f \in [Nat -> Nat] : Recurs(f, Nat, B, h, v, c)
  <2> HIDE DEF B, m, h, v, c
  <2> QED
    BY <1>1, Recursion, Zenon
<1>3. Def(f)
  <2>1. \A x \in Nat : f[x] = IF x <= 1 THEN 1 ELSE 2 * f[x \div 2]
    <3> SUFFICES ASSUME NEW x \in Nat PROVE f[x] = IF x <= 1 THEN 1 ELSE 2 * f[x \div 2]
      BY Zenon
    <3>1. h[x] = x \div 2 /\ x \div 2 \in Nat /\ v[x] = 1
      OBVIOUS
    <3>2. c[<<x, f[x \div 2]>>] = 2 * f[x \div 2]
      BY <3>1, Zenon
    <3> QED
      BY <1>2, <3>1, <3>2, Zenon DEF Recurs
  <2> QED
    BY <2>1, Zenon
<1>4. Def(HighestBit)
  <2>1. HighestBit = CHOOSE g : Def(g)
    BY Zenon DEF HighestBit
  <2> HIDE DEF Def
  <2> QED
    BY <1>3, <2>1, Zenon
<1> DEFINE g == HighestBit
           Q == {n \in Nat : g[n] \in Nat}
<1>5. \A x \in Nat : g[x] = IF x <= 1 THEN 1 ELSE 2 * g[x \div 2]
  BY <1>4, Zenon
<1>6. ASSUME NEW n \in Nat, \A k \in 0..(n - 1) : k \in Q PROVE n \in Q
  <2>1. n > 1 => n \div 2 \in 0..(n - 1)
    OBVIOUS
  <2> HIDE DEF g
  <2> QED
    BY <1>5, <1>6, <2>1
<1>7. \A n \in Nat : n \in Q
  <2> HIDE DEF Q
  <2> QED
    BY <1>6, StrongInduction, Zenon
<1> QED
  BY <1>4, <1>5, <1>7, Zenon

\* A parent is again a node, and the numbers get smaller.
LEMMA ParentType ==
    /\ \A x \in Nodes : x[1] \in Nat /\ x[2] \in Nat /\ Parent(x) \in Nodes
    /\ \A a, b \in Nat : <<a, b>> \in Nodes /\ Parent(<<a, b>>) = <<a \div 2, b \div 2>>
    /\ \A x \in Nodes : x[2] # 0 => Parent(x)[2] < x[2]
    /\ \A x \in Nodes : x[1] # 0 => Parent(x)[1] < x[1]
BY DEF Parent, Nodes

\* audit_path_length, level by level.
LEMMA LevelsStep ==
    \A x \in Nodes :
       /\ LevelsWithSibling[x] \in Nat
       /\ LevelsWithSibling[x] =
            IF x[2] = 0 THEN 0
            ELSE (IF IsOdd(x[1]) \/ x[1] # x[2] THEN 1 ELSE 0)
                    + LevelsWithSibling[Parent(x)]
<1> DEFINE One(x) == IF IsOdd(x[1]) \/ x[1] # x[2] THEN 1 ELSE 0
           B == {x \in Nodes : x[2] = 0}
           m == [x \in Nodes |-> x[2]]
           h == [x \in Nodes |-> Parent(x)]
           v == [x \in Nodes |-> 0]
           c == [y \in Nodes \X Nat |-> One(y[1]) + y[2]]
           Def(f) == f = [x \in Nodes |->
                            IF x[2] = 0 THEN 0
                            ELSE (IF IsOdd(x[1]) \/ x[1] # x[2] THEN 1 ELSE 0) + f[Parent(x)]]
<1>1. /\ m \in [Nodes -> Nat] /\ v \in [Nodes -> Nat] /\ h \in [Nodes -> Nodes]
      /\ c \in [Nodes \X Nat -> Nat]
  BY ParentType
<1>2. \A x \in Nodes : x \notin B => m[h[x]] < m[x]
  BY ParentType, Zenon
<1>3. PICK f \in [Nodes -> Nat] : Recurs(f, Nodes, B, h, v, c)
  <2> HIDE DEF B, m, h, v, c
  <2> QED
    BY <1>1, <1>2, Recursion, Zenon
<1>4. ASSUME NEW x \in Nodes
      PROVE  f[x] = IF x[2] = 0 THEN 0 ELSE One(x) + f[Parent(x)]
  <2>1. f[x] = IF x \in B THEN v[x] ELSE c[<<x, f[h[x]]>>]
    BY <1>3, Zenon DEF Recurs
  <2>2. h[x] = Parent(x) /\ Parent(x) \in Nodes /\ f[Parent(x)] \in Nat
    BY <1>3, ParentType, Zenon
  <2>3. c[<<x, f[Parent(x)]>>] = One(x) + f[Parent(x)]
    BY <2>2, Zenon
  <2>4. v[x] = 0 /\ (x \in B <=> x[2] = 0)
    BY Zenon
  <2> HIDE DEF v, B, c, h, One
  <2> QED
    BY <2>1, <2>2, <2>3, <2>4, Zenon
<1>5. Def(f)
  BY <1>3, <1>4, Zenon
<1>6. Def(LevelsWithSibling)
  <2>1. LevelsWithSibling = CHOOSE g : Def(g)
    BY Zenon DEF LevelsWithSibling
  <2> HIDE DEF Def
  <2> QED
    BY <1>5, <2>1, Zenon
<1> DEFINE g == LevelsWithSibling
<1>7. \A x \in Nodes : g[x] = IF x[2] = 0 THEN 0 ELSE One(x) + g[Parent(x)]
  BY <1>6, Zenon
<1> DEFINE Q == {n \in Nat : \A x \in Nodes : x[2] = n => g[x] \in Nat}
<1>8. ASSUME NEW n \in Nat, \A k \in 0..(n - 1) : k \in Q PROVE n \in Q
  <2> SUFFICES ASSUME NEW x \in Nodes, x[2] = n PROVE g[x] \in Nat
    BY Zenon
  <2>1. n # 0 => Parent(x) \in Nodes /\ Parent(x)[2] \in 0..(n - 1)
    BY ParentType
  <2>2. n # 0 => g[Parent(x)] \in Nat
    BY <2>1, <1>8, Zenon
  <2> HIDE DEF g
  <2> QED
    BY <1>7, <2>2
<1>9. \A n \in Nat : n \in Q
  <2> HIDE DEF Q
  <2> QED
    BY <1>8, StrongInduction, Zenon
<1>10. \A x \in Nodes : g[x] \in Nat
  BY <1>9, ParentType, Zenon
<1> QED
  BY <1>7, <1>10, Zenon

\* The inner loop, level by level.
LEMMA SkipStep ==
    \A x \in Nodes :
       /\ SkipLevels[x] \in Nodes
       /\ SkipLevels[x] = IF ~IsOdd(x[1]) /\ x[1] # 0 THEN SkipLevels[Parent(x)] ELSE x
<1> DEFINE B == {x \in Nodes : IsOdd(x[1]) \/ x[1] = 0}
           m == [x \in Nodes |-> x[1]]
           h == [x \in Nodes |-> Parent(x)]
           v == [x \in Nodes |-> x]
           c == [y \in Nodes \X Nodes |-> y[2]]
           Def(f) == f = [x \in Nodes |->
                            IF ~IsOdd(x[1]) /\ x[1] # 0 THEN f[Parent(x)] ELSE x]
<1>1. /\ m \in [Nodes -> Nat] /\ v \in [Nodes -> Nodes] /\ h \in [Nodes -> Nodes]
      /\ c \in [Nodes \X Nodes -> Nodes]
  BY ParentType, Zenon
<1>2. \A x \in Nodes : x \notin B => m[h[x]] < m[x]
  BY ParentType, Zenon
<1>3. PICK f \in [Nodes -> Nodes] : Recurs(f, Nodes, B, h, v, c)
  <2> HIDE DEF B, m, h, v, c
  <2> QED
    BY <1>1, <1>2, Recursion, Zenon
<1>4. ASSUME NEW x \in Nodes
      PROVE  f[x] = IF ~IsOdd(x[1]) /\ x[1] # 0 THEN f[Parent(x)] ELSE x
  <2>1. f[x] = IF x \in B THEN v[x] ELSE c[<<x, f[h[x]]>>]
    BY <1>3, Zenon DEF Recurs
  <2>2. h[x] = Parent(x) /\ Parent(x) \in Nodes /\ f[Parent(x)] \in Nodes
    BY <1>3, ParentType, Zenon
  <2>3. c[<<x, f[Parent(x)]>>] = f[Parent(x)]
    BY <2>2, Zenon
  <2>4. v[x] = x /\ (x \in B <=> (IsOdd(x[1]) \/ x[1] = 0))
    BY Zenon
  <2> HIDE DEF v, B, c, h
  <2> QED
    BY <2>1, <2>2, <2>3, <2>4, Zenon
<1>5. Def(f)
  BY <1>3, <1>4, Zenon
<1>6. Def(SkipLevels)
  <2>1. SkipLevels = CHOOSE g : Def(g)
    BY Zenon DEF SkipLevels
  <2> HIDE DEF Def
  <2> QED
    BY <1>5, <2>1, Zenon
<1> DEFINE g == SkipLevels
<1>7. \A x \in Nodes : g[x] = IF ~IsOdd(x[1]) /\ x[1] # 0 THEN g[Parent(x)] ELSE x
  BY <1>6, Zenon
<1> DEFINE Q == {n \in Nat : \A x \in Nodes : x[1] = n => g[x] \in Nodes}
<1>8. ASSUME NEW n \in Nat, \A k \in 0..(n - 1) : k \in Q PROVE n \in Q
  <2> SUFFICES ASSUME NEW x \in Nodes, x[1] = n PROVE g[x] \in Nodes
    BY Zenon
  <2>1. n # 0 => Parent(x) \in Nodes /\ Parent(x)[1] \in 0..(n - 1)
    BY ParentType
  <2>2. n # 0 => g[Parent(x)] \in Nodes
    BY <2>1, <1>8, Zenon
  <2> HIDE DEF g
  <2> QED
    BY <1>7, <2>2, Zenon
<1>9. \A n \in Nat : n \in Q
  <2> HIDE DEF Q
  <2> QED
    BY <1>8, StrongInduction, Zenon
<1>10. \A x \in Nodes : g[x] \in Nodes
  BY <1>9, ParentType, Zenon
<1> QED
  BY <1>7, <1>10, Zenon

\* The highest bit of x is at least half of x.
LEMMA HighestBitBounds ==
    \A x \in Nat : x > 0 => /\ HighestBit[x] \in Nat /\ HighestBit[x] > 0
                            /\ HighestBit[x] <= x /\ x < 2 * HighestBit[x]
<1> DEFINE h == HighestBit
           Q == {x \in Nat : x > 0 => h[x] > 0 /\ h[x] <= x /\ x < 2 * h[x]}
<1>1. \A x \in Nat : h[x] \in Nat /\ h[x] = IF x <= 1 THEN 1 ELSE 2 * h[x \div 2]
  BY HighestBitStep, Zenon
<1> HIDE DEF h
<1>2. ASSUME NEW x \in Nat, \A k \in 0..(x - 1) : k \in Q PROVE x \in Q
  <2>1. CASE x <= 1
    BY <2>1, <1>1
  <2>2. CASE x > 1
    <3> DEFINE y == x \div 2
    <3>1. y \in Nat /\ y \in 0..(x - 1) /\ y > 0 /\ 2 * y <= x /\ x <= 2 * y + 1
      BY <2>2
    <3>2. h[x] = 2 * h[y] /\ h[y] \in Nat
      BY <2>2, <3>1, <1>1
    <3> HIDE DEF y
    <3>3. h[y] > 0 /\ h[y] <= y /\ y < 2 * h[y]
      BY <3>1, <1>2, Zenon
    <3> QED
      BY <3>1, <3>2, <3>3
  <2> QED
    BY <2>1, <2>2
<1>3. \A x \in Nat : x \in Q
  <2> HIDE DEF Q
  <2> QED
    BY <1>2, StrongInduction, Zenon
<1> QED
  BY <1>1, <1>3, Zenon DEF h

-----------------------------------------------------------------------------
\* The loop of verify_inclusion follows the shape of the tree: all siblings
\* but the last take it through a subtree, and the last joins the subtrees.

\* The first n turns of the loop, from the leaf r at a node.
Climbs(f, n, node, r, s) ==
  /\ f[0] = [node |-> node, r |-> r]
  /\ \A i \in 1..n : f[i] = ClimbStep(f[i - 1], s[i])

\* The node is in the left subtree of the root.
InLeft(x) == x[1] < HighestBit[x[2]]

\* The node as its subtree of the root numbers it.
InSubtree(x) ==
  IF InLeft(x) THEN <<x[1], HighestBit[x[2]] - 1>>
  ELSE <<x[1] - HighestBit[x[2]], x[2] - HighestBit[x[2]]>>

\* The hash of the root, from those of the node's subtree and of the other.
Join(x, hash, p) == IF InLeft(x) THEN InnerHash(hash, p) ELSE InnerHash(p, hash)

\* The loop from x is the loop inside the subtree of x, and then one turn that
\* joins the two subtrees and arrives at the root.
Splits(x) ==
  /\ LevelsWithSibling[x] = LevelsWithSibling[InSubtree(x)] + 1
  /\ \A f, g, s, r :
       (/\ Climbs(f, LevelsWithSibling[x], x, r, s)
        /\ Climbs(g, LevelsWithSibling[InSubtree(x)], InSubtree(x), r, s))
       => /\ f[LevelsWithSibling[x]].node[2] = 0
          /\ f[LevelsWithSibling[x]].r =
               Join(x, g[LevelsWithSibling[InSubtree(x)]].r, s[LevelsWithSibling[x]])

\* One turn leads from the hash r at node x to the hash q at node u.
Turn(x, r, p, u, q) ==
  ClimbStep([node |-> x, r |-> r], p) = [node |-> u, r |-> q]

\* What follows the first element of the loop's states or siblings.
Rest(f, a, b) == [i \in a..b |-> f[i + 1]]

\* One turn further on, the loop goes through the rest of the siblings.
LEMMA ClimbsOn ==
    ASSUME NEW f, NEW n \in Nat, NEW x, NEW r, NEW s, NEW y, NEW q,
           Climbs(f, n + 1, x, r, s),
           Turn(x, r, s[1], y, q)
    PROVE  Climbs(Rest(f, 0, n), n, y, q, Rest(s, 1, n))
<1> DEFINE g == Rest(f, 0, n)
           t == Rest(s, 1, n)
<1> USE DEF Rest
<1>1. g[0] = [node |-> y, r |-> q]
  <2>1. 1 \in 1..(n + 1) /\ 1 - 1 = 0 /\ 0 \in 0..n /\ 0 + 1 = 1
    OBVIOUS
  <2>2. f[1] = ClimbStep(f[0], s[1])
    BY <2>1, Zenon DEF Climbs
  <2> QED
    BY <2>1, <2>2, Zenon DEF Climbs, Turn
<1>2. ASSUME NEW i \in 1..n PROVE g[i] = ClimbStep(g[i - 1], t[i])
  <2>1. i + 1 \in 1..(n + 1) /\ (i + 1) - 1 = i /\ i \in 0..n /\ i - 1 \in 0..n /\ (i - 1) + 1 = i
    OBVIOUS
  <2>2. f[i + 1] = ClimbStep(f[i], s[i + 1])
    BY <2>1, Zenon DEF Climbs
  <2>3. g[i] = f[i + 1] /\ g[i - 1] = f[i] /\ t[i] = s[i + 1]
    BY <2>1, Zenon
  <2> QED
    BY <2>2, <2>3, Zenon
<1> HIDE DEF g, t
<1>3. Climbs(g, n, y, q, t)
  BY <1>1, <1>2, Zenon DEF Climbs
<1> QED
  BY <1>3, Zenon DEF g, t

\* Both loops take their first turn alike.
LEMMA SplitsByTurn ==
    ASSUME NEW x \in Nodes, NEW u \in Nodes, NEW z \in Nodes,
           LET y == InSubtree(x) IN
             /\ y \in Nodes /\ InSubtree(u) = z /\ (InLeft(x) <=> InLeft(u))
             /\ LevelsWithSibling[x] = 1 + LevelsWithSibling[u]
             /\ LevelsWithSibling[y] = 1 + LevelsWithSibling[z]
             /\ \A r, p : \E q :
                  /\ Turn(x, r, p, u, q)
                  /\ Turn(y, r, p, z, q),
           Splits(u)
    PROVE  Splits(x)
<1> DEFINE y == InSubtree(x)
           n == LevelsWithSibling[z]
           L(w) == LevelsWithSibling[w]
<1>1. n \in Nat /\ L(z) = n /\ L(u) = n + 1 /\ L(y) = n + 1 /\ L(x) = n + 2
  BY LevelsStep DEF Splits
<1>2. ASSUME NEW f, NEW g, NEW s, NEW r, Climbs(f, n + 2, x, r, s), Climbs(g, n + 1, y, r, s)
      PROVE  /\ f[n + 2].node[2] = 0
             /\ f[n + 2].r = Join(x, g[n + 1].r, s[n + 2])
  <2>1. PICK q : /\ Turn(x, r, s[1], u, q)
                 /\ Turn(y, r, s[1], z, q)
    BY Zenon
  <2> DEFINE f1 == Rest(f, 0, n + 1)
             g1 == Rest(g, 0, n)
             s1 == Rest(s, 1, n + 1)
             s2 == Rest(s, 1, n)
  <2>2. Climbs(f1, n + 1, u, q, s1)
    <3>1. n + 1 \in Nat /\ n + 2 = (n + 1) + 1
      BY <1>1
    <3> QED
      BY <1>2, <2>1, <3>1, ClimbsOn, Zenon
  <2>3. Climbs(g1, n, z, q, s2)
    BY <1>1, <1>2, <2>1, ClimbsOn, Zenon
  <2>4. Climbs(g1, n, z, q, s1)
    <3>1. \A i \in 1..n : s1[i] = s2[i]
      BY <1>1 DEF Rest
    <3> HIDE DEF s1, s2
    <3> QED
      BY <2>3, <3>1, Zenon DEF Climbs
  <2>5. /\ f1[n + 1] = f[n + 2] /\ g1[n] = g[n + 1] /\ s1[n + 1] = s[n + 2]
    BY <1>1 DEF Rest
  <2> HIDE DEF f1, g1, s1, s2, n
  <2>6. /\ f1[n + 1].node[2] = 0
        /\ f1[n + 1].r = Join(u, g1[n].r, s1[n + 1])
    BY <1>1, <2>2, <2>4 DEF Splits
  <2> QED
    BY <2>5, <2>6, Zenon DEF Join
<1> HIDE DEF n
<1> QED
  BY <1>1, <1>2 DEF Splits

\* A node with a sibling: one turn leads to its parent.
LEMMA PlainTurn ==
    ASSUME NEW x \in Nodes, IsOdd(x[1]) \/ x[1] # x[2], NEW r, NEW p
    PROVE  Turn(x, r, p, Parent(x),
                IF IsOdd(x[1]) THEN InnerHash(p, r) ELSE InnerHash(r, p))
<1> DEFINE at == [node |-> x, r |-> r]
<1>1. at.node = x /\ at.r = r
  BY Zenon
<1> HIDE DEF at
<1>2. ClimbStep(at, p) =
        [node |-> Parent(x),
         r |-> IF IsOdd(x[1]) THEN InnerHash(p, r) ELSE InnerHash(r, p)]
  BY <1>1, Zenon DEF ClimbStep
<1> QED
  BY <1>2, Zenon DEF at, Turn

\* A node without a sibling: the turn is the one of its parent.
LEMMA SkipTurn ==
    ASSUME NEW x \in Nodes, ~IsOdd(x[1]), x[1] = x[2], x[1] # 0, NEW r, NEW p
    PROVE  ClimbStep([node |-> x, r |-> r], p) = ClimbStep([node |-> Parent(x), r |-> r], p)
<1> DEFINE at == [node |-> x, r |-> r]
           up == [node |-> Parent(x), r |-> r]
           top == SkipLevels[Parent(x)]
           to == [node |-> Parent(top), r |-> InnerHash(p, r)]
<1>1. at.node = x /\ at.r = r /\ up.node = Parent(x) /\ up.r = r
  BY Zenon
<1>2. Parent(x) \in Nodes /\ Parent(x)[1] = Parent(x)[2]
  BY ParentType, Zenon DEF Parent
<1>3. SkipLevels[x] = top
  BY SkipStep, Zenon
<1>4. IsOdd(Parent(x)[1]) => top = Parent(x)
  BY SkipStep, <1>2, Zenon
<1> HIDE DEF at, up, top
<1>5. ClimbStep(at, p) = to
  BY <1>1, <1>3, Zenon DEF ClimbStep
<1>6. ClimbStep(up, p) = to
  <2>1. CASE IsOdd(Parent(x)[1])
    BY <2>1, <1>1, <1>4, Zenon DEF ClimbStep
  <2>2. CASE ~IsOdd(Parent(x)[1])
    <3>1. ClimbStep(up, p) = [node |-> Parent(SkipLevels[Parent(x)]), r |-> InnerHash(p, r)]
      BY <2>2, <1>1, <1>2, Zenon DEF ClimbStep
    <3> QED
      BY <3>1, Zenon DEF top
  <2> QED
    BY <2>1, <2>2, Zenon
<1> QED
  BY <1>5, <1>6, Zenon DEF at, up

\* The two nodes are treated alike.
SameTurn(x, u, r, p) ==
  ClimbStep([node |-> x, r |-> r], p) = ClimbStep([node |-> u, r |-> r], p)

\* g is the loop from u, and after its first turn it is the loop f.
ClimbsAfter(g, f, n, u, r, s) ==
  Climbs(g, n, u, r, s) /\ \A i \in 1..n : g[i] = f[i]

\* The loop from a node without a sibling is the loop from its parent.
LEMMA ClimbsFromParent ==
    ASSUME NEW f, NEW n \in Nat, NEW x, NEW u, NEW r, NEW s, Climbs(f, n, x, r, s),
           n > 0 => SameTurn(x, u, r, s[1])
    PROVE  \E g : ClimbsAfter(g, f, n, u, r, s)
<1> DEFINE g == [i \in 0..n |-> IF i = 0 THEN [node |-> u, r |-> r] ELSE f[i]]
<1>1. g[0] = [node |-> u, r |-> r] /\ \A i \in 1..n : g[i] = f[i]
  OBVIOUS
<1>2. ASSUME NEW i \in 1..n PROVE g[i] = ClimbStep(g[i - 1], s[i])
  <2>1. f[i] = ClimbStep(f[i - 1], s[i]) /\ g[i] = f[i]
    BY <1>1, Zenon DEF Climbs
  <2>2. CASE i = 1
    <3>1. n > 0 /\ i - 1 = 0 /\ f[0] = [node |-> x, r |-> r]
      BY <2>2 DEF Climbs
    <3> HIDE DEF g
    <3> QED
      BY <2>1, <2>2, <3>1, <1>1, Zenon DEF SameTurn
  <2>3. CASE i # 1
    <3>1. i - 1 \in 1..n
      BY <2>3
    <3> HIDE DEF g
    <3> QED
      BY <2>1, <3>1, <1>1, Zenon
  <2> QED
    BY <2>2, <2>3, Zenon
<1> HIDE DEF g
<1> QED
  BY <1>1, <1>2, Zenon DEF Climbs, ClimbsAfter

\* Both loops go on from the parents at once.
LEMMA SplitsBySkip ==
    ASSUME NEW x \in Nodes, NEW u \in Nodes, NEW z \in Nodes,
           LET y == InSubtree(x) IN
             /\ y \in Nodes /\ InSubtree(u) = z /\ (InLeft(x) <=> InLeft(u))
             /\ LevelsWithSibling[x] = LevelsWithSibling[u]
             /\ LevelsWithSibling[y] = LevelsWithSibling[z]
             /\ \A r, p : SameTurn(x, u, r, p)
             /\ LevelsWithSibling[y] > 0 =>
                  \A r, p : SameTurn(y, z, r, p),
           Splits(u)
    PROVE  Splits(x)
<1> DEFINE y == InSubtree(x)
           n == LevelsWithSibling[z]
           L(w) == LevelsWithSibling[w]
<1>1. n \in Nat /\ L(z) = n /\ L(u) = n + 1 /\ L(y) = n /\ L(x) = n + 1 /\ n + 1 \in Nat /\ n + 1 > 0
  BY LevelsStep DEF Splits
<1>2. ASSUME NEW f, NEW g, NEW s, NEW r, Climbs(f, n + 1, x, r, s), Climbs(g, n, y, r, s)
      PROVE  /\ f[n + 1].node[2] = 0
             /\ f[n + 1].r = Join(x, g[n].r, s[n + 1])
  <2>1. PICK f1 : ClimbsAfter(f1, f, n + 1, u, r, s)
    <3>1. SameTurn(x, u, r, s[1])
      BY Zenon
    <3> HIDE DEF n
    <3> QED
      BY <3>1, <1>1, <1>2, ClimbsFromParent, Zenon
  <2>2. PICK g1 : ClimbsAfter(g1, g, n, z, r, s)
    <3>1. n > 0 => SameTurn(y, z, r, s[1])
      BY <1>1, Zenon
    <3> HIDE DEF n, y
    <3> QED
      BY <3>1, <1>1, <1>2, ClimbsFromParent, Zenon
  <2>3. n + 1 \in 1..(n + 1) /\ (n # 0 => n \in 1..n)
    BY <1>1
  <2>4. f1[n + 1] = f[n + 1]
    BY <2>1, <2>3, Zenon DEF ClimbsAfter
  <2>5. g1[n].r = g[n].r
    <3>1. CASE n = 0
      BY <3>1, <1>2, <2>2 DEF Climbs, ClimbsAfter
    <3>2. CASE n # 0
      BY <3>2, <2>2, <2>3, Zenon DEF ClimbsAfter
    <3> QED
      BY <3>1, <3>2, Zenon
  <2> HIDE DEF n
  <2>6. /\ f1[n + 1].node[2] = 0
        /\ f1[n + 1].r = Join(u, g1[n].r, s[n + 1])
    BY <1>1, <2>1, <2>2 DEF Splits, ClimbsAfter
  <2> QED
    BY <2>4, <2>5, <2>6, Zenon DEF Join
<1> HIDE DEF n
<1> QED
  BY <1>1, <1>2 DEF Splits

\* The subtree of a node and the subtree of its parent.
LEMMA SubtreeParent ==
    ASSUME NEW x \in Nodes, x[2] > 1, x[1] <= x[2]
    PROVE  LET y == InSubtree(x)
               u == Parent(x)
           IN  /\ y \in Nodes /\ u \in Nodes /\ u[2] > 0 /\ u[1] <= u[2]
               /\ InSubtree(u) = Parent(y) /\ (InLeft(x) <=> InLeft(u))
               /\ InLeft(x) => x[1] # x[2] /\ y[1] = x[1] /\ y[2] > 0
                               /\ (IsOdd(y[1]) \/ y[1] # y[2])
               /\ ~InLeft(x) => /\ IsOdd(x[1]) <=> IsOdd(y[1])
                                /\ x[1] = x[2] <=> y[1] = y[2]
                                /\ y[1] <= y[2]
<1> DEFINE a == x[1]
           b == x[2]
           k == HighestBit[b \div 2]
           u == <<a \div 2, b \div 2>>
<1>1. a \in Nat /\ b \in Nat /\ a <= b /\ b > 1 /\ x = <<a, b>>
  BY DEF Nodes
<1>2. b \div 2 \in Nat /\ a \div 2 \in Nat /\ b \div 2 > 0 /\ a \div 2 <= b \div 2
  BY <1>1
<1>3. HighestBit[b] = 2 * k
  BY <1>1, HighestBitStep
<1>4. k \in Nat /\ k > 0 /\ k <= b \div 2 /\ b \div 2 < 2 * k
  BY <1>2, HighestBitBounds, Zenon
<1>5. Parent(x) = u /\ u \in Nodes /\ u[1] = a \div 2 /\ u[2] = b \div 2
  BY <1>1, <1>2, Zenon DEF Parent, Nodes
<1>6. InLeft(x) <=> a < 2 * k
  BY <1>3, Zenon DEF InLeft
<1>7. InLeft(u) <=> a \div 2 < k
  BY <1>5, Zenon DEF InLeft
<1> HIDE DEF a, b, k
<1>8. InLeft(x) <=> InLeft(u)
  BY <1>1, <1>4, <1>6, <1>7
<1>9. CASE InLeft(x)
  <2>1. InSubtree(x) = <<a, 2 * k - 1>> /\ InSubtree(u) = <<a \div 2, k - 1>>
    BY <1>3, <1>5, <1>8, <1>9, Zenon DEF InSubtree, a, b, k
  <2>2. a < 2 * k /\ a # b
    BY <1>1, <1>4, <1>6, <1>9
  <2>3. 2 * k - 1 \in Nat /\ 2 * k - 1 > 0 /\ (2 * k - 1) \div 2 = k - 1
    BY <1>4
  <2>4. a % 2 = 1 \/ a # 2 * k - 1
    BY <1>1, <1>4
  <2>5. InSubtree(x) \in Nodes /\ Parent(InSubtree(x)) = InSubtree(u)
    BY <2>1, <2>3, <1>1 DEF Parent, Nodes
  <2> QED
    BY <1>2, <1>5, <1>8, <1>9, <2>1, <2>2, <2>3, <2>4, <2>5 DEF a, b, IsOdd
<1>10. CASE ~InLeft(x)
  <2>1. InSubtree(x) = <<a - 2 * k, b - 2 * k>> /\ InSubtree(u) = <<a \div 2 - k, b \div 2 - k>>
    BY <1>3, <1>5, <1>8, <1>10, Zenon DEF InSubtree, a, b, k
  <2>2. a >= 2 * k
    BY <1>1, <1>4, <1>6, <1>10
  <2>3. /\ a - 2 * k \in Nat /\ b - 2 * k \in Nat /\ a - 2 * k <= b - 2 * k
        /\ (a - 2 * k) \div 2 = a \div 2 - k /\ (b - 2 * k) \div 2 = b \div 2 - k
    BY <1>1, <1>4, <2>2
  <2>4. a % 2 = 1 <=> (a - 2 * k) % 2 = 1
    BY <1>1, <1>4, <2>2
  <2>5. InSubtree(x) \in Nodes /\ Parent(InSubtree(x)) = InSubtree(u)
    BY <2>1, <2>3, <1>1 DEF Parent, Nodes
  <2>6. a = b <=> a - 2 * k = b - 2 * k
    BY <1>1, <1>4
  <2> QED
    BY <1>2, <1>5, <1>8, <1>10, <2>1, <2>3, <2>4, <2>5, <2>6 DEF a, b, IsOdd
<1> QED
  BY <1>9, <1>10, Zenon

\* A tree of two leaves: its one sibling is the other leaf.
LEMMA SplitsPair ==
    ASSUME NEW x \in Nodes, x[2] = 1, x[1] <= 1
    PROVE  Splits(x)
<1> DEFINE y == InSubtree(x)
<1>1. HighestBit[1] = 1
  BY HighestBitStep
<1>2. x[1] \in {0, 1} /\ x = <<x[1], 1>> /\ x[1] \in Nat
  BY DEF Nodes
<1>3. y = <<0, 0>> /\ y \in Nodes /\ (InLeft(x) <=> x[1] = 0)
  BY <1>1, <1>2 DEF InSubtree, InLeft, Nodes
<1>4. IsOdd(x[1]) <=> x[1] = 1
  BY <1>2 DEF IsOdd
<1>5. Parent(x) = <<0, 0>>
  BY <1>2 DEF Parent
<1>6. LevelsWithSibling[<<0, 0>>] = 0
  BY <1>3, LevelsStep, Zenon
<1>7. LevelsWithSibling[x] = 1
  BY <1>2, <1>4, <1>5, <1>6, LevelsStep
<1>8. ASSUME NEW f, NEW g, NEW s, NEW r, Climbs(f, 1, x, r, s), Climbs(g, 0, y, r, s)
      PROVE  f[1].node[2] = 0 /\ f[1].r = Join(x, g[0].r, s[1])
  <2>1. f[1] = ClimbStep([node |-> x, r |-> r], s[1]) /\ g[0].r = r
    BY <1>8 DEF Climbs
  <2>2. f[1] = [node |-> <<0, 0>>,
                r |-> IF IsOdd(x[1]) THEN InnerHash(s[1], r) ELSE InnerHash(r, s[1])]
    BY <2>1, <1>2, <1>4, <1>5, PlainTurn DEF Turn
  <2> QED
    BY <2>1, <2>2, <1>2, <1>3, <1>4 DEF Join
<1> QED
  BY <1>3, <1>6, <1>7, <1>8 DEF Splits

\* The loop splits at the root of every tree of two or more leaves.
LEMMA Split ==
    ASSUME NEW node \in Nodes, node[2] > 0, node[1] <= node[2]
    PROVE  Splits(node)
<1> DEFINE P == {n \in Nat : \A x \in Nodes : x[2] = n /\ n > 0 /\ x[1] <= n => Splits(x)}
<1>1. ASSUME NEW n \in Nat, \A m \in 0..(n - 1) : m \in P PROVE n \in P
  <2> SUFFICES ASSUME NEW x \in Nodes, x[2] = n, n > 0, x[1] <= n PROVE Splits(x)
    BY Zenon
  <2>1. CASE n = 1
    BY <2>1, SplitsPair, Zenon
  <2>2. CASE n > 1
    <3> DEFINE y == InSubtree(x)
               u == Parent(x)
    <3>1. /\ y \in Nodes /\ u \in Nodes /\ u[2] > 0 /\ u[1] <= u[2]
          /\ InSubtree(u) = Parent(y) /\ (InLeft(x) <=> InLeft(u))
          /\ InLeft(x) => x[1] # x[2] /\ y[1] = x[1] /\ y[2] > 0
                               /\ (IsOdd(y[1]) \/ y[1] # y[2])
          /\ ~InLeft(x) => /\ IsOdd(x[1]) <=> IsOdd(y[1])
                           /\ x[1] = x[2] <=> y[1] = y[2]
                           /\ y[1] <= y[2]
      BY <2>2, SubtreeParent, Zenon
    <3>2. /\ x[1] \in Nat /\ x[2] \in Nat /\ y[1] \in Nat /\ y[2] \in Nat
          /\ u[1] \in Nat /\ u[2] \in Nat /\ Parent(y) \in Nodes
      BY <3>1, ParentType, Zenon
    <3>3. Splits(u)
      <4>2. x[2] # 0
        BY <2>2
      <4>3. u[2] < x[2]
        BY <4>2, ParentType, Zenon
      <4> HIDE DEF u
      <4>1. u[2] \in 0..(n - 1)
        BY <4>3, <3>2
      <4> QED
        BY <4>1, <3>1, <3>2, <1>1, Zenon
    <3> HIDE DEF y, u
    <3>4. CASE IsOdd(x[1]) \/ x[1] # x[2]
      <4>1. (IsOdd(y[1]) \/ y[1] # y[2]) /\ (IsOdd(x[1]) <=> IsOdd(y[1]))
        BY <3>1, <3>4, Zenon
      <4>2. y[2] # 0
        BY <3>1, <3>2, <4>1 DEF IsOdd
      <4>3. LevelsWithSibling[x] = 1 + LevelsWithSibling[u]
        BY <2>2, <3>4, LevelsStep DEF u
      <4>4. LevelsWithSibling[y] = 1 + LevelsWithSibling[Parent(y)]
        BY <3>1, <4>1, <4>2, LevelsStep, Zenon
      <4>5. ASSUME NEW r, NEW p
            PROVE  \E q : Turn(x, r, p, u, q) /\ Turn(y, r, p, Parent(y), q)
        <5> DEFINE q == IF IsOdd(x[1]) THEN InnerHash(p, r) ELSE InnerHash(r, p)
        <5>1. Turn(x, r, p, u, q)
          BY <3>4, PlainTurn, Zenon DEF u
        <5>2. Turn(y, r, p, Parent(y), q)
          <6>1. q = IF IsOdd(y[1]) THEN InnerHash(p, r) ELSE InnerHash(r, p)
            BY <4>1, Zenon
          <6> HIDE DEF q
          <6> QED
            BY <3>1, <4>1, <6>1, PlainTurn, Zenon
        <5> QED
          BY <5>1, <5>2, Zenon
      <4> QED
        BY <3>1, <3>2, <3>3, <4>3, <4>4, <4>5, SplitsByTurn, Zenon DEF y
    <3>5. CASE ~IsOdd(x[1]) /\ x[1] = x[2]
      <4>1. ~IsOdd(y[1]) /\ y[1] = y[2] /\ ~InLeft(x)
        BY <3>1, <3>5, Zenon
      <4>2. LevelsWithSibling[x] = LevelsWithSibling[u]
        BY <2>2, <3>1, <3>5, LevelsStep DEF u
      <4>3. LevelsWithSibling[y] = LevelsWithSibling[Parent(y)]
        <5>1. CASE y[2] = 0
          <6>1. Parent(y)[2] = 0
            BY <5>1, <3>2 DEF Parent
          <6> QED
            BY <5>1, <6>1, <3>1, <3>2, LevelsStep, Zenon
        <5>2. CASE y[2] # 0
          BY <5>2, <3>1, <3>2, <4>1, LevelsStep
        <5> QED
          BY <5>1, <5>2, Zenon
      <4>4. \A r, p : SameTurn(x, u, r, p)
        BY <2>2, <3>5, SkipTurn DEF u, SameTurn
      <4>5. LevelsWithSibling[y] > 0 => \A r, p : SameTurn(y, Parent(y), r, p)
        <5>1. LevelsWithSibling[y] > 0 => y[1] # 0
          BY <3>1, <4>1, LevelsStep
        <5> QED
          BY <5>1, <3>1, <4>1, SkipTurn, Zenon DEF SameTurn
      <4> QED
        BY <3>1, <3>2, <3>3, <4>2, <4>3, <4>4, <4>5, SplitsBySkip, Zenon DEF y
    <3> QED
      BY <3>4, <3>5, Zenon
  <2> QED
    BY <2>1, <2>2
<1>2. \A n \in Nat : n \in P
  <2> HIDE DEF P
  <2> QED
    BY <1>1, StrongInduction, Zenon
<1> QED
  BY <1>2, ParentType, Zenon

-----------------------------------------------------------------------------
\* The loop of verify_inclusion can be run over any siblings.
LEMMA LoopRuns ==
    ASSUME NEW n \in Nat, NEW x, NEW r, NEW s
    PROVE  \E f : Climbs(f, n, x, r, s)
<1> DEFINE P == {m \in Nat : \E f : Climbs(f, m, x, r, s)}
<1>1. ASSUME NEW m \in Nat, \A k \in 0..(m - 1) : k \in P PROVE m \in P
  <2>1. CASE m = 0
    <3> DEFINE f == [i \in {0} |-> [node |-> x, r |-> r]]
    <3>1. f[0] = [node |-> x, r |-> r]
      BY Zenon
    <3> HIDE DEF f
    <3>2. Climbs(f, m, x, r, s)
      BY <2>1, <3>1 DEF Climbs
    <3> QED
      BY <3>2, Zenon
  <2>2. CASE m # 0
    <3>1. m - 1 \in 0..(m - 1) /\ m - 1 \in Nat
      BY <2>2
    <3>2. PICK f : Climbs(f, m - 1, x, r, s)
      BY <3>1, <1>1, Zenon
    <3> DEFINE g == [i \in 0..m |-> IF i = m THEN ClimbStep(f[m - 1], s[m]) ELSE f[i]]
    <3>3. g[0] = f[0] /\ \A i \in 1..(m - 1) : g[i] = f[i]
      BY <2>2
    <3>4. g[m] = ClimbStep(f[m - 1], s[m]) /\ g[m - 1] = f[m - 1]
      BY <2>2
    <3>5. \A i \in 1..m : i = m \/ (i \in 1..(m - 1) /\ (i - 1 = 0 \/ i - 1 \in 1..(m - 1)))
      OBVIOUS
    <3> HIDE DEF g
    <3>6. \A i \in 1..m : g[i] = ClimbStep(g[i - 1], s[i])
      BY <3>2, <3>3, <3>4, <3>5, Zenon DEF Climbs
    <3>7. Climbs(g, m, x, r, s)
      BY <3>2, <3>3, <3>6, Zenon DEF Climbs
    <3> QED
      BY <3>7, Zenon
  <2> QED
    BY <2>1, <2>2, Zenon
<1>2. \A m \in Nat : m \in P
  <2> HIDE DEF P
  <2> QED
    BY <1>1, StrongInduction, Zenon
<1> QED
  BY <1>2, Zenon

\* Climb is that run.
LEMMA ClimbIsLoop ==
    ASSUME NEW s, Len(s) \in Nat, NEW x, NEW r
    PROVE  Climbs(Climb([node |-> x, r |-> r], s), Len(s), x, r, s)
<1> DEFINE n == Len(s)
           start == [node |-> x, r |-> r]
           Def(f) == f = [i \in 0..Len(s) |->
                            IF i = 0 THEN start ELSE ClimbStep(f[i - 1], s[i])]
<1>1. PICK f : Climbs(f, n, x, r, s)
  BY LoopRuns, Zenon
<1> DEFINE g == [i \in 0..n |-> f[i]]
<1>2. Def(g)
  <2>1. ASSUME NEW i \in 0..n
        PROVE  g[i] = IF i = 0 THEN start ELSE ClimbStep(g[i - 1], s[i])
    <3>1. i # 0 => i \in 1..n /\ i - 1 \in 0..n
      OBVIOUS
    <3>2. i # 0 => f[i] = ClimbStep(f[i - 1], s[i])
      BY <3>1, <1>1, Zenon DEF Climbs
    <3>3. i # 0 => g[i - 1] = f[i - 1]
      BY <3>1, Zenon
    <3>4. i = 0 => f[i] = start
      BY <1>1, Zenon DEF Climbs
    <3>5. g[i] = f[i]
      BY Zenon
    <3> HIDE DEF g, start
    <3> QED
      BY <3>2, <3>3, <3>4, <3>5, Zenon
  <2> DEFINE g2 == [i \in 0..n |-> IF i = 0 THEN start ELSE ClimbStep(g[i - 1], s[i])]
  <2>2. \A i \in 0..n : f[i] = g2[i]
    BY <2>1, Zenon
  <2>3. g = g2
    BY <2>2, Zenon
  <2> QED
    BY <2>3, Zenon
<1>3. Def(Climb(start, s))
  <2>1. Climb(start, s) = CHOOSE f2 : Def(f2)
    BY Zenon DEF Climb
  <2> HIDE DEF Def, g
  <2> QED
    BY <1>2, <2>1, Zenon
<1> DEFINE c == Climb(start, s)
<1>4. \A i \in 0..n : c[i] = IF i = 0 THEN start ELSE ClimbStep(c[i - 1], s[i])
  BY <1>3, Zenon
<1>5. 0 \in 0..n /\ \A i \in 1..n : i \in 0..n /\ i # 0
  OBVIOUS
<1> HIDE DEF c
<1>6. c[0] = start /\ \A i \in 1..n : c[i] = ClimbStep(c[i - 1], s[i])
  BY <1>4, <1>5, Zenon
<1> QED
  BY <1>6, Zenon DEF Climbs, c

\* The parts of a slice are smaller slices.
LEMMA SliceParts ==
    ASSUME NEW N \in Nat, NEW s \in Slices(N), s[2] > 1
    PROVE  LET k == LargestPowerOfTwoBelow(s[2]) IN
             /\ k \in Nat /\ k > 0 /\ k < s[2] /\ s[2] <= 2 * k
             /\ LeftPart(s) = <<s[1], k>> /\ RightPart(s) = <<s[1] + k, s[2] - k>>
             /\ LeftPart(s) \in Slices(N) /\ LeftPart(s)[2] \in 0..(s[2] - 1)
             /\ RightPart(s) \in Slices(N) /\ RightPart(s)[2] \in 0..(s[2] - 1)
<1> DEFINE k == HighestBit[s[2] - 1]
<1>1. s[1] \in 0..N /\ s[2] \in 0..N /\ s[1] + s[2] <= N /\ s = <<s[1], s[2]>>
  BY DEF Slices
<1>2. k \in Nat /\ k > 0 /\ k <= s[2] - 1 /\ s[2] - 1 < 2 * k
  BY <1>1, HighestBitBounds
<1>3. LargestPowerOfTwoBelow(s[2]) = k
  BY Zenon DEF LargestPowerOfTwoBelow
<1>4. LeftPart(s) = <<s[1], k>> /\ RightPart(s) = <<s[1] + k, s[2] - k>>
  BY <1>3, Zenon DEF LeftPart, RightPart
<1> HIDE DEF k
<1>5. <<s[1], k>> \in Slices(N) /\ <<s[1] + k, s[2] - k>> \in Slices(N)
  BY <1>1, <1>2 DEF Slices
<1> QED
  BY <1>1, <1>2, <1>3, <1>4, <1>5

\* merkle_root, slice by slice.
LEMMA SliceRootsStep ==
    ASSUME NEW leaves, Len(leaves) \in Nat
    PROVE  \A s \in Slices(Len(leaves)) : SliceRoots(leaves)[s] =
             IF s[2] = 0 THEN EmptyRoot
             ELSE IF s[2] = 1 THEN leaves[s[1] + 1]
             ELSE InnerHash(SliceRoots(leaves)[LeftPart(s)], SliceRoots(leaves)[RightPart(s)])
<1> DEFINE N == Len(leaves)
           Body(f, s) == IF s[2] = 0 THEN EmptyRoot
                         ELSE IF s[2] = 1 THEN leaves[s[1] + 1]
                         ELSE InnerHash(f[LeftPart(s)], f[RightPart(s)])
           Once(f) == [s \in Slices(N) |-> Body(f, s)]
           Upto(f, d) == \A s \in Slices(N) : s[2] < d => f[s] = Body(f, s)
           P == {d \in Nat : \E f : Upto(f, d)}
           Def(f) == f = [s \in Slices(Len(leaves)) |->
                            IF s[2] = 0 THEN EmptyRoot
                            ELSE IF s[2] = 1 THEN leaves[s[1] + 1]
                            ELSE InnerHash(f[LeftPart(s)], f[RightPart(s)])]
<1>0. \A s \in Slices(N) : s[2] \in 0..N
  BY Zenon DEF Slices
<1>1. ASSUME NEW d \in Nat, NEW f, Upto(f, d) PROVE Upto(Once(f), d + 1)
  <2> SUFFICES ASSUME NEW s \in Slices(N), s[2] < d + 1
               PROVE  Once(f)[s] = Body(Once(f), s)
    BY Zenon
  <2>1. CASE s[2] > 1
    <3> DEFINE l == LeftPart(s)
               q == RightPart(s)
    <3>1. l \in Slices(N) /\ q \in Slices(N) /\ l[2] < d /\ q[2] < d
      BY <2>1, <1>0, SliceParts
    <3> HIDE DEF l, q
    <3>2. Once(f)[l] = f[l] /\ Once(f)[q] = f[q]
      BY <3>1, <1>1, Zenon
    <3> QED
      BY <3>2, Zenon DEF l, q
  <2>2. CASE ~(s[2] > 1)
    <3>1. s[2] = 0 \/ s[2] = 1
      BY <2>2, <1>0
    <3> QED
      BY <3>1, Zenon
  <2> QED
    BY <2>1, <2>2, Zenon
<1>2. \A d \in Nat : d \in P
  <2>1. ASSUME NEW d \in Nat, \A k \in 0..(d - 1) : k \in P PROVE d \in P
    <3>1. CASE d = 0
      <4>1. Upto(leaves, d)
        BY <3>1, <1>0
      <4> QED
        BY <4>1, Zenon
    <3>2. CASE d # 0
      <4>1. d - 1 \in 0..(d - 1) /\ d - 1 \in Nat /\ (d - 1) + 1 = d
        BY <3>2
      <4>2. PICK f : Upto(f, d - 1)
        BY <2>1, <4>1, Zenon
      <4> HIDE DEF Upto, Once
      <4>3. Upto(Once(f), (d - 1) + 1)
        BY <1>1, <4>1, <4>2, Zenon
      <4> QED
        BY <4>1, <4>3, Zenon
    <3> QED
      BY <3>1, <3>2, Zenon
  <2> HIDE DEF P
  <2> QED
    BY <2>1, StrongInduction, Zenon
<1>3. PICK f : Upto(f, N + 1)
  <2>1. N + 1 \in Nat
    OBVIOUS
  <2> QED
    BY <1>2, <2>1, Zenon
<1> DEFINE g == Once(f)
<1>4. \A s \in Slices(N) : g[s] = f[s]
  <2>1. \A s \in Slices(N) : s[2] < N + 1
    BY <1>0
  <2> QED
    BY <2>1, <1>3, Zenon
<1>5. ASSUME NEW s \in Slices(N) PROVE Body(f, s) = Body(g, s)
  <2>1. CASE s[2] > 1
    <3>1. LeftPart(s) \in Slices(N) /\ RightPart(s) \in Slices(N)
      BY <2>1, SliceParts, Zenon
    <3> HIDE DEF g
    <3> QED
      BY <3>1, <1>4, Zenon
  <2>2. CASE ~(s[2] > 1)
    <3>1. s[2] = 0 \/ s[2] = 1
      BY <2>2, <1>0
    <3> QED
      BY <3>1, Zenon
  <2> QED
    BY <2>1, <2>2, Zenon
<1>6. Def(g)
  <2>1. g = [s \in Slices(N) |-> Body(g, s)]
    <3> DEFINE g2 == [s \in Slices(N) |-> Body(g, s)]
    <3> HIDE DEF Body
    <3>1. \A s \in Slices(N) : Body(f, s) = g2[s]
      BY <1>5, Zenon
    <3> QED
      BY <3>1, Zenon
  <2> QED
    BY <2>1, Zenon
<1>7. Def(SliceRoots(leaves))
  <2>1. SliceRoots(leaves) = CHOOSE h : Def(h)
    BY Zenon DEF SliceRoots
  <2> HIDE DEF Def, g
  <2> QED
    BY <1>6, <2>1, Zenon
<1> DEFINE h == SliceRoots(leaves)
<1>8. \A s \in Slices(N) : h[s] = Body(h, s)
  BY <1>7, Zenon
<1> QED
  BY <1>8, Zenon

\* build_path_recursive, slice by slice.
LEMMA SlicePathsStep ==
    ASSUME NEW leaves, Len(leaves) \in Nat
    PROVE  \A s \in Slices(Len(leaves)), index \in 0..Len(leaves) :
             SlicePaths(leaves)[<<s, index>>] =
               LET k == LargestPowerOfTwoBelow(s[2])
               IN  IF s[2] <= 1 THEN << >>
                   ELSE IF index < k
                   THEN Append(SlicePaths(leaves)[<<LeftPart(s), index>>],
                               SliceRoots(leaves)[RightPart(s)])
                   ELSE Append(SlicePaths(leaves)[<<RightPart(s), index - k>>],
                               SliceRoots(leaves)[LeftPart(s)])
<1> DEFINE N == Len(leaves)
           root == SliceRoots(leaves)
           D == Slices(N) \X (0..N)
           K(s) == LargestPowerOfTwoBelow(s[2])
           Body(f, x) == IF x[1][2] <= 1 THEN << >>
                         ELSE IF x[2] < K(x[1])
                         THEN Append(f[<<LeftPart(x[1]), x[2]>>], root[RightPart(x[1])])
                         ELSE Append(f[<<RightPart(x[1]), x[2] - K(x[1])>>], root[LeftPart(x[1])])
           Once(f) == [x \in D |-> Body(f, x)]
           Upto(f, d) == \A x \in D : x[1][2] < d => f[x] = Body(f, x)
           P == {d \in Nat : \E f : Upto(f, d)}
           Def(f) == f = [x \in Slices(Len(leaves)) \X (0..Len(leaves)) |->
                            LET s     == x[1]
                                index == x[2]
                                k     == LargestPowerOfTwoBelow(s[2])
                            IN  IF s[2] <= 1 THEN << >>
                                ELSE IF index < k
                                THEN Append(f[<<LeftPart(s), index>>], root[RightPart(s)])
                                ELSE Append(f[<<RightPart(s), index - k>>], root[LeftPart(s)])]
<1>0. \A s \in Slices(N) : s[2] \in 0..N
  BY Zenon DEF Slices
<1>a. ASSUME NEW x \in D, x[1][2] > 1
      PROVE  /\ x[2] < K(x[1]) => /\ <<LeftPart(x[1]), x[2]>> \in D
                                  /\ LeftPart(x[1])[2] < x[1][2]
             /\ ~(x[2] < K(x[1])) => /\ <<RightPart(x[1]), x[2] - K(x[1])>> \in D
                                     /\ RightPart(x[1])[2] < x[1][2]
  <2> DEFINE s == x[1]
             i == x[2]
  <2>1. s \in Slices(N) /\ i \in 0..N /\ s[2] > 1 /\ s[2] \in Nat
    BY <1>a, <1>0
  <2> HIDE DEF s, i
  <2>2. /\ K(s) \in Nat /\ LeftPart(s) \in Slices(N) /\ LeftPart(s)[2] \in 0..(s[2] - 1)
        /\ RightPart(s) \in Slices(N) /\ RightPart(s)[2] \in 0..(s[2] - 1)
    BY <2>1, SliceParts, Zenon
  <2> HIDE DEF K
  <2>3. /\ i < K(s) => <<LeftPart(s), i>> \in D
        /\ ~(i < K(s)) => <<RightPart(s), i - K(s)>> \in D
    BY <2>1, <2>2
  <2> QED
    BY <2>1, <2>2, <2>3 DEF s, i
<1>1. ASSUME NEW d \in Nat, NEW f, Upto(f, d) PROVE Upto(Once(f), d + 1)
  <2> SUFFICES ASSUME NEW x \in D, x[1][2] < d + 1
               PROVE  Once(f)[x] = Body(Once(f), x)
    BY Zenon
  <2>0. x[1][2] \in Nat
    BY <1>0
  <2>1. CASE x[1][2] <= 1
    BY <2>1, Zenon
  <2>2. CASE ~(x[1][2] <= 1) /\ x[2] < K(x[1])
    <3> DEFINE y == <<LeftPart(x[1]), x[2]>>
    <3>a. x[1][2] > 1
      BY <2>0, <2>2
    <3>b. y \in D /\ LeftPart(x[1])[2] < x[1][2] /\ y[1] = LeftPart(x[1])
      BY <3>a, <2>2, <1>a, Zenon
    <3>c. y[1][2] \in 0..N
      BY <3>b, <1>0, Zenon
    <3> HIDE DEF y, K, D
    <3>1. y \in D /\ y[1][2] < d
      BY <3>b, <3>c, <2>0
    <3>2. Once(f)[y] = f[y]
      BY <3>1, <1>1, Zenon
    <3> QED
      BY <2>2, <3>2, Zenon DEF y
  <2>3. CASE ~(x[1][2] <= 1) /\ ~(x[2] < K(x[1]))
    <3> DEFINE y == <<RightPart(x[1]), x[2] - K(x[1])>>
    <3>a. x[1][2] > 1
      BY <2>0, <2>3
    <3>b. y \in D /\ RightPart(x[1])[2] < x[1][2] /\ y[1] = RightPart(x[1])
      BY <3>a, <2>3, <1>a, Zenon
    <3>c. y[1][2] \in 0..N
      BY <3>b, <1>0, Zenon
    <3> HIDE DEF y, K, D
    <3>1. y \in D /\ y[1][2] < d
      BY <3>b, <3>c, <2>0
    <3>2. Once(f)[y] = f[y]
      BY <3>1, <1>1, Zenon
    <3> QED
      BY <2>3, <3>2, Zenon DEF y
  <2> QED
    BY <2>1, <2>2, <2>3, Zenon
<1>2. \A d \in Nat : d \in P
  <2>1. ASSUME NEW d \in Nat, \A k \in 0..(d - 1) : k \in P PROVE d \in P
    <3>1. CASE d = 0
      <4>1. Upto(leaves, d)
        BY <3>1, <1>0
      <4> QED
        BY <4>1, Zenon
    <3>2. CASE d # 0
      <4>1. d - 1 \in 0..(d - 1) /\ d - 1 \in Nat /\ (d - 1) + 1 = d
        BY <3>2
      <4>2. PICK f : Upto(f, d - 1)
        BY <2>1, <4>1, Zenon
      <4> HIDE DEF Upto, Once
      <4>3. Upto(Once(f), (d - 1) + 1)
        BY <1>1, <4>1, <4>2, Zenon
      <4> QED
        BY <4>1, <4>3, Zenon
    <3> QED
      BY <3>1, <3>2, Zenon
  <2> HIDE DEF P
  <2> QED
    BY <2>1, StrongInduction, Zenon
<1>3. PICK f : Upto(f, N + 1)
  <2>1. N + 1 \in Nat
    OBVIOUS
  <2> QED
    BY <1>2, <2>1, Zenon
<1> DEFINE g == Once(f)
<1>4. \A x \in D : g[x] = f[x]
  <2>1. \A x \in D : x[1][2] < N + 1
    BY <1>0
  <2> QED
    BY <2>1, <1>3, Zenon
<1>5. ASSUME NEW x \in D PROVE Body(f, x) = Body(g, x)
  <2>1. CASE x[1][2] <= 1
    BY <2>1, Zenon
  <2>2. CASE ~(x[1][2] <= 1)
    <3>1. x[1][2] > 1
      BY <2>2, <1>0
    <3>2. /\ x[2] < K(x[1]) => <<LeftPart(x[1]), x[2]>> \in D
          /\ ~(x[2] < K(x[1])) => <<RightPart(x[1]), x[2] - K(x[1])>> \in D
      BY <3>1, <1>a, Zenon
    <3> HIDE DEF g, D, K
    <3> QED
      BY <2>2, <3>2, <1>4, Zenon
  <2> QED
    BY <2>1, <2>2, Zenon
<1>6. Def(g)
  <2>1. g = [x \in D |-> Body(g, x)]
    <3> DEFINE g2 == [x \in D |-> Body(g, x)]
    <3> HIDE DEF Body, D
    <3>1. \A x \in D : Body(f, x) = g2[x]
      BY <1>5, Zenon
    <3> QED
      BY <3>1, Zenon
  <2> QED
    BY <2>1, Zenon
<1>7. Def(SlicePaths(leaves))
  <2>1. SlicePaths(leaves) = CHOOSE h : Def(h)
    BY Zenon DEF SlicePaths
  <2> HIDE DEF Def, g
  <2> QED
    BY <1>6, <2>1, Zenon
<1> DEFINE h == SlicePaths(leaves)
<1>8. \A x \in D : h[x] = Body(h, x)
  BY <1>7, Zenon
<1>9. ASSUME NEW s \in Slices(N), NEW index \in 0..N
      PROVE  <<s, index>> \in D /\ <<s, index>>[1] = s /\ <<s, index>>[2] = index
  BY Zenon
<1> QED
  BY <1>8, <1>9, ZenonT(60)

-----------------------------------------------------------------------------
\* One step down from the root of a slice, t, towards a leaf, and what is
\* beside it, o.
Descends(leaves, s, index, t, o, i) ==
  LET x == <<index, s[2] - 1>> IN
  /\ t[2] \in 1..(s[2] - 1) /\ i \in 0..(t[2] - 1) /\ t[1] + i = s[1] + index
  /\ InSubtree(x) = <<i, t[2] - 1>>
  /\ SlicePaths(leaves)[<<s, index>>] =
       Append(SlicePaths(leaves)[<<t, i>>], SliceRoots(leaves)[o])
  /\ SliceRoots(leaves)[s] = Join(x, SliceRoots(leaves)[t], SliceRoots(leaves)[o])

\* The code builds the root, the path and the numbers of the nodes of one
\* and the same tree.
LEMMA Descend ==
    ASSUME NEW leaves, Len(leaves) \in Nat, NEW s \in Slices(Len(leaves)), s[2] > 1,
           NEW index \in 0..(s[2] - 1)
    PROVE  \E t, o \in Slices(Len(leaves)), i \in Nat : Descends(leaves, s, index, t, o, i)
<1> DEFINE N == Len(leaves)
           root == SliceRoots(leaves)
           path == SlicePaths(leaves)
           m == s[2]
           k == LargestPowerOfTwoBelow(m)
           x == <<index, m - 1>>
           l == LeftPart(s)
           q == RightPart(s)
<1>1. s[1] \in 0..N /\ m \in 0..N /\ index \in 0..N
  BY DEF Slices
<1>2. /\ k \in Nat /\ k > 0 /\ k < m /\ m <= 2 * k
      /\ l = <<s[1], k>> /\ q = <<s[1] + k, m - k>>
      /\ l \in Slices(N) /\ q \in Slices(N)
  BY SliceParts, Zenon
<1>3. HighestBit[m - 1] = k
  BY Zenon DEF LargestPowerOfTwoBelow
<1>4. root[s] = InnerHash(root[l], root[q])
  <2>1. m # 0 /\ m # 1
    OBVIOUS
  <2> QED
    BY <2>1, SliceRootsStep, Zenon
<1>5. path[<<s, index>>] = IF index < k THEN Append(path[<<l, index>>], root[q])
                           ELSE Append(path[<<q, index - k>>], root[l])
  <2>1. ~(m <= 1)
    BY <1>1
  <2> QED
    BY <2>1, <1>1, SlicePathsStep, Zenon
<1>6. x[1] = index /\ x[2] = m - 1 /\ (InLeft(x) <=> index < k)
  BY <1>3, Zenon DEF InLeft
<1>7. InSubtree(x) = IF index < k THEN <<index, k - 1>> ELSE <<index - k, (m - 1) - k>>
  BY <1>3, <1>6, Zenon DEF InSubtree
<1> HIDE DEF k, l, q, root, path
<1>8. CASE index < k
  <2>1. l[2] \in 1..(m - 1) /\ index \in 0..(l[2] - 1) /\ l[1] + index = s[1] + index
    BY <1>1, <1>2, <1>8
  <2>2. InSubtree(x) = <<index, l[2] - 1>>
    BY <1>2, <1>7, <1>8, Zenon
  <2>3. path[<<s, index>>] = Append(path[<<l, index>>], root[q])
    BY <1>5, <1>8, Zenon
  <2>4. root[s] = Join(x, root[l], root[q])
    BY <1>4, <1>6, <1>8, Zenon DEF Join
  <2>5. Descends(leaves, s, index, l, q, index)
    BY <2>1, <2>2, <2>3, <2>4, Zenon DEF Descends, root, path
  <2> QED
    BY <1>1, <1>2, <2>5
<1>9. CASE ~(index < k)
  <2>1. /\ q[2] \in 1..(m - 1) /\ index - k \in 0..(q[2] - 1) /\ q[1] + (index - k) = s[1] + index
        /\ index - k \in Nat /\ (m - 1) - k = q[2] - 1
    <3> DEFINE a == s[1]
               b == q[1]
               c == q[2]
    <3>1. /\ b = a + k /\ c = m - k /\ a \in Nat /\ m \in Nat /\ index \in 0..(m - 1)
          /\ k \in Nat /\ k > 0 /\ k < m
      BY <1>1, <1>2
    <3> HIDE DEF a, b, c, m
    <3>2. c \in 1..(m - 1) /\ index - k \in 0..(c - 1) /\ (m - 1) - k = c - 1
      BY <3>1, <1>9
    <3>3. b + (index - k) = a + index /\ index - k \in Nat
      BY <3>1, <1>9
    <3> QED
      BY <3>2, <3>3, Zenon DEF a, b, c
  <2>2. InSubtree(x) = <<index - k, q[2] - 1>>
    BY <1>7, <1>9, <2>1, Zenon
  <2>3. path[<<s, index>>] = Append(path[<<q, index - k>>], root[l])
    BY <1>5, <1>9, Zenon
  <2>4. root[s] = Join(x, root[q], root[l])
    BY <1>4, <1>6, <1>9, Zenon DEF Join
  <2>5. Descends(leaves, s, index, q, l, index - k)
    BY <2>1, <2>2, <2>3, <2>4, Zenon DEF Descends, root, path
  <2> QED
    BY <1>2, <2>1, <2>5, Zenon
<1> QED
  BY <1>8, <1>9, Zenon

\* The hashes of the slices.
Hashes(leaves) == {SliceRoots(leaves)[s] : s \in Slices(Len(leaves))}

\* The path of a leaf leads the loop to the root of the slice.
PathLeads(leaves, s, index) ==
  LET q == SlicePaths(leaves)[<<s, index>>]
      x == <<index, s[2] - 1>>
      n == LevelsWithSibling[x]
  IN  /\ q \in Seq(Hashes(leaves)) /\ Len(q) = n
      /\ \A f : Climbs(f, n, x, leaves[s[1] + index + 1], q)
                  => f[n].r = SliceRoots(leaves)[s] /\ f[n].node[2] = 0

\* A slice of one leaf is its own root.
LEMMA OneLeaf ==
    ASSUME NEW leaves, Len(leaves) \in Nat, NEW s \in Slices(Len(leaves)), s[2] = 1
    PROVE  /\ SliceRoots(leaves)[s] = leaves[s[1] + 1]
           /\ SlicePaths(leaves)[<<s, 0>>] = << >>
           /\ s[1] \in Nat /\ s[1] + 1 \in 1..Len(leaves)
           /\ LevelsWithSibling[<<0, 0>>] = 0
<1>1. s[1] \in Nat /\ s[1] + 1 \in 1..Len(leaves) /\ s[2] <= 1 /\ s[2] # 0 /\ 0 \in 0..Len(leaves)
  BY DEF Slices
<1>2. SliceRoots(leaves)[s] = leaves[s[1] + 1]
  BY <1>1, SliceRootsStep, Zenon
<1>3. SlicePaths(leaves)[<<s, 0>>] = << >>
  BY <1>1, SlicePathsStep, Zenon
<1>4. LevelsWithSibling[<<0, 0>>] = 0
  BY LevelsStep, Zenon DEF Nodes
<1> QED
  BY <1>1, <1>2, <1>3, <1>4, Zenon

\* Every path that the code builds leads to the root.
LEMMA EveryPathLeads ==
    ASSUME NEW leaves, Len(leaves) \in Nat, NEW slice \in Slices(Len(leaves)), slice[2] > 0,
           NEW at \in 0..(slice[2] - 1)
    PROVE  PathLeads(leaves, slice, at)
<1> DEFINE N == Len(leaves)
           P == {m \in Nat : \A s \in Slices(N) : s[2] = m /\ m > 0 =>
                               \A index \in 0..(m - 1) : PathLeads(leaves, s, index)}
<1>1. ASSUME NEW m \in Nat, \A j \in 0..(m - 1) : j \in P PROVE m \in P
  <2> SUFFICES ASSUME NEW s \in Slices(N), s[2] = m, m > 0, NEW index \in 0..(m - 1)
               PROVE  PathLeads(leaves, s, index)
    BY Zenon
  <2>1. CASE m = 1
    <3> DEFINE a == s[1]
               root == SliceRoots(leaves)[s]
               path == SlicePaths(leaves)[<<s, 0>>]
    <3>0. /\ root = leaves[a + 1] /\ path = << >> /\ a \in Nat
          /\ LevelsWithSibling[<<0, 0>>] = 0
      BY <2>1, OneLeaf, Zenon
    <3> HIDE DEF a, root, path
    <3>1. index = 0 /\ m - 1 = 0 /\ a + index + 1 = a + 1
      BY <2>1, <3>0
    <3>2. << >> \in Seq(Hashes(leaves)) /\ Len(<< >>) = 0
      OBVIOUS
    <3>3. ASSUME NEW f, Climbs(f, 0, <<0, 0>>, leaves[a + 1], << >>)
          PROVE  f[0].r = root /\ f[0].node[2] = 0
      BY <3>3, <3>0 DEF Climbs
    <3> QED
      BY <3>0, <3>1, <3>2, <3>3, Zenon DEF PathLeads, a, root, path
  <2>2. CASE m > 1
    <3>0. s[2] > 1 /\ index \in 0..(s[2] - 1)
      BY <2>2, Zenon
    <3>1. PICK t \in Slices(N), o \in Slices(N), i \in Nat : Descends(leaves, s, index, t, o, i)
      BY <3>0, Descend, Zenon
    <3> DEFINE root == SliceRoots(leaves)
               x == <<index, m - 1>>
               y == <<i, t[2] - 1>>
               q == SlicePaths(leaves)[<<s, index>>]
               p == SlicePaths(leaves)[<<t, i>>]
               n == LevelsWithSibling[y]
    <3>2. /\ t[2] \in 1..(m - 1) /\ i \in 0..(t[2] - 1) /\ t[1] + i = s[1] + index
          /\ InSubtree(x) = y /\ q = Append(p, root[o]) /\ root[s] = Join(x, root[t], root[o])
      BY <3>1, Zenon DEF Descends
    <3>3. PathLeads(leaves, t, i)
      <4>1. t[2] \in 0..(m - 1) /\ t[2] > 0
        BY <3>2
      <4> QED
        BY <4>1, <3>2, <1>1, Zenon
    <3>4. /\ p \in Seq(Hashes(leaves)) /\ Len(p) = n
          /\ \A g : Climbs(g, n, y, leaves[t[1] + i + 1], p)
                      => g[n].r = root[t] /\ g[n].node[2] = 0
      BY <3>3, Zenon DEF PathLeads
    <3>5. root[o] \in Hashes(leaves)
      BY Zenon DEF Hashes
    <3>6. x \in Nodes /\ x[2] > 0 /\ x[1] <= x[2] /\ y \in Nodes /\ n \in Nat
      <4>1. x \in Nodes /\ x[2] > 0 /\ x[1] <= x[2] /\ y \in Nodes
        BY <2>2, <3>2, SMTT(30) DEF Nodes
      <4> QED
        BY <4>1, LevelsStep, Zenon
    <3>7. Splits(x)
      BY <3>6, Split, Zenon
    <3> HIDE DEF root, x, y, p, q, n
    <3>8. /\ q \in Seq(Hashes(leaves)) /\ Len(q) = n + 1 /\ q[n + 1] = root[o]
          /\ \A j \in 1..n : q[j] = p[j]
      <4> DEFINE U == Hashes(leaves)
                 e == root[o]
      <4>1. p \in Seq(U) /\ Len(p) = n /\ e \in U /\ q = Append(p, e) /\ n \in Nat
        BY <3>2, <3>4, <3>5, <3>6, Zenon
      <4> HIDE DEF U, e
      <4>2. q \in Seq(U) /\ Len(q) = n + 1 /\ q[n + 1] = e /\ \A j \in 1..n : q[j] = p[j]
        BY <4>1
      <4> QED
        BY <4>2, Zenon DEF U, e
    <3>9. LevelsWithSibling[x] = n + 1 /\ InSubtree(x) = y /\ LevelsWithSibling[y] = n
      BY <3>2, <3>7, Zenon DEF Splits, n
    <3>10. ASSUME NEW f, Climbs(f, n + 1, x, leaves[s[1] + index + 1], q)
           PROVE  f[n + 1].r = root[s] /\ f[n + 1].node[2] = 0
      <4> DEFINE leaf == leaves[s[1] + index + 1]
      <4>1. PICK g : Climbs(g, n, y, leaf, q)
        BY <3>6, LoopRuns, Zenon
      <4>2. Climbs(g, n, y, leaf, p)
        BY <3>8, <4>1, Zenon DEF Climbs
      <4>3. g[n].r = root[t]
        BY <3>2, <3>4, <4>2, Zenon
      <4> HIDE DEF leaf
      <4>4. f[n + 1].node[2] = 0 /\ f[n + 1].r = Join(x, g[n].r, q[n + 1])
        BY <3>7, <3>9, <3>10, <4>1, Zenon DEF Splits, leaf
      <4> QED
        BY <4>3, <4>4, <3>2, <3>8, Zenon
    <3> QED
      BY <3>8, <3>9, <3>10, ZenonT(30) DEF PathLeads, x, q, root
  <2> QED
    BY <2>1, <2>2
<1>2. \A m \in Nat : m \in P
  <2> HIDE DEF P
  <2> QED
    BY <1>1, StrongInduction, Zenon
<1>3. slice[2] \in Nat
  BY DEF Slices
<1> QED
  BY <1>2, <1>3, Zenon

\* Under the right size, only the leaf at the index leads to the root.
OnlyLeafLeads(leaves, s, index) ==
  LET x == <<index, s[2] - 1>>
      n == LevelsWithSibling[x]
  IN  \A f, q, leaf : Climbs(f, n, x, leaf, q) /\ f[n].r = SliceRoots(leaves)[s]
                        => leaf = leaves[s[1] + index + 1]

\* Hashes that join to the same hash are the same.
LEMMA JoinInjective ==
    ASSUME NEW x, NEW a, NEW b, NEW c, NEW d, Join(x, a, b) = Join(x, c, d)
    PROVE  a = c
BY Zenon DEF Join, InnerHash

\* It is so in every slice.
LEMMA LeafLeads ==
    ASSUME NEW leaves, Len(leaves) \in Nat, NEW slice \in Slices(Len(leaves)), slice[2] > 0,
           NEW at \in 0..(slice[2] - 1)
    PROVE  OnlyLeafLeads(leaves, slice, at)
<1> DEFINE N == Len(leaves)
           P == {m \in Nat : \A s \in Slices(N) : s[2] = m /\ m > 0 =>
                               \A index \in 0..(m - 1) : OnlyLeafLeads(leaves, s, index)}
<1>1. ASSUME NEW m \in Nat, \A j \in 0..(m - 1) : j \in P PROVE m \in P
  <2> SUFFICES ASSUME NEW s \in Slices(N), s[2] = m, m > 0, NEW index \in 0..(m - 1)
               PROVE  OnlyLeafLeads(leaves, s, index)
    BY Zenon
  <2>1. CASE m = 1
    <3> DEFINE a == s[1]
               root == SliceRoots(leaves)[s]
    <3>0. root = leaves[a + 1] /\ a \in Nat /\ LevelsWithSibling[<<0, 0>>] = 0
      BY <2>1, OneLeaf, Zenon
    <3> HIDE DEF a, root
    <3>1. index = 0 /\ m - 1 = 0 /\ a + index + 1 = a + 1
      BY <2>1, <3>0
    <3>3. ASSUME NEW f, NEW q, NEW leaf, Climbs(f, 0, <<0, 0>>, leaf, q), f[0].r = root
          PROVE  leaf = leaves[a + 1]
      BY <3>3, <3>0 DEF Climbs
    <3> QED
      BY <3>0, <3>1, <3>3, Zenon DEF OnlyLeafLeads, a, root
  <2>2. CASE m > 1
    <3>0. s[2] > 1 /\ index \in 0..(s[2] - 1)
      BY <2>2, Zenon
    <3>1. PICK t \in Slices(N), o \in Slices(N), i \in Nat : Descends(leaves, s, index, t, o, i)
      BY <3>0, Descend, Zenon
    <3> DEFINE root == SliceRoots(leaves)
               x == <<index, m - 1>>
               y == <<i, t[2] - 1>>
               n == LevelsWithSibling[y]
    <3>2. /\ t[2] \in 1..(m - 1) /\ i \in 0..(t[2] - 1) /\ t[1] + i = s[1] + index
          /\ InSubtree(x) = y /\ root[s] = Join(x, root[t], root[o])
      BY <3>1, Zenon DEF Descends
    <3>3. OnlyLeafLeads(leaves, t, i)
      <4>1. t[2] \in 0..(m - 1) /\ t[2] > 0
        BY <3>2
      <4> QED
        BY <4>1, <3>2, <1>1, Zenon
    <3>4. \A g, q, leaf : Climbs(g, n, y, leaf, q) /\ g[n].r = root[t]
                             => leaf = leaves[t[1] + i + 1]
      BY <3>3, Zenon DEF OnlyLeafLeads
    <3>6. x \in Nodes /\ x[2] > 0 /\ x[1] <= x[2] /\ y \in Nodes /\ n \in Nat
      <4>1. x \in Nodes /\ x[2] > 0 /\ x[1] <= x[2] /\ y \in Nodes
        BY <2>2, <3>2, SMTT(30) DEF Nodes
      <4> QED
        BY <4>1, LevelsStep, Zenon
    <3>7. Splits(x)
      BY <3>6, Split, Zenon
    <3> HIDE DEF root, x, y, n
    <3>9. LevelsWithSibling[x] = n + 1 /\ InSubtree(x) = y /\ LevelsWithSibling[y] = n
      BY <3>2, <3>7, Zenon DEF Splits, n
    <3>10. ASSUME NEW f, NEW q, NEW leaf, Climbs(f, n + 1, x, leaf, q), f[n + 1].r = root[s]
           PROVE  leaf = leaves[s[1] + index + 1]
      <4>1. PICK g : Climbs(g, n, y, leaf, q)
        BY <3>6, LoopRuns, Zenon
      <4>4. f[n + 1].r = Join(x, g[n].r, q[n + 1])
        BY <3>7, <3>9, <3>10, <4>1 DEF Splits
      <4>5. g[n].r = root[t]
        <5>1. Join(x, g[n].r, q[n + 1]) = Join(x, root[t], root[o])
          BY <4>4, <3>10, <3>2, Zenon
        <5> QED
          BY <5>1, JoinInjective, Zenon
      <4> QED
        BY <4>1, <4>5, <3>2, <3>4, Zenon
    <3> QED
      BY <3>9, <3>10, Zenon DEF OnlyLeafLeads, x, root
  <2> QED
    BY <2>1, <2>2
<1>2. \A m \in Nat : m \in P
  <2> HIDE DEF P
  <2> QED
    BY <1>1, StrongInduction, Zenon
<1>3. slice[2] \in Nat
  BY DEF Slices
<1> QED
  BY <1>2, <1>3, Zenon

\* The hashes of the nodes of the tree, and of other slices.
TreeHashes(leaves) ==
  {SliceRoots(leaves)[s] : s \in {t \in Slices(Len(leaves)) : t[2] > 0}}

\* A leaf hash is the hash of one leaf only, and an inner hash is made of
\* the hashes of two slices.
LEMMA TreeHash ==
    ASSUME NEW entries, Len(entries) \in Nat, NEW hash \in TreeHashes(Leaves(entries))
    PROVE  /\ \A data : hash = LeafHash(data) => \E j \in 1..Len(entries) : data = entries[j]
           /\ \A a, b : hash = InnerHash(a, b) => /\ a \in TreeHashes(Leaves(entries))
                                                  /\ b \in TreeHashes(Leaves(entries))
<1> DEFINE leaves == Leaves(entries)
           root == SliceRoots(leaves)
           N == Len(entries)
<1>1. Len(leaves) = N
  BY DEF Leaves
<1>2. PICK s \in Slices(N) : s[2] > 0 /\ hash = root[s]
  BY <1>1, Zenon DEF TreeHashes
<1>3. \A data, a, b : LeafHash(data) # InnerHash(a, b)
  BY Zenon DEF LeafHash, InnerHash
<1>4. s[1] \in Nat /\ s[2] \in Nat /\ s[1] + 1 \in 1..N
  BY <1>2 DEF Slices
<1>5. CASE s[2] = 1
  <2>1. hash = leaves[s[1] + 1]
    BY <1>1, <1>2, <1>5, OneLeaf, Zenon
  <2>2. hash = LeafHash(entries[s[1] + 1])
    BY <2>1, <1>4, Zenon DEF Leaves
  <2> QED
    BY <2>2, <1>3, <1>4, Zenon DEF LeafHash
<1>6. CASE s[2] # 1
  <2> DEFINE l == LeftPart(s)
             q == RightPart(s)
  <2>1. s[2] > 1 /\ s[2] # 0
    BY <1>2, <1>4, <1>6
  <2>2. hash = InnerHash(root[l], root[q])
    BY <1>1, <1>2, <1>6, <2>1, SliceRootsStep, Zenon
  <2>3. l \in Slices(N) /\ l[2] > 0 /\ q \in Slices(N) /\ q[2] > 0
    BY <1>4, <2>1, SliceParts
  <2> HIDE DEF l, q, root
  <2>4. root[l] \in TreeHashes(leaves) /\ root[q] \in TreeHashes(leaves)
    BY <1>1, <2>3, Zenon DEF TreeHashes, root
  <2>5. \A a, b : hash = InnerHash(a, b) => a = root[l] /\ b = root[q]
    BY <2>2, Zenon DEF InnerHash
  <2> QED
    BY <1>3, <2>2, <2>4, <2>5, Zenon
<1> QED
  BY <1>5, <1>6, Zenon

\* What leads the loop to a hash of the tree is one, wherever it starts.
LEMMA AcceptedIsEntry ==
    ASSUME NEW entries, Len(entries) \in Nat, NEW n \in Nat, NEW f, NEW x, NEW data, NEW q,
           Climbs(f, n, x, LeafHash(data), q), f[n].r \in TreeHashes(Leaves(entries))
    PROVE  \E j \in 1..Len(entries) : data = entries[j]
<1> DEFINE T == TreeHashes(Leaves(entries))
           P == {i \in Nat : i <= n => f[n - i].r \in T}
<1>1. ASSUME NEW i \in Nat, \A j \in 0..(i - 1) : j \in P PROVE i \in P
  <2> SUFFICES ASSUME i <= n PROVE f[n - i].r \in T
    BY Zenon
  <2>1. CASE i = 0
    <3>1. n - i = n
      BY <2>1
    <3> QED
      BY <3>1, Zenon
  <2>2. CASE i # 0
    <3> DEFINE k == n - i
               h == k + 1
    <3>1. h \in 1..n /\ h - 1 = k /\ i - 1 \in 0..(i - 1) /\ i - 1 <= n /\ n - (i - 1) = h
      BY <2>2
    <3>2. f[h].r \in T
      BY <3>1, <1>1, Zenon
    <3> HIDE DEF k, h, T
    <3>3. f[h] = ClimbStep(f[k], q[h])
      BY <3>1, Zenon DEF Climbs
    <3>4. f[h].r = InnerHash(q[h], f[k].r) \/ f[h].r = InnerHash(f[k].r, q[h])
      BY <3>3 DEF ClimbStep
    <3>5. f[k].r \in T
      BY <3>2, <3>4, TreeHash DEF T
    <3> QED
      BY <3>5, Zenon DEF k
  <2> QED
    BY <2>1, <2>2, Zenon
<1>2. \A i \in Nat : i \in P
  <2> HIDE DEF P
  <2> QED
    BY <1>1, StrongInduction, Zenon
<1>3. f[0].r \in T
  <2>1. n - n = 0 /\ n <= n
    OBVIOUS
  <2> HIDE DEF T
  <2> QED
    BY <1>2, <2>1, Zenon
<1>4. f[0].r = LeafHash(data)
  BY DEF Climbs
<1> QED
  BY <1>3, <1>4, TreeHash

\* The whole of the leaves is a slice.
LEMMA WholeSlice ==
    ASSUME NEW n \in Nat
    PROVE  <<0, n>> \in Slices(n) /\ <<0, n>>[1] = 0 /\ <<0, n>>[2] = n
BY DEF Slices

\* For a log of any length, the path that build_audit_path makes for an
\* entry is accepted by verify_inclusion with the entry's index.
THEOREM InclusionComplete ==
    ASSUME NEW Entry, NEW entries \in Seq(Entry), NEW index \in 0..(Len(entries) - 1)
    PROVE  VerifyInclusion(LeafHash(entries[index + 1]), index, Len(entries),
                           BuildAuditPath(Leaves(entries), index), MerkleRoot(Leaves(entries)))
<1> DEFINE N == Len(entries)
           leaves == Leaves(entries)
           s == <<0, N>>
           x == <<index, N - 1>>
           path == BuildAuditPath(leaves, index)
           leaf == LeafHash(entries[index + 1])
           f == Climb(LeafNode(leaf, index, N), path)
<1>1. Len(leaves) = N /\ N \in Nat /\ N > 0 /\ index < N /\ index + 1 \in 1..N
  BY DEF Leaves
<1>2. leaves[index + 1] = leaf /\ 0 + index + 1 = index + 1
  BY <1>1 DEF Leaves
<1>3. PathLeads(leaves, s, index)
  <2>1. s \in Slices(Len(leaves)) /\ s[2] = N /\ N > 0
    BY <1>1, WholeSlice, Zenon
  <2> HIDE DEF s, leaves
  <2> QED
    BY <1>1, <2>1, EveryPathLeads, Zenon
<1>4. s[2] = N /\ s[1] = 0 /\ path = SlicePaths(leaves)[<<s, index>>] /\ MerkleRoot(leaves) = SliceRoots(leaves)[s]
  BY <1>1, WholeSlice, Zenon DEF BuildAuditPath, MerkleRoot
<1>5. /\ Len(path) = LevelsWithSibling[x]
      /\ \A g : Climbs(g, Len(path), x, leaf, path)
                  => g[Len(path)].r = MerkleRoot(leaves) /\ g[Len(path)].node[2] = 0
  <2> HIDE DEF s, leaves, path, leaf
  <2> QED
    BY <1>2, <1>3, <1>4, Zenon DEF PathLeads
<1>6. Len(path) \in Nat
  <2>1. x \in Nodes
    BY <1>1 DEF Nodes
  <2> QED
    BY <1>5, <2>1, LevelsStep, Zenon
<1>7. Climbs(f, Len(path), x, leaf, path)
  <2> HIDE DEF path, leaf
  <2> QED
    BY <1>6, ClimbIsLoop, Zenon DEF LeafNode
<1>8. f[Len(path)].r = MerkleRoot(leaves) /\ f[Len(path)].node[2] = 0
  <2> HIDE DEF path, leaf, leaves, f
  <2> QED
    BY <1>5, <1>7, Zenon
<1> QED
  BY <1>1, <1>5, <1>8 DEF VerifyInclusion, AuditPathLength

\* verify_inclusion accepts nothing but entries of the log, whatever path
\* and tree size come with them, and under the size of the log only the
\* entry at the index.
THEOREM InclusionSound ==
    ASSUME NEW Entry, NEW entries \in Seq(Entry), NEW size \in Nat, NEW index \in Nat,
           NEW Hash, NEW path \in Seq(Hash), NEW data,
           VerifyInclusion(LeafHash(data), index, size, path, MerkleRoot(Leaves(entries)))
    PROVE  /\ \E j \in 1..Len(entries) : data = entries[j]
           /\ size = Len(entries) => data = entries[index + 1]
<1> DEFINE N == Len(entries)
           leaves == Leaves(entries)
           root == SliceRoots(leaves)
           s == <<0, N>>
           n == Len(path)
           x == <<index, size - 1>>
           leaf == LeafHash(data)
           f == Climb(LeafNode(leaf, index, size), path)
<1>1. Len(leaves) = N /\ N \in Nat
  BY DEF Leaves
<1>2. /\ size # 0 /\ index < size /\ n = LevelsWithSibling[x]
      /\ f[n].r = root[s]
  BY <1>1, Zenon DEF VerifyInclusion, AuditPathLength, MerkleRoot
<1>0. n \in Nat
  OBVIOUS
<1>3. Climbs(f, n, x, leaf, path)
  <2> HIDE DEF leaf
  <2> QED
    BY <1>0, ClimbIsLoop, Zenon DEF LeafNode
<1>4. s \in Slices(N) /\ s[1] = 0 /\ s[2] = N
  BY <1>1, WholeSlice, Zenon
<1>5. N > 0
  <2> SUFFICES ASSUME N = 0 PROVE FALSE
    BY <1>1
  <2>1. root[s] = << >>
    BY <1>1, <1>4, SliceRootsStep, Zenon DEF EmptyRoot
  <2>2. n = 0 => f[n].r = <<data>>
    BY <1>3 DEF Climbs, LeafHash
  <2>3. n # 0 => f[n] = ClimbStep(f[n - 1], path[n])
    BY <1>3 DEF Climbs
  <2>4. n # 0 => \E a, b : f[n].r = <<a, b>>
    BY <2>3 DEF ClimbStep, InnerHash
  <2> HIDE DEF f, root, s, n
  <2> QED
    BY <1>2, <2>1, <2>2, <2>4, SMT
<1>6. root[s] \in TreeHashes(leaves)
  BY <1>1, <1>4, <1>5, Zenon DEF TreeHashes
<1>7. \E j \in 1..N : data = entries[j]
  <2> HIDE DEF f, root, s, x
  <2> QED
    BY <1>0, <1>1, <1>2, <1>3, <1>6, AcceptedIsEntry
<1>8. ASSUME size = N PROVE data = entries[index + 1]
  <2>1. index \in 0..(N - 1) /\ index + 1 \in 1..N /\ 0 + index + 1 = index + 1
    BY <1>1, <1>2, <1>8
  <2>2. OnlyLeafLeads(leaves, s, index)
    <3> HIDE DEF leaves, s
    <3> QED
      BY <1>1, <1>4, <1>5, <2>1, LeafLeads, Zenon
  <2>3. leaf = leaves[index + 1]
    <3>1. x = <<index, s[2] - 1>> /\ s[1] + index + 1 = index + 1
      BY <1>4, <1>8, <2>1, Zenon
    <3> HIDE DEF f, root, s, x, n, leaves, leaf
    <3> QED
      BY <1>2, <1>3, <2>2, <3>1, Zenon DEF OnlyLeafLeads, root
  <2> QED
    BY <2>1, <2>3, Zenon DEF Leaves, LeafHash
<1> QED
  BY <1>7, <1>8, Zenon

\* The numbered entries of a tree.
LEMMA NumberedEntries ==
    ASSUME NEW n \in Nat
    PROVE  /\ Numbered(n) \in Seq(Nat) /\ Len(Numbered(n)) = n
           /\ \A i \in 0..(n - 1) : Numbered(n)[i + 1] = i
<1>1. Numbered(n) \in [1..n -> Nat]
  BY DEF Numbered
<1>2. ASSUME NEW i \in 0..(n - 1) PROVE Numbered(n)[i + 1] = i
  BY DEF Numbered
<1>3. DOMAIN Numbered(n) = 1..n
  BY Zenon DEF Numbered
<1>4. Numbered(n) \in Seq(Nat)
  <2> HIDE DEF Numbered
  <2> QED
    BY <1>1
<1> QED
  BY <1>2, <1>3, <1>4

\* Complete holds at every size of the tree.
LEMMA CompleteHolds ==
    ASSUME NEW n \in Nat
    PROVE  Complete(n)
<1> DEFINE entries == Numbered(n)
           leaves == Leaves(entries)
           root == MerkleRoot(leaves)
<1>1. /\ entries \in Seq(Nat) /\ Len(entries) = n
      /\ \A i \in 0..(n - 1) : entries[i + 1] = i
  BY NumberedEntries, Zenon
<1>2. ASSUME NEW i \in 0..(n - 1), NEW j \in 0..(n - 1)
      PROVE  VerifyInclusion(LeafHash(i), j, n, BuildAuditPath(leaves, i), root) <=> i = j
  <2> DEFINE path == BuildAuditPath(leaves, i)
  <2>1. VerifyInclusion(LeafHash(i), i, n, path, root)
    <3> HIDE DEF entries
    <3> QED
      BY <1>1, InclusionComplete, Zenon
  <2>2. ASSUME VerifyInclusion(LeafHash(i), j, n, path, root) PROVE i = j
    <3>1. path \in Seq(Hashes(leaves))
      <4>1. Len(leaves) = n /\ n > 0
        BY <1>1 DEF Leaves
      <4>2. <<0, n>> \in Slices(n) /\ <<0, n>>[2] = n
        BY WholeSlice, Zenon
      <4>3. PathLeads(leaves, <<0, n>>, i)
        <5> DEFINE s == <<0, n>>
        <5> HIDE DEF s, leaves
        <5> QED
          BY <4>1, <4>2, EveryPathLeads, Zenon DEF s
      <4> HIDE DEF leaves
      <4> QED
        BY <4>1, <4>3, Zenon DEF PathLeads, BuildAuditPath
    <3>2. n = Len(entries) => i = entries[j + 1]
      <4> HIDE DEF entries, path
      <4> QED
        BY <1>1, <2>2, <3>1, InclusionSound
    <3> HIDE DEF entries
    <3> QED
      BY <1>1, <3>2, Zenon
  <2> QED
    BY <2>1, <2>2, Zenon
<1> QED
  BY <1>2, Zenon DEF Complete

\* Sound holds at every size of the tree.
LEMMA SoundHolds ==
    ASSUME NEW n \in Nat
    PROVE  Sound(n)
<1> DEFINE entries == Numbered(n)
           leaves == Leaves(entries)
           root == MerkleRoot(leaves)
<1>1. /\ entries \in Seq(Nat) /\ Len(entries) = n
      /\ \A i \in 0..(n - 1) : entries[i + 1] = i
  BY NumberedEntries, Zenon
<1>2. ASSUME NEW size \in 1..(n + 1), NEW data \in 0..n, NEW index \in 0..(size - 1),
             NEW path \in Paths(leaves),
             VerifyInclusion(LeafHash(data), index, size, path, root)
      PROVE  data < n /\ (size = n => data = index)
  <2>1. PICK Hash : path \in Seq(Hash)
    <3> HIDE DEF leaves
    <3>1. PICK Hash, m : m \in 0..3 /\ path \in [1..m -> Hash]
      BY Zenon DEF Paths
    <3>2. m \in Nat
      BY <3>1
    <3>3. path \in Seq(Hash)
      BY <3>1, <3>2
    <3> QED
      BY <3>3, Zenon
  <2>2. /\ \E j \in 1..Len(entries) : data = entries[j]
        /\ size = Len(entries) => data = entries[index + 1]
    <3> HIDE DEF entries
    <3> QED
      BY <1>1, <1>2, <2>1, InclusionSound
  <2>3. data < n
    <3> HIDE DEF entries
    <3>1. PICK j \in 1..n : data = entries[j]
      BY <1>1, <2>2, Zenon
    <3>2. j - 1 \in 0..(n - 1) /\ (j - 1) + 1 = j
      OBVIOUS
    <3>3. data = j - 1
      BY <1>1, <3>1, <3>2, Zenon
    <3> QED
      BY <3>2, <3>3
  <2>4. size = n => data = index
    <3> HIDE DEF entries
    <3> QED
      BY <1>1, <2>2, Zenon
  <2> QED
    BY <2>3, <2>4, Zenon
<1> QED
  BY <1>2, Zenon DEF Sound

\* Whatever the bounds, at every size that the log goes through the paths
\* of build_audit_path and what verify_inclusion accepts are exact.
THEOREM InclusionExactHolds == TreeSpec => []InclusionExact
<1>1. InclusionExact
  <2>1. \A n \in 1..MaxTree : Complete(n)
    BY CompleteHolds
  <2>2. \A n \in 1..MaxForged : Sound(n)
    BY SoundHolds
  <2> QED
    BY <2>1, <2>2, Zenon DEF InclusionExact, CompleteAt, SoundAt
<1> QED
  BY <1>1, PTL
=============================================================================
