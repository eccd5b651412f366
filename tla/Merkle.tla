------------------------------- MODULE Merkle -------------------------------
(***************************************************************************)
(* The Merkle tree of the key-transparency log and its inclusion proofs    *)
(* (crates/umbrella-kt/src/merkle.rs).                                     *)
(*                                                                         *)
(* A hash is the term it was computed from, which is what collision        *)
(* resistance grants: a leaf hash is <<data>>, an inner hash is the pair   *)
(* of its children, and the 0x00 / 0x01 prefixes are the different lengths *)
(* of the two tuples.  Leaf numbers count from 0, as in the code.  A slice *)
(* of the leaves is the pair of its start and its length.                  *)
(***************************************************************************)
EXTENDS Integers, Sequences

CONSTANTS
  MaxTree,    \* bound on the size of the tree
  MaxForged   \* bound on the tree sizes for which every path is tried

ASSUME TreeAssumption == MaxTree \in Nat /\ MaxForged \in Nat

VARIABLE log_size    \* the entries the log has published

\* The log starts empty and its operator appends entries.
EmptyTree == log_size = 0

PublishEntry == log_size < MaxTree /\ log_size' = log_size + 1

TreeSpec == EmptyTree /\ [][PublishEntry]_log_size

EmptyRoot == << >>

LeafHash(data) == <<data>>

InnerHash(left, right) == <<left, right>>

\* 1 << the number of the highest bit of x
HighestBit[x \in Nat] == IF x <= 1 THEN 1 ELSE 2 * HighestBit[x \div 2]

LargestPowerOfTwoBelow(n) == HighestBit[n - 1]

Slices(n) == {s \in (0..n) \X (0..n) : s[1] + s[2] <= n}

LeftPart(s) == <<s[1], LargestPowerOfTwoBelow(s[2])>>

RightPart(s) ==
  LET k == LargestPowerOfTwoBelow(s[2]) IN <<s[1] + k, s[2] - k>>

\* merkle_root of every slice of the leaves
SliceRoots(leaves) ==
  LET merkle_root[s \in Slices(Len(leaves))] ==
        IF s[2] = 0 THEN EmptyRoot
        ELSE IF s[2] = 1 THEN leaves[s[1] + 1]
        ELSE InnerHash(merkle_root[LeftPart(s)], merkle_root[RightPart(s)])
  IN  merkle_root

MerkleRoot(leaves) == SliceRoots(leaves)[<<0, Len(leaves)>>]

\* build_path_recursive for every slice and every index into it
SlicePaths(leaves) ==
  LET root == SliceRoots(leaves)
      path[x \in Slices(Len(leaves)) \X (0..Len(leaves))] ==
        LET s     == x[1]
            index == x[2]
            k     == LargestPowerOfTwoBelow(s[2])
        IN  IF s[2] <= 1 THEN << >>
            ELSE IF index < k
            THEN Append(path[<<LeftPart(s), index>>], root[RightPart(s)])
            ELSE Append(path[<<RightPart(s), index - k>>], root[LeftPart(s)])
  IN  path

BuildAuditPath(leaves, index) == SlicePaths(leaves)[<<<<0, Len(leaves)>>, index>>]

-----------------------------------------------------------------------------
IsOdd(n) == n % 2 = 1

\* A node is the pair of its number on its level and the number of the last
\* node there, fn_ and sn in the code; both are halved on the way up.
Nodes == Nat \X Nat

Parent(node) == <<node[1] \div 2, node[2] \div 2>>

\* The loop of audit_path_length: the levels at which the node has a sibling.
LevelsWithSibling[node \in Nodes] ==
  IF node[2] = 0 THEN 0
  ELSE (IF IsOdd(node[1]) \/ node[1] # node[2] THEN 1 ELSE 0)
         + LevelsWithSibling[Parent(node)]

AuditPathLength(index, tree_size) == LevelsWithSibling[<<index, tree_size - 1>>]

\* The inner loop of verify_inclusion: up from a last node on its level.
SkipLevels[node \in Nodes] ==
  IF ~IsOdd(node[1]) /\ node[1] # 0 THEN SkipLevels[Parent(node)] ELSE node

\* The body of the loop of verify_inclusion over the siblings.
ClimbStep(at, p) ==
  LET odd  == IsOdd(at.node[1])
      last == odd \/ at.node[1] = at.node[2]
      top  == IF last /\ ~odd THEN SkipLevels[at.node] ELSE at.node
  IN  [node |-> Parent(top),
       r    |-> IF last THEN InnerHash(p, at.r) ELSE InnerHash(at.r, p)]

\* Where the loop is after each of the siblings.
Climb(start, siblings) ==
  LET climb[i \in 0..Len(siblings)] ==
        IF i = 0 THEN start ELSE ClimbStep(climb[i - 1], siblings[i])
  IN  climb

LeafNode(leaf, index, tree_size) ==
  [node |-> <<index, tree_size - 1>>, r |-> leaf]

\* Mutant: neither the length of the path nor what is left is looked at.
VerifyInclusion_AnyLength(leaf, index, tree_size, path, expected_root) ==
  /\ index < tree_size
  /\ Climb(LeafNode(leaf, index, tree_size), path)[Len(path)].r = expected_root

VerifyInclusion(leaf, index, tree_size, path, expected_root) ==
  /\ tree_size # 0 /\ index < tree_size
  /\ Len(path) = AuditPathLength(index, tree_size)
  /\ LET end == Climb(LeafNode(leaf, index, tree_size), path)[Len(path)]
     IN  end.node[2] = 0 /\ end.r = expected_root

-----------------------------------------------------------------------------
\* The leaves of a tree with the given entries.
Leaves(entries) == [i \in 1..Len(entries) |-> LeafHash(entries[i])]

\* n different entries
Numbered(n) == [i \in 1..n |-> i - 1]

Complete(n) ==
  LET leaves == Leaves(Numbered(n))
      root   == MerkleRoot(leaves)
  IN  \A i, j \in 0..(n - 1) :
        VerifyInclusion(LeafHash(i), j, n, BuildAuditPath(leaves, i), root)
          <=> i = j

\* The paths of up to three hashes of slices of the leaves.
Paths(leaves) ==
  LET roots  == SliceRoots(leaves)
      hashes == {roots[s] : s \in {x \in Slices(Len(leaves)) : x[2] > 0}}
  IN  UNION {[1..m -> hashes] : m \in 0..3}

Sound(n) ==
  LET leaves == Leaves(Numbered(n))
      root   == MerkleRoot(leaves)
      paths  == Paths(leaves)
  IN  \A size \in 1..(n + 1), data \in 0..n : \A index \in 0..(size - 1) :
        (\E path \in paths :
           VerifyInclusion(LeafHash(data), index, size, path, root))
          => data < n /\ (size = n => data = index)

CompleteAt == [n \in 1..MaxTree |-> Complete(n)]

SoundAt == [n \in 1..MaxForged |-> Sound(n)]

\* At every size the log goes through, the path built for an entry, and only
\* with the entry's own index, shows that the entry is in the tree:
\* build_audit_path, audit_path_length and the two loops of verify_inclusion
\* agree on the shape of the tree.  And what verify_inclusion accepts is in the
\* tree, whatever path and whatever tree size come with it, a proof made for a
\* smaller tree included (the size of a proof is its own field, which
\* verify_inclusion does not compare with the signed log_size); under the right
\* size it is also where the index says.
InclusionExact ==
  /\ log_size \in DOMAIN CompleteAt => CompleteAt[log_size]
  /\ log_size \in DOMAIN SoundAt => SoundAt[log_size]
=============================================================================
