--------------------------- MODULE MCKtSplitView ---------------------------
(* Model-checking instance of KtSplitView: the model values of the configs *)
(* and the symmetry that is sound for all of them.                         *)
EXTENDS KtSplitView, TLC

CONSTANTS w1, w2, w3, w4, w5, c1, c2, r1, r2, l1

\* Correct witnesses are interchangeable, and so are clients and roots.
Symmetry ==
  Permutations(Witnesses \ Faulty) \cup Permutations(Clients)
    \cup Permutations(Roots)
=============================================================================
