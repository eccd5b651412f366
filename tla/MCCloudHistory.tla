--------------------------- MODULE MCCloudHistory ---------------------------
(* Model-checking instance of CloudHistory. *)
EXTENDS CloudHistory, TLC

Symmetry ==
  Permutations(Servers \ Faulty) \cup Permutations(Faulty) \cup Permutations(Calls)
=============================================================================
