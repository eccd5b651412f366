------------------------------ MODULE MCKtLog ------------------------------
(* Model-checking instance of KtLog and of the Merkle tree of the log it    *)
(* mirrors: the mirror and the log move independently.                      *)
EXTENDS KtLog, Merkle, TLC

CONSTANTS d1, d2, d3, i1, i2, p1, p2, r1, w1, w2, x1

Symmetry ==
  Permutations(Devices) \cup Permutations(Identities) \cup Permutations(Proofs)

MCInit == LogInit /\ EmptyTree

MCNext ==
  \/ LogNext /\ UNCHANGED log_size
  \/ PublishEntry /\ UNCHANGED log_vars

MCSpec == MCInit /\ [][MCNext]_<<log_vars, log_size>>
=============================================================================
