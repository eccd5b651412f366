------------------------------ MODULE KtEpoch ------------------------------
(***************************************************************************)
(* Witness-threshold verification of a signed epoch root, as every         *)
(* consumer of the key-transparency log performs it                        *)
(* (crates/umbrella-kt/src/witness.rs).                                    *)
(*                                                                         *)
(* A signature is abstracted to the fact that it verifies: the signers of  *)
(* a record are the keys whose signature verifies over its canonical       *)
(* payload.  Keys outside Witnesses stand for witnesses the client does    *)
(* not know.                                                               *)
(***************************************************************************)
EXTENDS Naturals, FiniteSets

CONSTANTS
  Witnesses,   \* the client's WitnessSet; add() drops duplicates, so a set
  Threshold,   \* 3 of 5 in production
  Roots,       \* Merkle roots of epochs
  MaxEpoch,    \* bound on the epochs of the model
  None         \* an empty Option

ASSUME WitnessAssumption ==
  /\ IsFiniteSet(Witnesses)
  /\ Threshold \in Nat

ASSUME EpochAssumption == MaxEpoch \in Nat

Epochs == 0..MaxEpoch

\* verify_signed_epoch: unknown keys are skipped, a key counts once, and a
\* zero threshold verifies nothing.
VerifySignedEpoch(signers) ==
  /\ Threshold # 0
  /\ Cardinality(signers \cap Witnesses) >= Threshold
=============================================================================
