------------------------------- MODULE KtLog -------------------------------
(***************************************************************************)
(* The client-side mirror of an account's key-transparency log: KtLogState *)
(* and its apply functions (crates/umbrella-kt/src/authorization_entries.rs)*)
(*                                                                         *)
(* Records may be replayed, delayed and reordered: any device or identity  *)
(* may have signed any record at any time, so a record is an arbitrary     *)
(* input and its signatures are taken to verify (a record whose signature  *)
(* does not verify is rejected before any state changes).                  *)
(*                                                                         *)
(* Abstractions.  HashMap is a total function with an Absent entry; the    *)
(* Merkle inclusion proof of a record is checked by the caller; reserved   *)
(* policy flags and revocation timestamps are never read.                  *)
(***************************************************************************)
EXTENDS KtEpoch

CONSTANTS
  Devices,        \* device public keys
  Identities,     \* identity public keys
  Proofs,         \* code_recovery_public_half_proof values
  Strangers,      \* signing keys outside the witness set
  MaxTime,        \* bound on timestamps
  ZeroRoot        \* the all-zero root of an empty mirror

ASSUME LogAssumption ==
  /\ MaxTime \in Nat
  /\ None \notin Identities /\ None \notin Proofs
  /\ ZeroRoot \notin Roots

VARIABLES
  device_entries,
  current_identity,
  identity_rotation,
  last_epoch,
  last_root,
  recovery_proof,
  retired,        \* history variable: identities that were rotated away
  late            \* history variable: devices registered under a retired one

log_vars == <<device_entries, current_identity, identity_rotation, last_epoch,
          last_root, recovery_proof, retired, late>>

Times == 0..MaxTime
LiveFlags == {"Active", "BootstrapActive"}
Reasons == {"CatastrophicRecovery", "PlannedRotation", "IdentityCompromise"}

Entries == [flag: LiveFlags \cup {"Pending", "Revoked", "Absent"},
            authorized_since: Times, history_cutoff: Times,
            identity: Identities \cup {None}]

Absent == [flag |-> "Absent", authorized_since |-> 0, history_cutoff |-> 0,
           identity |-> None]

SignedEpochRoots ==
  [epoch: Epochs, root: Roots, signers: SUBSET (Witnesses \cup Strangers)]

Approvals == [new_device: Devices, approver: Devices,
              authorized_since: Times, history_cutoff: Times]

Revocations == [revoked: Devices, revoker: Devices]

Rotations == [old: Identities, new: Identities, reason: Reasons,
              proof: Proofs]

Flag(d) == device_entries[d].flag

Live(d) == Flag(d) \in LiveFlags

\* What revocation leaves of an entry: the identity it was published under.
Revoked(e) ==
  [flag |-> "Revoked", authorized_since |-> 0, history_cutoff |-> 0,
   identity |-> e.identity]

-----------------------------------------------------------------------------
\* KtLogState::new or with_identity
LogInit ==
  /\ device_entries = [d \in Devices |-> Absent]
  /\ current_identity \in Identities \cup {None}
  /\ identity_rotation = None
  /\ last_epoch = 0
  /\ last_root = ZeroRoot
  /\ recovery_proof = None
  /\ retired = {}
  /\ late = {}

\* Insert the first entry of a device; remember whether its identity had
\* already been rotated away.
Insert(d, entry) ==
  /\ Flag(d) = "Absent"
  /\ device_entries' = [device_entries EXCEPT ![d] = entry]
  /\ late' = IF entry.identity \in retired THEN late \cup {d} ELSE late

RegisterPending(d, i) ==
  /\ Insert(d, [flag |-> "Pending", authorized_since |-> 0,
                history_cutoff |-> 0, identity |-> i])
  /\ UNCHANGED <<current_identity, identity_rotation, last_epoch, last_root,
                 recovery_proof, retired>>

PrimaryBootstrap(i) ==
  \A d \in Devices :
    device_entries[d].identity = i => Flag(d) = "Revoked"

CatastrophicBootstrap(i) ==
  /\ identity_rotation # None
  /\ identity_rotation.reason = "CatastrophicRecovery"
  /\ identity_rotation.new = i

\* Mutant: a bootstrap always takes over the account.
OverwriteIdentity(i) == current_identity' = i

\* The first device of an empty mirror also sets the account's identity.
AdoptIdentity(i) ==
  current_identity' = IF current_identity = None THEN i ELSE current_identity

RegisterBootstrapActive(d, since, i) ==
  /\ PrimaryBootstrap(i) \/ CatastrophicBootstrap(i)
  /\ Insert(d, [flag |-> "BootstrapActive", authorized_since |-> since,
                history_cutoff |-> 0, identity |-> i])
  /\ AdoptIdentity(i)
  /\ UNCHANGED <<identity_rotation, last_epoch, last_root, recovery_proof,
                 retired>>

SetCodeRecoveryPublicHalfProof(p) ==
  /\ recovery_proof \in {None, p}
  /\ recovery_proof' = p
  /\ UNCHANGED <<device_entries, current_identity, identity_rotation,
                 last_epoch, last_root, retired, late>>

\* Mutant: no check for a regressing epoch.
VerifyThresholdOnly(signed) == VerifySignedEpoch(signed.signers)

VerifyEpochTransition(signed) ==
  /\ VerifySignedEpoch(signed.signers)
  /\ signed.epoch >= last_epoch

CommitEpoch(signed) ==
  /\ last_epoch' = signed.epoch
  /\ last_root' = signed.root

ApplyAuthorizationApproval(a, signed) ==
  /\ VerifyEpochTransition(signed)
  /\ Live(a.approver)
  /\ Flag(a.new_device) = "Pending"
  /\ device_entries' =
       [device_entries EXCEPT
          ![a.new_device] = [flag |-> "Active",
                             authorized_since |-> a.authorized_since,
                             history_cutoff |-> a.history_cutoff,
                             identity |-> @.identity]]
  /\ CommitEpoch(signed)
  /\ UNCHANGED <<current_identity, identity_rotation, recovery_proof,
                 retired, late>>

\* Mutant: the branch for an already revoked device does not look at the
\* revoker.
RevocationWithoutRevokerCheck(r, signed) ==
  /\ VerifyEpochTransition(signed)
  /\ Live(r.revoker) \/ Flag(r.revoked) = "Revoked"
  /\ Flag(r.revoked) # "Absent"
  /\ device_entries' = [device_entries EXCEPT ![r.revoked] = Revoked(@)]
  /\ CommitEpoch(signed)
  /\ UNCHANGED <<current_identity, identity_rotation, recovery_proof,
                 retired, late>>

\* Both branches of apply_authorization_revocation require a live revoker;
\* a device that is already revoked keeps its entry.
ApplyAuthorizationRevocation(r, signed) ==
  /\ VerifyEpochTransition(signed)
  /\ Live(r.revoker)
  /\ Flag(r.revoked) # "Absent"
  /\ device_entries' = [device_entries EXCEPT ![r.revoked] = Revoked(@)]
  /\ CommitEpoch(signed)
  /\ UNCHANGED <<current_identity, identity_rotation, recovery_proof,
                 retired, late>>

\* Mutant: the cascade overlooks pending entries.
CascadeRevokeLive(old) ==
  device_entries' =
    [d \in Devices |-> IF device_entries[d].identity = old /\ Live(d)
                       THEN Revoked(device_entries[d])
                       ELSE device_entries[d]]

CascadeRevoke(old) ==
  device_entries' =
    [d \in Devices |-> IF device_entries[d].identity = old
                       THEN Revoked(device_entries[d])
                       ELSE device_entries[d]]

ApplyIdentityRotation(r, signed) ==
  /\ VerifyEpochTransition(signed)
  /\ r.old # r.new
  /\ current_identity \in {None, r.old}
  /\ recovery_proof \in {None, r.proof}
  /\ CascadeRevoke(r.old)
  /\ current_identity' = r.new
  /\ identity_rotation' = r
  /\ recovery_proof' = r.proof
  /\ CommitEpoch(signed)
  /\ retired' = (retired \cup {r.old}) \ {r.new}
  /\ UNCHANGED late

LogNext ==
  \/ \E d \in Devices, i \in Identities : RegisterPending(d, i)
  \/ \E d \in Devices, t \in Times, i \in Identities :
       RegisterBootstrapActive(d, t, i)
  \/ \E p \in Proofs : SetCodeRecoveryPublicHalfProof(p)
  \/ \E signed \in SignedEpochRoots :
       \/ \E a \in Approvals : ApplyAuthorizationApproval(a, signed)
       \/ \E r \in Revocations : ApplyAuthorizationRevocation(r, signed)
       \/ \E r \in Rotations : ApplyIdentityRotation(r, signed)

LogSpec == LogInit /\ [][LogNext]_log_vars

-----------------------------------------------------------------------------
LogTypeOK ==
  /\ device_entries \in [Devices -> Entries]
  /\ current_identity \in Identities \cup {None}
  /\ identity_rotation \in Rotations \cup {None}
  /\ last_epoch \in Epochs
  /\ last_root \in Roots \cup {ZeroRoot}
  /\ recovery_proof \in Proofs \cup {None}
  /\ retired \subseteq Identities
  /\ late \subseteq Devices

LiveDevices == {d \in Devices : Live(d)}

\* The cascade of apply_identity_rotation misses nobody: a device that is
\* not revoked under an identity that was rotated away was registered only
\* after that rotation, however approvals, revocations and rotations (also
\* back to an earlier identity) interleave.
CascadeComplete ==
  \A d \in Devices :
    (/\ device_entries[d].identity \in retired
     /\ Flag(d) # "Revoked") => d \in late

\* The mirror's three identity fields stay in step: after a rotation the
\* current identity and the recovery proof are the ones of the last record,
\* and that identity does not count as retired.
RotationCoherent ==
  identity_rotation # None =>
    /\ current_identity = identity_rotation.new
    /\ recovery_proof = identity_rotation.proof
    /\ current_identity \notin retired

EntryDecays(e, f) ==
  e.flag # "Absent" =>
    /\ f.identity = e.identity
    /\ e.flag = "Revoked" => f = e
    /\ e.flag \in LiveFlags => f = e \/ f.flag = "Revoked"

EntriesDecay ==
  \A d \in Devices : EntryDecays(device_entries[d], device_entries'[d])

DeadLogStep ==
  /\ \/ last_epoch' = last_epoch /\ last_root' = last_root
     \/ current_identity' # current_identity
  /\ \A d \in Devices :
       device_entries'[d].flag \in LiveFlags =>
         device_entries'[d].flag = "BootstrapActive"

\* With no live device left, nothing but the identity's own rotation moves
\* the log on: neither an approval nor a repeated revocation signed by a
\* revoked key does, and only a bootstrap makes a device live again.
DeadDevicesHaveNoVoice == [][LiveDevices = {} => DeadLogStep]_log_vars

ForwardStep ==
  /\ last_epoch' >= last_epoch
  /\ recovery_proof # None => recovery_proof' = recovery_proof
  /\ (current_identity # None /\ current_identity' # current_identity) =>
       identity_rotation'.old = current_identity

\* Nothing the mirror knows is taken back by a late or repeated record.  Epochs
\* never go back, the recovery proof, once set, is pinned for good, and a
\* rotation moves on from the current identity; an entry keeps the identity it
\* was published under, revocation is terminal, and an approval's history
\* cutoff can only be lost by it.
MirrorIsMonotone == [][ForwardStep /\ EntriesDecay]_log_vars

\* authorization_entries.rs:334-341: bootstrap-active is legitimate only for
\* the first device under an identity, so no identity has two of them.
OneBootstrapPerIdentity ==
  \A d, e \in Devices :
    (/\ Flag(d) = "BootstrapActive" /\ Flag(e) = "BootstrapActive"
     /\ device_entries[d].identity = device_entries[e].identity) => d = e
=============================================================================
