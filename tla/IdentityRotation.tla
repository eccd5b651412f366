-------------------------- MODULE IdentityRotation --------------------------
(***************************************************************************)
(* Rotation of a hardware-held identity: rotate_identity_full and          *)
(* rotate_identity_publish (crates/umbrella-client/src/identity.rs) over   *)
(* the three places of ClientCore that name the identity (core.rs) and the *)
(* hardware keystore behind PersistentKeyStoreCallback                     *)
(* (keystore/hw_callback.rs).                                              *)
(*                                                                         *)
(* The runtime has several threads and rotate_identity_full takes no lock  *)
(* of its own, so two rotations may interleave between any two of its      *)
(* steps; a step is one callback into the keystore or one locked access.   *)
(*                                                                         *)
(* Abstractions.  Keys are numbered in the order they are made; signatures *)
(* are ideal: a rotation remembers the key that signed for its old         *)
(* identity and the old identity that was signed.  The account index,      *)
(* timestamps and the reason of a rotation decide nothing here.            *)
(***************************************************************************)
EXTENDS Naturals, Sequences

CONSTANTS
  Labels,     \* aliases of hardware keys
  First,      \* alias of the identity ClientCore was bootstrapped with
  Rotations,  \* concurrent rotate_identity_full calls
  MaxKeys     \* bound on identity keys

ASSUME RotationAssumption == First \in Labels /\ MaxKeys \in Nat \ {0}

VARIABLES
  hw,           \* key under each label of the hardware keystore; 0 for none
  made,         \* keys made so far
  mls_keystore, \* identity key of ClientCore::mls_keystore
  keystore,     \* key and handle behind ClientCore::keystore
  hw_identity,  \* handle and verifying key of ClientCore::hw_identity_state
  log,          \* rotation records published to key transparency
  rot,          \* the running rotations
  overlapped    \* history variable: two rotations have run at once

vars == <<hw, made, mls_keystore, keystore, hw_identity, log, rot, overlapped>>

Keys == 1..MaxKeys

\* Identity key of the throw-away seed behind mls_keystore after a hardware
\* bootstrap; it is no key of the hardware keystore.
SeedKey == 0

Handles == [label: Labels, key: Keys]

Stages == {"idle", "checked", "rotated", "published", "mls", "keystore"}

Idle == [stage |-> "idle", old |-> First, old_key |-> 0, new |-> First,
         new_key |-> 0, signer |-> 0]

\* The handle the rotation adopts.
NewHandle(r) == [label |-> rot[r].new, key |-> rot[r].new_key]

At(r, stage) == rot[r].stage = stage

MoveTo(r, stage) == rot' = [rot EXCEPT ![r].stage = stage]

-----------------------------------------------------------------------------
\* new_with_hw_callback leaves a seed's identity in mls_keystore;
\* swap_mls_keystore may since have put the hardware identity there.
Init ==
  /\ hw = [l \in Labels |-> IF l = First THEN 1 ELSE 0]
  /\ made = 1
  /\ mls_keystore \in {SeedKey, 1}
  /\ keystore = [label |-> First, key |-> 1]
  /\ hw_identity = [label |-> First, key |-> 1]
  /\ log = <<>>
  /\ rot = [r \in Rotations |-> Idle]
  /\ overlapped = FALSE

\* Layer 1: the caller's handle must hold the key mls_keystore reports.
\* Otherwise the call returns and changes nothing.
PreFlight(r, old, new) ==
  /\ At(r, "idle")
  /\ hw[old] # 0 /\ hw[old] = mls_keystore
  /\ rot' = [rot EXCEPT ![r] =
       [stage |-> "checked", old |-> old, old_key |-> mls_keystore,
        new |-> new, new_key |-> 0, signer |-> 0]]
  /\ overlapped' = (overlapped \/ \E q \in Rotations : ~At(q, "idle"))
  /\ UNCHANGED <<hw, made, mls_keystore, keystore, hw_identity, log>>

\* Layer 2: the callback makes a key under the new label, after signing with
\* whatever key the old label holds by then.
HwRotateIdentity(r) ==
  /\ At(r, "checked")
  /\ made < MaxKeys
  /\ made' = made + 1
  /\ hw' = [hw EXCEPT ![rot[r].new] = made + 1]
  /\ rot' = [rot EXCEPT ![r] =
       [stage |-> "rotated", old |-> rot[r].old, old_key |-> rot[r].old_key,
        new |-> rot[r].new, new_key |-> made + 1, signer |-> hw[rot[r].old]]]
  /\ UNCHANGED <<mls_keystore, keystore, hw_identity, log, overlapped>>

\* The callback fails: user denied, hardware unavailable, signing failed.
HwRotateFails(r) ==
  /\ At(r, "checked")
  /\ rot' = [rot EXCEPT ![r] = Idle]
  /\ UNCHANGED <<hw, made, mls_keystore, keystore, hw_identity, log,
                 overlapped>>

\* The callback fails half-way: a key stays behind under a label that had
\* none, and nobody learns of it.
HwRotateHalfFails(r) ==
  /\ At(r, "checked")
  /\ made < MaxKeys
  /\ hw[rot[r].new] = 0
  /\ made' = made + 1
  /\ hw' = [hw EXCEPT ![rot[r].new] = made + 1]
  /\ rot' = [rot EXCEPT ![r] = Idle]
  /\ UNCHANGED <<mls_keystore, keystore, hw_identity, log, overlapped>>

\* IdentityRotationRecord::verify over the old identity as it is read again
\* when the record is built.
RecordVerifies(r) ==
  mls_keystore = rot[r].old_key /\ rot[r].signer = mls_keystore

\* Mutant: a call whose record is refused puts back the identity it found.
RotateIdentityPublish_PutsBack(r) ==
  /\ At(r, "rotated")
  /\ IF mls_keystore # rot[r].new_key /\ RecordVerifies(r)
     THEN /\ log' = Append(log, [old |-> mls_keystore, new |-> rot[r].new_key])
          /\ MoveTo(r, "published")
          /\ UNCHANGED mls_keystore
     ELSE /\ rot' = [rot EXCEPT ![r] = Idle]
          /\ mls_keystore' = rot[r].old_key
          /\ UNCHANGED log
  /\ UNCHANGED <<hw, made, keystore, hw_identity, overlapped>>

\* Layer 3: rotate_identity_publish
RotateIdentityPublish(r) ==
  /\ At(r, "rotated")
  /\ IF mls_keystore # rot[r].new_key /\ RecordVerifies(r)
     THEN /\ log' = Append(log, [old |-> mls_keystore, new |-> rot[r].new_key])
          /\ MoveTo(r, "published")
     ELSE /\ rot' = [rot EXCEPT ![r] = Idle]
          /\ UNCHANGED log
  /\ UNCHANGED <<hw, made, mls_keystore, keystore, hw_identity, overlapped>>

\* Mutant: the new identity is adopted before its record is published.
SwapMlsKeystore_Early(r) ==
  /\ At(r, "rotated") \/ At(r, "published")
  /\ mls_keystore' = rot[r].new_key
  /\ MoveTo(r, "mls")
  /\ UNCHANGED <<hw, made, keystore, hw_identity, log, overlapped>>

\* Layer 4, first swap
SwapMlsKeystore(r) ==
  /\ At(r, "published")
  /\ mls_keystore' = rot[r].new_key
  /\ MoveTo(r, "mls")
  /\ UNCHANGED <<hw, made, keystore, hw_identity, log, overlapped>>

\* Mutant: the canonical slot keeps the keystore of the old identity.
SwapKeystore_Forgotten(r) ==
  /\ At(r, "mls")
  /\ MoveTo(r, "keystore")
  /\ UNCHANGED <<hw, made, mls_keystore, keystore, hw_identity, log,
                 overlapped>>

\* Layer 4, second swap
SwapKeystore(r) ==
  /\ At(r, "mls")
  /\ keystore' = NewHandle(r)
  /\ MoveTo(r, "keystore")
  /\ UNCHANGED <<hw, made, mls_keystore, hw_identity, log, overlapped>>

\* Layer 4, third swap; the call returns.
SwapHwIdentity(r) ==
  /\ At(r, "keystore")
  /\ hw_identity' = NewHandle(r)
  /\ rot' = [rot EXCEPT ![r] = Idle]
  /\ UNCHANGED <<hw, made, mls_keystore, keystore, log, overlapped>>

Next ==
  \E r \in Rotations :
    \/ \E old, new \in Labels : PreFlight(r, old, new)
    \/ HwRotateIdentity(r)
    \/ HwRotateFails(r)
    \/ HwRotateHalfFails(r)
    \/ RotateIdentityPublish(r)
    \/ SwapMlsKeystore(r)
    \/ SwapKeystore(r)
    \/ SwapHwIdentity(r)

Spec == Init /\ [][Next]_vars

-----------------------------------------------------------------------------
RotationStates ==
  [stage: Stages, old: Labels, old_key: Keys \cup {0}, new: Labels,
   new_key: Keys \cup {0}, signer: Keys \cup {0}]

Records == [old: Keys, new: Keys]

TypeOK ==
  /\ hw \in [Labels -> Keys \cup {0}]
  /\ made \in Keys
  /\ mls_keystore \in Keys \cup {SeedKey}
  /\ keystore \in Handles
  /\ hw_identity \in Handles
  /\ log \in Seq(Records)
  /\ rot \in [Rotations -> RotationStates]
  /\ overlapped \in BOOLEAN

AllIdle == \A r \in Rotations : At(r, "idle")

Published(k) == \E i \in DOMAIN log : log[i].new = k

\* A client never uses an identity the log does not know: whatever rotations
\* overlap, a key reaches one of the three places only after its record.
PublishedBeforeUse ==
  \A k \in {mls_keystore, keystore.key, hw_identity.key} :
    k \in {SeedKey, 1} \/ Published(k)

\* Once a record has retired an identity, mls_keystore signs with it only until
\* the rotation that published the record swaps it out.  However rotations
\* overlap, fail or lag behind, none of their swaps puts a retired identity
\* back; between rotations mls_keystore holds one that no record retires.
RetiredStaysOut ==
  \A i \in DOMAIN log :
    log[i].old = mls_keystore =>
      \E r \in Rotations : At(r, "published") /\ rot[r].new_key = log[i].new

\* The identity the log ends with.
LastIdentity == IF log = <<>> THEN 1 ELSE log[Len(log)].new

\* Rotations that do not overlap form a chain in the log; between them all
\* three places name the identity the chain ends with, under a handle that
\* holds it, also when a label is used again.
SerialRotationsCoherent ==
  ~overlapped =>
    /\ \A i \in 2..Len(log) : log[i].old = log[i - 1].new
    /\ AllIdle =>
         /\ log # <<>> => mls_keystore = LastIdentity
         /\ keystore = hw_identity
         /\ keystore.key = LastIdentity
         /\ hw[keystore.label] = LastIdentity

\* identity.rs:260-263: the three surfaces swap together and the core is
\* coherent after a rotation.
CoherentAfterRotation ==
  (AllIdle /\ log # <<>>) =>
    /\ mls_keystore = keystore.key
    /\ keystore = hw_identity
=============================================================================
