# TLA+ models of the Umbrella protocol

Specifications of the stateful parts of the Umbrella workspace
(`crates/umbrella-*`), the TLC configurations that check them on small
instances, and TLAPS proofs of the safety properties that matter most.
Cryptographic primitives are ideal everywhere: a signature or an AEAD tag
verifies exactly when it was made with the key in question, and a hash stands
for what was hashed.

`PROJECT.json` is the index: it maps each definition to the lines it models,
each property to the mutation of the model that breaks it, and lists the
hazards of the code with the properties that watch over them.

## The system

| part | crates | role |
|---|---|---|
| key transparency | `kt` | witnesses sign epoch roots; clients compare observations, verify inclusion, mirror device authorizations and identity rotations |
| blind postman | `server-blind-postman` | relays opaque MLS envelopes: parse, duplicate check, rate limit |
| threshold identity | `threshold-identity`, `client/keystore/distributed_identity_client`, `client/lifecycle` | five servers hold shares of an account; PIN, words, dead-man switch, time lock, heartbeats |
| calls | `calls`, `client/call` | SFrame media keys per MLS epoch, call life cycle, ICE/DTLS/SRTP set-up |
| messaging | `mls`, `client/facade`, `client/core` | MLS groups, Max Ratchet, cloud and secret chats |
| client transports | `client/transport` | WebSocket and QUIC gateways, HTTP clients |
| identity | `identity`, `client/identity`, `client/device_authorization` | device keys, rotation, revocation |
| backup | `backup` | cloud-wrapped keys with threshold unwrap, device transfer |
| discovery | `discovery`, `oprf` | private lookup, budgets, attested requests |
| formats and primitives | `core`, `crypto-primitives`, `pq`, `sealed-sender`, `padding`, `platform-verifier` | stateless |
| bindings | `ffi`, `ffi-swift`, `ffi-kotlin` | wrappers around the client |

The parts meet in a few places. The log mirror trusts roots because enough
witnesses signed them. An identity rotation is published to the log and then
swapped into the client. A chat or a call takes its keys from an MLS epoch that
a commit, relayed by the postman, created. A cloud text is published at rest
once the gateway has acknowledged it, and is read back by a threshold of the
unwrap servers.

## Modules

| module | models | theorems |
|---|---|---|
| `KtEpoch` | `verify_signed_epoch`, the witness set and threshold | |
| `OneLog` | what key transparency promises: one append-only log | |
| `KtSplitView` | signing ledgers of witnesses, observation histories of clients, evidence; implements `OneLog` | `KtProofs` |
| `KtLog` | `KtLogState` and every function that applies a record to it | `KtProofs` |
| `Merkle` | the tree of the log, building and verifying inclusion proofs | `MerkleProofs` |
| `BlindPostman` | `Router::dispatch`, `ReplayGuard`, `FixedWindow` | `ServerProofs` |
| `Sframe` | `SframeContext` of each member, `ReplayWindow` | `SframeProofs` |
| `AttemptCounter` | `AttemptCounter` and `AccountState::try_pin`, as operators | |
| `PinUnlock` | `unlock_with_pin` of several devices over the share servers | `ServerProofs` |
| `AccountGuard` | dead-man switch, time-locked recovery, session wiping, heartbeats | `AccountProofs` |
| `MlsGroup` | `UmbrellaGroup`, as operators | |
| `MaxRatchet` | the rekey before each message and `decrypt_text_with_fallback`, as operators | |
| `ChatGroup` | one chat of several devices over a relay; composes the two above | `ChatGroupProofs` |
| `GatewaySession` | the gateway connections of one client and the calls that share them | `GatewaySessionProofs` |
| `CloudUnwrap` | `unwrap_message_key` and `subset_combinations`, as operators | `CloudHistoryProofs` |
| `CloudHistory` | publication, identity changes and overlapping `cloud_sync_history` calls; composes `CloudUnwrap` | `CloudHistoryProofs` |
| `IdentityRotation` | `rotate_identity_full`, several at a time | `AccountProofs` |

`MC*` modules give values to constants; `MCKtLog` also puts the mirror and the
tree of the log side by side.

### Witnesses and observations (`KtSplitView`, `OneLog`)

`ledger` is the `WitnessSigningLedger` of each correct witness, `signatures`
everything signed, `history` each client's `KtObservationHistory`, `evidence`
the `EquivocationEvidence` built so far. A correct witness signs what
`record_or_reject` lets through; a faulty one signs anything. `Observe` is
`KtObservationHistory::observe` with its checks in the code's order. A signature
covers epoch and root (which here stands for `root` and `log_size`) but neither
the log nor the previous root, as in `canonical_sign_payload`.

`OneLog` has neither witnesses nor an operator: a client accepts a head that no
client contradicts and that is not older than what it has.
`ImplementsOneLog` maps what the histories accepted to it.

### Log mirror and tree (`KtLog`, `Merkle`)

One action per operation: `RegisterPending`, `RegisterBootstrapActive`,
`SetCodeRecoveryPublicHalfProof`, and the three apply functions with
`verify_epoch_transition` first and `commit_epoch` last. Records may arrive in
any order, twice, or late. Signatures of records are taken to have verified;
inclusion is checked by the caller of the apply functions.

`Merkle` translates `merkle_root`, `build_path_recursive`, `audit_path_length`
and the two loops of `verify_inclusion`. A hash is the term it was computed
from, so no two inputs share one. A recursion of the code over sub-slices is a
function on the pairs of start and length, and the loop over the siblings is a
function of the number of turns. The indices are numbers; `u64` bounds them in
the code, and nothing but halving and a subtraction from at least 1 is done to
them. `log_size` is the number of entries the operator has published. The size a
proof claims is a field of the proof; `verify_inclusion` does not compare it with
the `log_size` that the witnesses sign, and neither does anything else in the
repository, so soundness is stated for every size a proof may claim.

### Router (`BlindPostman`)

A dispatch is one action because the router is borrowed mutably; its four
outcomes are four actions. `queue` and `active` are the two structures of
`ReplayGuard`, `buckets` the table of `FixedWindow`. The caller's clock may be
set back by up to `MaxStepBack`, which is 0 in the run; the limiter counts per
aligned window, so the quota is stated per aligned window too.

### SFrame contexts (`Sframe`)

Each member has the cached `epochs` (newest first), the per-KID `keys` and the
`replay` windows. A key is the epoch it was derived from. A window's bitmap is
the set of its bit positions. `AdvanceEpoch`, `EncryptFrame` and `DecryptFrame`
are the three methods. `DecryptGarbled` is `decrypt_frame` on a frame that does
not authenticate, which has moved the window by then. `FreshFramesOpen` holds
only until the first such frame (`failed`): it can push the window past frames
still to come. Windows are total functions: a window missing from the map
behaves as one not initialized. `Jumps` says how the epochs handed to
`install_sframe_epoch` follow one another; the code does not restrict them.

### PIN unlock (`AttemptCounter`, `PinUnlock`)

An unlock call is several steps, one per server probed, because other devices,
word entries and wipes may come in between. The servers are outside the
repository. They are modelled from the trait `ServerUnwrapClient`, whose comment
says that the server verifies the PIN itself, and from the methods of
`AccountState` that exist for it.

### Dead-man switch, recovery, session (`AccountGuard`)

Times are kept relative to the clock that reads them (`age` of the last
heartbeat, what is `left` of a time lock), so time itself needs no bound. A
server's clock may be set back. The history variables `quiet` and `waited` hold
the real time that passed; the properties compare the decisions of the code
with them. The endpoints that call `enable`, `initiate`, `cancel` and the rest
are not in the repository. Things the code does and the model keeps:

* `cancel` and `try_complete` do not ask whether the push was sent.
* `initiate` and `try_complete` cut the time off to whole seconds (`Second`), so a
  lock can end up to a second early, where `time_lock.rs:3-4` says exactly 24 hours.
* A session is wiped only at a heartbeat tick, so one brought back to the
  foreground after its grace period but before a tick stays live.
* Every `Background` event starts the timer anew.
* `active` is the flag of `HeartbeatScheduler`, which `start` and `stop` set at any
  time; it ticks only while the flag is on. `ticks_sent`, the time of the last
  heartbeat and the debugger flag are left out, because nothing in the
  repository decides by them.

### Chats (`MlsGroup`, `MaxRatchet`, `ChatGroup`)

A group state is the sequence of commits merged so far, which stands for the
epoch number and the key schedule at once. A sender merges its own commit
before anybody has seen it (`force_rekey`, `add_members`), and
`mls_add_member` drops the commit bytes. Commits made without having read
another device's, and commits that get lost, therefore part the group for
good; `crossed` records that. `SendEncrypt` is the part of a send under the
group lock and `SendRelayed` or `SendFails` what follows it.
`RegisterRatchet` is the second insert of `register_group`: a sender in between
finds a group without a ratchet. A fetch looks up its group once, so `bare`
holds the fetches that began without one. `FetchReceive` keeps the fallback
chain of `decrypt_text_with_fallback`: a bundle that fails leaves the group as
far as the earlier steps took it, and a plain message that does not open is
handed out as bytes. A device is invited by one member only: in the code two
members whose groups parted can invite the same device, whose second group then
replaces the first.

### Gateway connection (`GatewaySession`)

All calls of a client read one stream of frames, and nothing matches an answer
to its question. QUIC has one lock for both directions, the WebSocket one for
each. A send keeps the connection that was installed when it began
(`gateway()` clones the `Arc`), and `SetGateway` and `ClearGateway` may replace or
remove it meanwhile. A connection that fails stays installed (`ConnectionLost`
touches `link` only), so later sends return errors until it is cleared. A send
is: write, take the receive lock, wait for a frame, take it as the answer, and
then the next peer (secret chat) or the two steps of the at-rest publication
(cloud chat); a secret text without a group goes to one address. The gateway
answers in its own time: `asked` holds the envelopes it has not answered, so a
call may hold the lock over an empty stream. An acknowledgement with a message
id that `decode_server_msg_id` rejects is an error frame. `disturbed` and `raced`
name the connections on which a send met other traffic, or a fetch; each property
says what holds without and what holds always.

### Cloud history (`CloudUnwrap`, `CloudHistory`)

A sync takes its entries out of the history, reads the identity once, and opens
the entries one by one with shares from the servers. Both transports are
modelled because the core holds a trait object: `StubUnwrapTransport`, which
the core builds, and `Http2UnwrapTransport`, which nothing in the repository
wires up yet. An error ends the whole sync, and the texts it had taken are gone:
`lost` counts them. `unwrap_message_key` has two early errors that are left out:
duplicate or out-of-range witness indices (the HTTP/2 dispatch yields one share
per server; what is staged for the stub is taken to be so, which the stub does
not check), and a damaged `ephemeral_r`, which ends the sync as a damaged
ciphertext does.

### Identity rotation (`IdentityRotation`)

`rotate_identity_full` takes no lock of its own, so every callback into the
keystore and every locked access is a step. `hw` is the hardware keystore,
`mls_keystore`, `keystore` and `hw_identity` the three places of `ClientCore`
that name the identity. Labels may be used again. `HwRotateHalfFails` leaves a
key behind only under a label that had none: whether a failing callback may
replace a key that exists is up to the platform and not in the repository.

## Runs

| run | instance | shows |
|---|---|---|
| `kt_split_view_overlap` | 4 witnesses, threshold 3, 1 faulty | no two clients accept two roots of an epoch; witnesses and clients implement `OneLog` |
| `kt_split_view_faulty` | 3 witnesses, threshold 2, 1 faulty | split views happen, yet no client forks and evidence names the faulty witness only |
| `kt_split_view_policy` | 5 witnesses, threshold 3, 1 faulty | **violation**: a split view with one faulty witness |
| `kt_log` | 3 devices, 2 identities; trees up to 9 entries | cascade, rotation, revocation and epoch order; inclusion proofs are exact |
| `postman` | 3 senders, table for 2, monotone clock | replay, quota and table size, what is remembered and what is charged |
| `sframe` | cache 2, width 2, epochs modulo 3, 5 epochs, counters 0..3 | replay, attribution and eviction past the wrap of the truncated epoch; nothing fresh refused at the edges of the window |
| `pin_unlock` | 3 servers, threshold 2, 2 devices | truthful verdicts, escalation, bound on wrong PINs, every call returns |
| `account_guard` | 1 server, short periods, 2 set-backs | a share is wiped unasked only after real silence, and then surely; recovery waits its lock but for a fraction of a second; a running scheduler wipes a hidden session unless new Background events keep coming |
| `chat_group` | 2 devices, 3 texts, 1 redelivery, 1 lost connection | no text opens twice; a ratcheted text opens an epoch no earlier text used; a chat without crossed commits stays readable |
| `gateway_session` | 2 sends, 1 fetch, 2 peers, 1 foreign message, 1 connection that may fail or be cleared | what Ok means with and without other traffic, the at-rest history, calls return |
| `cloud_history` | 5 servers of which 2 may answer badly, threshold 3, 2 syncs, 2 texts, 1 rotation | the subset search is exact; every text is in one place |
| `identity_rotation` | 2 rotations, 3 labels, 5 keys | nothing unpublished is used, no retired identity comes back, serial rotations leave the core coherent |

The finding in `PROJECT.json` quotes the line the violation contradicts.

`GatewaySession_replaced.cfg` checks the properties of `gateway_session` with two
connections, the second installed in place of the first under calls in flight,
and without foreign messages; it passes.

### Further counterexamples

These configurations are kept beside the runs. Each checks one sentence of the
repository's text and TLC finds a behaviour of the model against it; run them
with `tlc -config <cfg> <module>`.

| configuration | module, property | the text | what TLC shows |
|---|---|---|---|
| `MCKtSplitView_evidence.cfg` | `MCKtSplitView`, `EvidenceShowsTwoSignedViews` | `kt/src/observation.rs:188` "Verifiable proof that a KT log showed two signed views for one epoch." | `conflicts_with` also compares `previous_root`, which no signature covers, so there is evidence although one root was signed |
| `MCKtLog_bootstrap.cfg` | `MCKtLog`, `OneBootstrapPerIdentity` | `kt/src/authorization_entries.rs:336-341` bootstrap-active is for "the first device under a new identity"; "In every other case bootstrap-active is rejected" | after a catastrophic rotation any number of devices register bootstrap-active: only the last rotation record is looked at (line 361) |
| `MCSframe_reinstall.cfg` | `MCSframe`, `NoReplay` | `calls/src/sframe/replay.rs:107` "bit already set (duplicated counter)" | an epoch installed twice loses its windows when the first copy is evicted while the second is still cached, and a frame is returned twice |
| `MCSframe_reuse.cfg` | `MCSframe`, `SealsUnderCurrentEpoch` | `calls/src/sframe/frame.rs:221-223` colliding keys "are either valid under a collision or will be silently replaced at the next derive" | when an epoch and one exactly 2^16 later (4 in the instance) are cached together, the older one's key is found under the shared KID, never replaced (line 251), and used to seal |
| `PinUnlock_lock.cfg` | `PinUnlock`, `WrongPinsLock` | `docs/superpowers/specs/2026-05-19-phd-b-distributed-identity-pin-design.md:71` "3 wrong PIN → freeze" | one wrong answer ends a call, so the wrong PINs are spread over servers that count apart and the PIN still unlocks |
| `IdentityRotation_coherent.cfg` | `IdentityRotation`, `CoherentAfterRotation` | `client/src/identity.rs:260-263` the three surfaces "atomic-swap together; the full `ClientCore` is coherent post-rotation." | two rotations that overlap interleave their three swaps and leave different identities behind |
| `MCCloudHistory_alarm.cfg` | `MCCloudHistory`, `AllFailedMeansThreshold` | `backup/src/cloud_wrap/unwrap.rs:33-36` the error is "catastrophic, signals ≥ 3 malicious servers" | it also comes with one tampered share among three, and after an identity change with none |
| `MCCloudHistory_retry.cfg` | `MCCloudHistory`, `RetryFindsTexts` | `client/src/facade/chat_common.rs:1089-1093` without enough shares the caller "показывает «sync failed, retry»" | the entries were drained before the shares were asked for, so a retry of the failed sync finds nothing |
| `MCChatGroup_ratcheted.cfg` | `MCChatGroup`, `EveryTextRatcheted` | `client/src/core.rs:1356-1359` every registered chat gets the protection of the ratchet "автоматически без явного opt-in caller'а" | a send between the two inserts of `register_group` (lines 1360-1366) finds the group without its ratchet state and encrypts in the epoch as it is |
| `AccountGuard_background.cfg` | `AccountGuard`, `BackgroundWipes` | `client/src/lifecycle.rs:8` "App → Background": "2-min timer → wipe device_key+master_key" | only a tick looks at the timer, and the heartbeat runs in the "active foreground" (lines 12, 17): with the scheduler stopped a session stays live in the background for ever |

### Why the bounds are enough

* Witnesses: thresholds are chosen around the point where two threshold sets
  stop sharing a correct witness; the theorem covers all other sizes.
* Log: three devices are the revoker, the revoked and a bystander; two
  identities are the retired one and the new one.
* Tree: 9 entries give every shape up to a last node that climbs three levels
  without a sibling; every path is tried up to 5 entries.
* Postman: one sender more than the table holds, two windows of time, and
  envelopes enough to fill a quota and to replay.
* SFrame: contexts share nothing, so one receiver is enough. The cache, the
  width and the modulus are scaled down so that eviction, shifts beyond the
  width and the wrap all occur; `CacheSize * jump < EpochMod` as in the code.
* PIN: one server more than the threshold, and two wrong PINs per server, so
  that one server escalates while the others still unlock.
* Account: servers share nothing but the device, so one is enough; the periods
  only have to differ and a second has to be more than one step of the clock,
  so that time is cut off. The proofs cover any number.
* Chat: two devices are enough for crossed commits, a lost commit and a commit
  that was never sent. Three texts let a fork be followed by a send of either
  side. The proofs cover any number of devices and texts.
* Gateway: two sends and a fetch are all the kinds of call that compete for a
  frame; one foreign message and one failure disturb any of them. Connections
  share nothing but the history and its counter, so one is enough for what
  happens on it; the further configuration replaces it under its calls.
* Cloud: the production numbers of servers and the production retry budget;
  two syncs, so that one can take what the other left.
* Rotation: two calls interleave at every step; a third label lets one be used
  again while another rotation still holds it.

### Fairness

* `pin_unlock`: weak fairness of each device's round of the loop, which says
  that a network call returns with an answer or an error.
* `gateway_session`: weak fairness of each send's next step and of the gateway's
  answers. The executor polls a call that can go on. The gateway, which is
  external, answers each envelope at last with an acknowledgement or an error,
  as long as the connection lives; nothing is assumed of fetches,
  messages or the connection. A fetch beside a send may take its answer, so
  `CallsReturn` leaves that case out.
* `account_guard`: time goes on, the scheduler of the device ticks while it is
  active and until the device is lost (`HeartbeatScheduler`: "production runs on
  tokio interval ticker"; that somebody starts it, or leaves it on in the
  background, is not assumed), and every server runs `poll_dead_man` ("Periodic check (e.g.
  cron)"). Nothing is
  assumed about heartbeats arriving or the owner doing anything.

All other properties are safety. `CHECK_DEADLOCK FALSE` stands where bounds on
texts, keys or epochs are used up or where a witness has signed all it will.

## Proofs

A proof module extends the module of its component. `KtProofs`,
`AccountProofs` and `ServerProofs` serve two components each; so that both can
be extended, the definitions of `KtLog` are called `LogInit`, `LogNext`,
`LogSpec`, `LogTypeOK`, and those of `AccountGuard` and `PinUnlock` `GuardInit`,
`PinInit` and so on. All theorems hold for every
value of the constants allowed by the named assumptions, which say that bounds
and periods are numbers, limits and thresholds are positive and model values
such as `NoBucket` are none of the values they stand beside. The type
invariants of all ten components are theorems (`TypeCorrect`,
`LogTypeCorrect`, `GuardTypeCorrect`, `PinTypeCorrect`); those of `ChatGroup`,
`GatewaySession` and `CloudHistory` are also invariants of their runs.

* `KtProofs`, witnesses. `NoSplitViewHolds` assumes that any two threshold sets
  share a correct witness (`QuorumOverlap`) and that the witnesses follow one
  log (`SingleLog`). The invariant says that what a correct witness signed is
  in its ledger and that a ledger holds one root per epoch. Two accepted roots
  would put both in the ledger of the shared witness. `ImplementsOneLogHolds`
  has the same hypotheses: an `Observe` that accepts is an `Accept` of the
  abstract log because `NoSplitView` holds after it, and every other step
  leaves the accepted heads alone. `ClientNeverForksHolds` needs no assumption:
  it is the history's doing. `RootEvidenceNamesFaultyHolds` assumes that
  threshold sets meet at all.
* `KtProofs`, log mirror. `CascadeComplete` becomes inductive once it is known that an
  absent entry names no identity and that a revoked one carries no times
  (`EntriesInv`). The action properties (`DeadDevicesHaveNoVoice`,
  `MirrorIsMonotone`) follow action by action from the types and from
  `RotationCoherent`.
* `MerkleProofs`, for trees and paths of any size. `InclusionComplete`: the path
  built for an entry is accepted with the entry's index. `InclusionSound`: with
  whatever path, index and tree size, only an entry of the log is accepted, and
  under the log's own length only the one at the index. `InclusionExactHolds`
  is the property of the run and follows from the two. The builder goes down
  from the root and cuts at powers of two; the verifier climbs from the leaf by
  halving two numbers and jumps over levels at which the last node has no
  sibling. `Split` brings them together: the climb from a leaf is the climb
  inside the leaf's half of the tree, under that half's numbering, and then one
  turn that joins the halves. It is shown by induction on the number of the
  last node: two leaves are `SplitsPair`, and in a larger tree the halves of a
  node and of its parent correspond (`SubtreeParent`), so that both climbs take
  the same first turn (`SplitsByTurn`) or both pass to the parent without one
  (`SplitsBySkip`). Completeness and soundness under the right size follow by
  induction on the size of a slice. Soundness under any size needs no shape at
  all: an inner hash of the tree is made of hashes of the tree (`TreeHash`), so
  everything on an accepted climb is one, down to the leaf.
* `ServerProofs`, router. `GuardConsistentHolds` is unconditional: it also covers
  a clock that is set back, which the run leaves out. `NoReplayInWindowHolds`
  assumes a monotone clock (`MaxStepBack = 0`); its invariant says that a
  delivered envelope is still in the queue or older than the window.
  `TableBounded` is unconditional. The quota theorems
  (`QuotaChargesDeliveriesHolds`, `LimitsHoldAlways`) assume a monotone clock
  as well: set back, it re-opens a window whose bucket is gone. Neither
  property is inductive alone. `QuotaInv` joins them: what a sender has spent is
  the number of its deliveries in the present window, no delivery and no bucket
  is of a later time, and no fixed window, past or present, holds more than
  `per_window` deliveries of a sender. The lemmas about `now / window * window` say that
  windows do not overlap, so a delivery changes the count of one window only.
* `SframeProofs`. `TypeCorrect` is unconditional. The others assume
  `KidsTellApart`: an installed epoch is newer than the last one, and either
  the call has fewer epochs than a KID can tell apart or `CacheSize` jumps do
  not get around the modulus. The epoch may then wrap in the KID any number of
  times; two of the counterexamples above show what happens otherwise. Two
  lemmas about the window carry the argument: an accepted counter is refused
  from then on, and a refused counter stays refused whatever is accepted next.
  The invariant adds that cached epochs are strictly ordered and a bounded
  distance apart, so that a KID names one of them, that cached keys are of
  cached epochs, and that an opened frame is of an epoch no newer than the
  newest, so that an evicted epoch never comes back. `FreshFramesOpenHolds` is
  the other direction: a window refuses only what was opened or is too late.
  Its invariant (`WindowsInv`) says that, until something that passed a window
  fails authentication, the highest counter and every bit of a window stand for
  a frame that was opened.
* `ServerProofs`, unlock. The invariant adds to `VerdictIsTrue` that a call still
  probing has fewer shares than the threshold, and that a deleted counter counts
  nothing. `EscalationStays` follows from what `record_wrong` and `try_pin` do
  to one counter, stated as lemmas. `GuessesAreBounded` is about a sum over the
  servers; instead of the sum the invariant counts a set: each server owns
  `WrongPinLimit` tokens, an attempt it compared uses one up, and `guesses`
  never exceeds the tokens used (`GuessInv`).
* `AccountProofs`, guard. `WipeHasCause` and `RecoverySound` are about real time,
  the code about clocks; `ClockBehind` connects them: a clock never shows more
  silence than there really was, and of a lock it never shows a second more gone
  than there was.
* `AccountProofs`, rotation. `PublishedBeforeUse` is not inductive, because a
  rotation carries its new key through three swaps. `StageInv` says what is
  known of a rotation at each stage, and holds for any number of overlapping
  rotations. `RetiredIdentitiesStayOut` needs in addition that the keys of
  rotations under way are fresh and differ (`FreshInv`, from `MadeInv`: the
  hardware never makes a key twice), so that a record can only retire a key that
  no swap still to come brings in. `SerialCoherence` is about rotations one at a
  time. Its invariant says how far the three places have come at each stage (`SerialStage`), that
  the label a rotation was given still holds its key, and `MadeInv` again.
* `ChatGroupProofs`. Three invariants, for any number of devices and texts.
  `EpochPerTextHolds` rests on `AheadInv`: whoever made a commit of a history
  has itself merged at least as many commits, because a device only ever moves
  on. A rekey from the present state is therefore a commit nobody has seen.
  `RatchetInv` adds that whoever sent a ratcheted text has its ratchet state
  registered, which it keeps, so that it never again encrypts without a rekey: a
  plain text after a ratcheted one in its epoch is of another device.
  `ShownOnceHolds` rests on `ShownInv`: a device that was shown a text is past
  it for good; the key of the message is used up, or its epoch is gone. Both
  hold for crossed and lost commits too. `SerialChatInSyncHolds` is about chats
  in which no commit crossed another one and none was lost. `SerialInv` says
  that the unread messages in each stream form a chain: each was encrypted in
  the state the one before it leads to, the first in the device's own state or
  that of its Welcome. All chains end in one state, except that the sender of
  the one encrypted text that is not relayed yet is ahead by it. Repeated
  messages stand behind their originals or are done with, and no key of an
  unread message is used up. Each action keeps this: relaying a text extends
  every chain but the sender's, fetching takes the first link off, and a
  Welcome begins a chain at its end. `PostInv`, the relay's books, is needed
  for repetitions: what is repeated was delivered before.
* `GatewaySessionProofs`, for any number of connections, concurrent sends and
  recipients. What holds whatever answer goes to whatever call is that a message
  id is in one place: an envelope is written once (`AskInv`), its id is in one
  question, then in one acknowledgement on one stream, then with one call, then
  in one result (`AckInv`), and a call that publishes holds one. `HistoryInv` says
  the same of texts and sequence numbers. What holds without other traffic is
  `QuietInv`: on an undisturbed connection at most one send talks at a time and no
  fetch runs beside it, so that the only frame it can find is the answer to what
  it wrote last (`OwnTraffic`), and the recipients before the present one are
  all served (`FanOut`). `OkMeansRelayedHolds` and `HistorySoundHolds` combine them.
* `CloudHistoryProofs`, for any number of servers, syncs, texts and identity
  changes and any threshold. `UnwrapExactHolds` is about an algorithm: the
  search tries combinations of shares in lexicographic order by moving the
  rightmost position that can move. `NextIsNext` shows that nothing lies
  between a combination and the next one, `AllFound` that the search therefore
  meets every combination within its budget (`RetryAssumption`: the budget
  covers all of them, which `ThresholdConfig::new` sees to), and `SearchExact`
  that a threshold of genuine shares, wherever they stand, is one of them.
  `EveryTextOnceHolds` rests on `OnceInv`: the texts published are shared out
  among the history, the running syncs, what was shown and what was lost, and
  no sequence repeats one. `OncePlaces` turns this into the count that the
  invariant of the run states. Both need facts about recursive functions (the
  filter and the search), as `MerkleProofs` does: induction is a lemma about sets of numbers
  (`Induction`, from the library's well-foundedness of `Nat`), and `Recursion`
  shows once that such a function exists and satisfies its equation.

Only model-checked:

* liveness (`UnlockReturns`, `CallsReturn`, `DeadManFires`,
  `HiddenSessionWiped`): fairness is out of the prover's reach.

## Not modelled

* Primitives, key derivation, codecs and bindings have no state that TLC could
  explore. This covers the DKG and signing of the threshold identity, which run
  in one process here, and the header codec of SFrame.
* Servers that the repository does not contain: the endpoints of the share
  servers, the unwrap servers (a test double only) and the gateway. They are
  modelled from how the client uses them.
* Call sessions: the setters overwrite a state field, and the callbacks that
  would call them are not in the repository, so any order would be an
  invention.
* Restarts: `WitnessSigningLedger`, groups, counters and the at-rest history
  live in memory, and the crates leave persistence to the operator.
* Removal of members exists in `umbrella-mls`, but `remove_participant` of the
  facades is a stub; nor does a facade call the rekey timer.
  `retry_with_backoff`, the screenshot tracker and the guards of discovery are used by tests only.
* The post-quantum path of Max Ratchet is a build feature that is off by
  default. Read, not checked: with it every third tag is keyed with the
  PQ-extended secret (`max_ratchet/state.rs`) while
  `decrypt_text_with_fallback` verifies with the classical one; but the facades
  add and join members with the classical provider only, so a hybrid group has
  no second member that could see such a tag.
* The device-transfer handshake is sequential and its steps consume one another
  by Rust ownership; OPRF, sealed sender and padding are stateless.
