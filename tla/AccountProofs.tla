--------------------------- MODULE AccountProofs ---------------------------
(***************************************************************************)
(* The safety properties of an account's guards and of the rotation of its *)
(* identity.                                                               *)
(*                                                                         *)
(* AccountGuard, for any servers, grace periods and time locks: the        *)
(* inductive invariant is GuardIInv, the types, that no server's clock is  *)
(* ahead of real time, and RecoverySound.                                  *)
(*                                                                         *)
(* IdentityRotation, however many rotations overlap, and whatever labels   *)
(* they use: a client adopts only identities whose record is published,    *)
(* and a retired one never comes back.  As long as no two rotations        *)
(* overlap, the records form a chain and the core agrees with its end.     *)
(* PublishedBeforeUse is not inductive: a rotation carries its new key     *)
(* through three swaps.  IInv adds what is known of a rotation at each of  *)
(* its stages.  RetiredStaysOut needs FreshInv: a key that its rotation    *)
(* has not swapped in yet is nowhere else.  SerialRotationsCoherent speaks *)
(* of the moments between rotations only; SerialInv says how far the core  *)
(* has moved at each stage of the one rotation that runs.                  *)
(***************************************************************************)
EXTENDS AccountGuard, IdentityRotation, TLAPS

GuardIInv == GuardTypeOK /\ ClockBehind /\ RecoverySound

\* A new account with its device satisfies the invariant.
LEMMA GuardInitIInv == GuardInit => GuardIInv
<1> SUFFICES ASSUME GuardInit PROVE GuardIInv
  BY Zenon
<1> USE GuardAssumption DEF GuardAssumption, GuardInit, NoRecovery, NoTimer, MaxAge
<1>1. /\ enabled \in [Servers -> BOOLEAN]
      /\ revoked \in [Servers -> BOOLEAN]
      /\ active \in BOOLEAN
      /\ lost \in BOOLEAN
      /\ deletions \subseteq Servers
  BY Zenon
<1>2. recovery \in [Servers -> Recoveries]
  BY DEF Recoveries, States
<1>3. session \in [live : BOOLEAN, timer : NoTimer..WipeGrace]
  OBVIOUS
<1>4. /\ age \in [Servers -> -MaxSetBack..MaxAge]
      /\ setback \in [Servers -> 0..MaxSetBack]
      /\ quiet \in [Servers -> 0..(Grace + 1)]
      /\ waited \in [Servers -> 0..LongLock]
  OBVIOUS
<1>5. \A s \in Servers : /\ age[s] + setback[s] >= 0
                         /\ recovery[s].left <= LongLock + setback[s]
  <2> TAKE s \in Servers
  <2>1. age[s] = 0 /\ setback[s] = 0 /\ recovery[s].left = 0
    BY Zenon
  <2> QED
    BY <2>1
<1>6. GuardTypeOK
  BY <1>1, <1>2, <1>3, <1>4, <1>5, Zenon DEF GuardTypeOK
<1>7. ClockBehind /\ RecoverySound
  BY DEF ClockBehind, RecoverySound
<1> QED
  BY <1>6, <1>7, Zenon DEF GuardIInv

\* Every step of clock, device, servers and recovery keeps the invariant.
LEMMA GuardStepIInv == GuardIInv /\ [GuardNext]_guard_vars => GuardIInv'
<1> SUFFICES ASSUME GuardIInv, [GuardNext]_guard_vars PROVE GuardIInv'
  BY Zenon
<1> USE GuardAssumption DEF GuardAssumption, GuardIInv, MaxAge, NoTimer
<1>1. CASE TimePasses
  <2>1. GuardTypeOK'
    <3>1. /\ age' \in [Servers -> -MaxSetBack..MaxAge]
          /\ quiet' \in [Servers -> 0..(Grace + 1)]
          /\ waited' \in [Servers -> 0..LongLock]
      BY <1>1 DEF GuardTypeOK, TimePasses, Later
    <3>2. recovery' \in [Servers -> Recoveries]
      <4>1. ASSUME NEW s \in Servers PROVE recovery'[s] \in Recoveries
        <5>1. recovery[s] \in Recoveries
          BY Zenon DEF GuardTypeOK
        <5>2. Sooner(recovery[s].left, -MaxSetBack)
                \in -MaxSetBack..(LongLock + MaxSetBack)
          BY <5>1 DEF Recoveries, Sooner
        <5> QED
          BY <1>1, <5>1, <5>2, Zenon DEF TimePasses, Recoveries
      <4>2. recovery' = [s \in Servers |-> recovery'[s]]
        BY <1>1, Zenon DEF TimePasses
      <4> QED
        BY <4>1, <4>2, Zenon
    <3>3. session' \in [live : BOOLEAN, timer : NoTimer..WipeGrace]
      <4>1. /\ session.live \in BOOLEAN
            /\ session.timer \in NoTimer..WipeGrace
        BY Zenon DEF GuardTypeOK
      <4>2. session'.timer \in NoTimer..WipeGrace
        BY <1>1, <4>1 DEF TimePasses, Sooner
      <4>3. session' = [live |-> session.live, timer |-> session'.timer]
        BY <1>1, Zenon DEF TimePasses
      <4> QED
        BY <4>1, <4>2, <4>3
    <3>4. \A s \in Servers : /\ age'[s] + setback'[s] >= 0
                             /\ recovery'[s].left <= LongLock + setback'[s]
      BY <1>1 DEF GuardTypeOK, Recoveries, TimePasses, Later, Sooner
    <3> QED
      BY <1>1, <3>1, <3>2, <3>3, <3>4, Zenon DEF GuardTypeOK, TimePasses
  <2>2. ClockBehind'
    <3> SUFFICES ASSUME NEW s \in Servers
                 PROVE  /\ quiet'[s] <= Grace => age'[s] <= quiet'[s]
                        /\ recovery'[s].state = "Pending"
                             /\ waited'[s] + Second <= recovery'[s].lock =>
                             recovery'[s].left + waited'[s] + Second
                               > recovery'[s].lock
      BY Zenon DEF ClockBehind
    <3>1. recovery[s] \in Recoveries
      BY Zenon DEF GuardTypeOK
    <3>2. quiet'[s] <= Grace => age'[s] <= quiet'[s]
      BY <1>1 DEF GuardTypeOK, ClockBehind, TimePasses, Later
    <3>3. CASE recovery[s].state = "Pending"
      <4>1. /\ recovery'[s].lock = recovery[s].lock
            /\ recovery'[s].left = Sooner(recovery[s].left, -MaxSetBack)
            /\ waited'[s] = Later(waited[s], LongLock)
        BY <1>1, <3>1, <3>3, Zenon DEF TimePasses, Recoveries
      <4>2. waited[s] + Second <= recovery[s].lock =>
              recovery[s].left + waited[s] + Second > recovery[s].lock
        BY <3>3, Zenon DEF ClockBehind
      <4>3. /\ waited[s] \in Nat /\ recovery[s].left \in Int
            /\ recovery[s].lock \in 0..LongLock
        BY <3>1 DEF GuardTypeOK, Recoveries
      <4>4. waited'[s] + Second <= recovery'[s].lock =>
              recovery'[s].left + waited'[s] + Second > recovery'[s].lock
        BY <4>1, <4>2, <4>3 DEF Later, Sooner
      <4> QED
        BY <3>2, <4>4, Zenon
    <3>4. CASE recovery[s].state # "Pending"
      BY <1>1, <3>2, <3>4, Zenon DEF TimePasses
    <3> QED
      BY <3>3, <3>4, Zenon
  <2>3. RecoverySound'
    BY <1>1 DEF GuardTypeOK, Recoveries, ClockBehind, RecoverySound, TimePasses, Later, Sooner
  <2> QED
    BY <2>1, <2>2, <2>3, Zenon
<1>2. ASSUME NEW s \in Servers, ClockSetBack(s) PROVE GuardIInv'
  <2>1. GuardTypeOK'
    BY SMTT(30), <1>2 DEF GuardTypeOK, Recoveries, States, ClockSetBack
  <2>2. ClockBehind'
    BY <1>2 DEF GuardTypeOK, Recoveries, ClockBehind, ClockSetBack
  <2>3. RecoverySound'
    BY <1>2 DEF GuardTypeOK, Recoveries, ClockBehind, RecoverySound, ClockSetBack
  <2> QED
    BY <2>1, <2>2, <2>3, Zenon
<1>3. ASSUME NEW s \in Servers, EnableDeadMan(s) PROVE GuardIInv'
  <2>1. GuardTypeOK'
    BY <1>3 DEF GuardTypeOK, Recoveries, States, EnableDeadMan
  <2>2. ClockBehind'
    BY <1>3 DEF GuardTypeOK, Recoveries, ClockBehind, EnableDeadMan
  <2>3. RecoverySound'
    BY <1>3, Zenon DEF GuardTypeOK, Recoveries, ClockBehind, RecoverySound, EnableDeadMan
  <2> QED
    BY <2>1, <2>2, <2>3, Zenon
<1>4. ASSUME NEW s \in Servers, DisableDeadMan(s) PROVE GuardIInv'
  <2>1. GuardTypeOK'
    BY <1>4, Zenon DEF GuardTypeOK, Recoveries, States, DisableDeadMan
  <2>2. ClockBehind'
    BY <1>4, Zenon DEF GuardTypeOK, Recoveries, ClockBehind, DisableDeadMan
  <2>3. RecoverySound'
    BY <1>4, Zenon DEF GuardTypeOK, Recoveries, ClockBehind, RecoverySound, DisableDeadMan
  <2> QED
    BY <2>1, <2>2, <2>3, Zenon
<1>5. ASSUME NEW s \in Servers, PollDeadMan(s) PROVE GuardIInv'
  <2>1. GuardTypeOK'
    BY <1>5 DEF GuardTypeOK, Recoveries, States, PollDeadMan, Wipe, NoRecovery
  <2>2. ClockBehind'
    BY <1>5, Zenon DEF GuardTypeOK, Recoveries, ClockBehind, PollDeadMan, Wipe, NoRecovery
  <2>3. RecoverySound'
    BY <1>5, Zenon DEF GuardTypeOK, Recoveries, ClockBehind, RecoverySound, PollDeadMan, Wipe, NoRecovery
  <2> QED
    BY <2>1, <2>2, <2>3, Zenon
<1>6. ASSUME NEW s \in Servers, UnrecoverableDelete(s) PROVE GuardIInv'
  <2>1. GuardTypeOK'
    BY <1>6 DEF GuardTypeOK, Recoveries, States, UnrecoverableDelete, Wipe, NoRecovery
  <2>2. ClockBehind'
    BY <1>6, Zenon DEF GuardTypeOK, Recoveries, ClockBehind, UnrecoverableDelete, Wipe, NoRecovery
  <2>3. RecoverySound'
    BY <1>6, Zenon DEF GuardTypeOK, Recoveries, ClockBehind, RecoverySound, UnrecoverableDelete, Wipe, NoRecovery
  <2> QED
    BY <2>1, <2>2, <2>3, Zenon
<1>7. ASSUME NEW s \in Servers, NEW old_pin_valid \in BOOLEAN,
             NEW cut \in 0..(Second - 1), Initiate(s, old_pin_valid, cut)
      PROVE  GuardIInv'
  <2>1. GuardTypeOK'
    BY <1>7 DEF GuardTypeOK, Recoveries, States, Initiate, Delay
  <2>2. ClockBehind'
    BY <1>7 DEF GuardTypeOK, Recoveries, ClockBehind, Initiate, Delay
  <2>3. RecoverySound'
    BY <1>7, Zenon DEF GuardTypeOK, Recoveries, ClockBehind, RecoverySound, Initiate, Delay
  <2> QED
    BY <2>1, <2>2, <2>3, Zenon
<1>8. ASSUME NEW s \in Servers, MarkPushSent(s) PROVE GuardIInv'
  <2>1. GuardTypeOK'
    BY ZenonT(60), <1>8 DEF GuardTypeOK, Recoveries, States, MarkPushSent
  <2>2. ClockBehind'
    BY <1>8 DEF GuardTypeOK, Recoveries, ClockBehind, MarkPushSent
  <2>3. RecoverySound'
    BY <1>8 DEF GuardTypeOK, Recoveries, ClockBehind, RecoverySound, MarkPushSent
  <2> QED
    BY <2>1, <2>2, <2>3, Zenon
<1>9. ASSUME NEW s \in Servers, Cancel(s) PROVE GuardIInv'
  <2>1. GuardTypeOK'
    BY <1>9 DEF GuardTypeOK, Recoveries, States, Cancel, Decided
  <2>2. ClockBehind'
    BY <1>9, Zenon DEF GuardTypeOK, Recoveries, ClockBehind, Cancel, Decided
  <2>3. RecoverySound'
    BY <1>9, Zenon DEF GuardTypeOK, Recoveries, ClockBehind, RecoverySound, Cancel, Decided
  <2> QED
    BY <2>1, <2>2, <2>3, Zenon
<1>10. ASSUME NEW s \in Servers, TryComplete(s) PROVE GuardIInv'
  <2>1. GuardTypeOK'
    BY <1>10 DEF GuardTypeOK, Recoveries, States, TryComplete, CanComplete, Decided
  <2>2. ClockBehind'
    BY <1>10, Zenon DEF GuardTypeOK, Recoveries, ClockBehind, TryComplete, CanComplete, Decided
  <2>3. RecoverySound'
    BY <1>10 DEF GuardTypeOK, Recoveries, ClockBehind, RecoverySound, TryComplete, CanComplete, Decided
  <2> QED
    BY <2>1, <2>2, <2>3, Zenon
<1>11. CASE Unlock
  <2>1. GuardTypeOK'
    BY <1>11 DEF GuardTypeOK, Recoveries, States, Unlock, server_vars
  <2>2. ClockBehind'
    BY <1>11, Zenon DEF GuardTypeOK, Recoveries, ClockBehind, Unlock, server_vars
  <2>3. RecoverySound'
    BY <1>11, Zenon DEF GuardTypeOK, Recoveries, ClockBehind, RecoverySound, Unlock, server_vars
  <2> QED
    BY <2>1, <2>2, <2>3, Zenon
<1>12. CASE Background
  <2>1. GuardTypeOK'
    BY <1>12 DEF GuardTypeOK, Recoveries, States, Background, server_vars
  <2>2. ClockBehind'
    BY <1>12, Zenon DEF GuardTypeOK, Recoveries, ClockBehind, Background, server_vars
  <2>3. RecoverySound'
    BY <1>12, Zenon DEF GuardTypeOK, Recoveries, ClockBehind, RecoverySound, Background, server_vars
  <2> QED
    BY <2>1, <2>2, <2>3, Zenon
<1>13. CASE Foreground
  <2>1. GuardTypeOK'
    BY <1>13 DEF GuardTypeOK, Recoveries, States, Foreground, server_vars
  <2>2. ClockBehind'
    BY <1>13, Zenon DEF GuardTypeOK, Recoveries, ClockBehind, Foreground, server_vars
  <2>3. RecoverySound'
    BY <1>13, Zenon DEF GuardTypeOK, Recoveries, ClockBehind, RecoverySound, Foreground, server_vars
  <2> QED
    BY <2>1, <2>2, <2>3, Zenon
<1>14. CASE WipeNow
  <2>1. GuardTypeOK'
    BY <1>14 DEF GuardTypeOK, Recoveries, States, WipeNow, Wiped, server_vars
  <2>2. ClockBehind'
    BY <1>14, Zenon DEF GuardTypeOK, Recoveries, ClockBehind, WipeNow, Wiped, server_vars
  <2>3. RecoverySound'
    BY <1>14, Zenon DEF GuardTypeOK, Recoveries, ClockBehind, RecoverySound, WipeNow, Wiped, server_vars
  <2> QED
    BY <2>1, <2>2, <2>3, Zenon
<1>15. CASE DeviceLost
  <2>1. GuardTypeOK'
    BY <1>15, Zenon DEF GuardTypeOK, Recoveries, States, DeviceLost, server_vars
  <2>2. ClockBehind'
    BY <1>15, Zenon DEF GuardTypeOK, Recoveries, ClockBehind, DeviceLost, server_vars
  <2>3. RecoverySound'
    BY <1>15, Zenon DEF GuardTypeOK, Recoveries, ClockBehind, RecoverySound, DeviceLost, server_vars
  <2> QED
    BY <2>1, <2>2, <2>3, Zenon
<1>16. ASSUME NEW reached \in SUBSET Servers, HeartbeatTick(reached)
      PROVE  GuardIInv'
  <2>1. GuardTypeOK'
    BY <1>16 DEF GuardTypeOK, Recoveries, States, HeartbeatTick, AfterTick, Wiped
  <2>2. ClockBehind'
    BY <1>16 DEF GuardTypeOK, Recoveries, ClockBehind, HeartbeatTick, AfterTick, Wiped
  <2>3. RecoverySound'
    BY <1>16, Zenon DEF GuardTypeOK, Recoveries, ClockBehind, RecoverySound, HeartbeatTick, AfterTick, Wiped
  <2> QED
    BY <2>1, <2>2, <2>3, Zenon
<1>18. ASSUME NEW on \in BOOLEAN, SetActive(on) PROVE GuardIInv'
  <2>1. GuardTypeOK'
    BY <1>18, Zenon DEF GuardTypeOK, Recoveries, States, SetActive, server_vars
  <2>2. ClockBehind'
    BY <1>18, Zenon DEF ClockBehind, SetActive, server_vars
  <2>3. RecoverySound'
    BY <1>18, Zenon DEF RecoverySound, SetActive, server_vars
  <2> QED
    BY <2>1, <2>2, <2>3, Zenon
<1>17. CASE UNCHANGED guard_vars
  <2>1. GuardTypeOK'
    BY <1>17, Zenon DEF GuardTypeOK, Recoveries, States, guard_vars, server_vars
  <2>2. ClockBehind'
    BY <1>17, Zenon DEF GuardTypeOK, Recoveries, ClockBehind, guard_vars, server_vars
  <2>3. RecoverySound'
    BY <1>17, Zenon DEF GuardTypeOK, Recoveries, ClockBehind, RecoverySound, guard_vars, server_vars
  <2> QED
    BY <2>1, <2>2, <2>3, Zenon
<1> QED
  BY <1>1, <1>2, <1>3, <1>4, <1>5, <1>6, <1>7, <1>8, <1>9, <1>10, <1>11, <1>12, <1>13, <1>14, <1>15, <1>16, <1>17, <1>18, Zenon DEF GuardNext, Tick

\* The types hold in every reachable state, for all constants.
THEOREM GuardTypeCorrect == GuardSpec => []GuardTypeOK
<1>1. GuardIInv => GuardTypeOK
  BY Zenon DEF GuardIInv
<1> QED
  BY GuardInitIInv, GuardStepIInv, <1>1, PTL DEF GuardSpec

\* No server's clock is ahead of real time: has_fired sees at most the silence
\* there was, and try_complete less than a second more than the waiting.
THEOREM ClocksBehind == GuardSpec => []ClockBehind
<1>1. GuardIInv => ClockBehind
  BY Zenon DEF GuardIInv
<1> QED
  BY GuardInitIInv, GuardStepIInv, <1>1, PTL DEF GuardSpec

\* No recovery completes (try_complete) a second or more before its lock is
\* over, and unrecoverable_delete ends what was asked before it.
THEOREM RecoveriesSound == GuardSpec => []RecoverySound
<1>1. GuardIInv => RecoverySound
  BY Zenon DEF GuardIInv
<1> QED
  BY GuardInitIInv, GuardStepIInv, <1>1, PTL DEF GuardSpec

\* Only poll_dead_man revokes without a deletion request, and what it saw on
\* the server's clock was true.
LEMMA StepHasCause == GuardIInv /\ [GuardNext]_guard_vars => WipeUnasked
<1> SUFFICES ASSUME GuardIInv, [GuardNext]_guard_vars, NEW s \in Servers, Fired(s)
             PROVE  enabled[s] /\ quiet[s] > Grace
  BY Zenon DEF WipeUnasked
<1>1. PollDeadMan(s)
  BY Zenon DEF Fired, GuardNext, Tick, guard_vars, server_vars, TimePasses, ClockSetBack,
         EnableDeadMan, DisableDeadMan, PollDeadMan, UnrecoverableDelete, Wipe,
         Initiate, MarkPushSent, Cancel, TryComplete, Unlock, Background,
         Foreground, WipeNow, SetActive, HeartbeatTick, DeviceLost, GuardIInv, GuardTypeOK
<1>2. enabled[s] /\ age[s] > Grace
  BY <1>1, Zenon DEF PollDeadMan, HasFired
<1>3. age[s] \in Int /\ quiet[s] \in Int /\ Grace \in Int
  BY GuardAssumption DEF GuardAssumption, GuardIInv, GuardTypeOK, MaxAge
<1>4. quiet[s] <= Grace => age[s] <= quiet[s]
  BY Zenon DEF GuardIInv, ClockBehind
<1> QED
  BY <1>2, <1>3, <1>4

\* A server wipes unasked only after more than a grace period of silence.
THEOREM WipesHaveCause == GuardSpec => WipeHasCause
BY GuardInitIInv, GuardStepIInv, StepHasCause, PTL DEF GuardSpec, WipeHasCause

-----------------------------------------------------------------------------
\* The rotation of the identity.

\* What rotate_identity_full knows after its pre-flight check, after the
\* hardware rotated, and after the record was accepted.
StageInv ==
  \A r \in Rotations :
    /\ ~At(r, "idle") => rot[r].old_key \in Keys
    /\ rot[r].stage \notin {"idle", "checked"} => rot[r].new_key \in Keys
    /\ rot[r].stage \in {"published", "mls", "keystore"} =>
         Published(rot[r].new_key)

IInv == TypeOK /\ StageInv /\ PublishedBeforeUse

\* The core as new_with_hw_callback leaves it satisfies the invariant.
LEMMA InitIInv == Init => IInv
<1> SUFFICES ASSUME Init PROVE IInv
  BY Zenon
<1> USE RotationAssumption DEF RotationAssumption, Init, Keys, SeedKey, Idle
<1>1. /\ hw \in [Labels -> Keys \cup {0}]
      /\ made \in Keys
      /\ mls_keystore \in Keys \cup {SeedKey}
  OBVIOUS
<1>2. keystore \in Handles /\ hw_identity \in Handles
  BY DEF Handles
<1>3. rot \in [Rotations -> RotationStates]
  BY Zenon DEF RotationStates, Stages
<1>4. log \in Seq(Records)
  BY DEF Records
<1>8. overlapped \in BOOLEAN
  BY Zenon
<1>5. TypeOK
  BY <1>1, <1>2, <1>3, <1>4, <1>8, Zenon DEF TypeOK
<1>6. StageInv
  BY Zenon DEF StageInv, At
<1>7. PublishedBeforeUse
  BY DEF PublishedBeforeUse
<1> QED
  BY <1>5, <1>6, <1>7, Zenon DEF IInv

\* Every step of every rotation keeps the invariant.
LEMMA StepIInv == IInv /\ [Next]_vars => IInv'
<1> SUFFICES ASSUME IInv, [Next]_vars PROVE IInv'
  BY Zenon
<1> USE RotationAssumption DEF RotationAssumption, IInv, At
<1>1. ASSUME NEW r \in Rotations, NEW old \in Labels, NEW new \in Labels,
             PreFlight(r, old, new)
      PROVE  IInv'
  <2>1. TypeOK'
    BY <1>1 DEF TypeOK, PreFlight, RotationStates, Stages, SeedKey
  <2>2. StageInv'
    BY <1>1, Zenon DEF TypeOK, StageInv, Published, PreFlight, SeedKey
  <2>3. PublishedBeforeUse'
    BY <1>1, Zenon DEF PublishedBeforeUse, Published, PreFlight
  <2> QED
    BY <2>1, <2>2, <2>3, Zenon
<1>2. ASSUME NEW r \in Rotations, HwRotateIdentity(r) PROVE IInv'
  <2>1. TypeOK'
    BY <1>2 DEF TypeOK, HwRotateIdentity, RotationStates, Stages, Keys
  <2>2. StageInv'
    BY <1>2 DEF TypeOK, StageInv, Published, HwRotateIdentity, Keys
  <2>3. PublishedBeforeUse'
    BY <1>2, Zenon DEF PublishedBeforeUse, Published, HwRotateIdentity
  <2> QED
    BY <2>1, <2>2, <2>3, Zenon
<1>3. ASSUME NEW r \in Rotations, HwRotateFails(r) PROVE IInv'
  <2>1. TypeOK'
    BY <1>3, Zenon DEF TypeOK, HwRotateFails, RotationStates, Stages, Idle
  <2>2. StageInv'
    BY <1>3, Zenon DEF TypeOK, StageInv, Published, HwRotateFails, Idle
  <2>3. PublishedBeforeUse'
    BY <1>3, Zenon DEF PublishedBeforeUse, Published, HwRotateFails
  <2> QED
    BY <2>1, <2>2, <2>3, Zenon
<1>4. ASSUME NEW r \in Rotations, RotateIdentityPublish(r) PROVE IInv'
  <2>1. CASE mls_keystore # rot[r].new_key /\ RecordVerifies(r)
    <3> DEFINE rec == [old |-> mls_keystore, new |-> rot[r].new_key]
    <3>1. log' = Append(log, rec) /\ rot' = [rot EXCEPT ![r].stage = "published"]
      BY <1>4, <2>1, Zenon DEF RotateIdentityPublish, MoveTo
    <3>2. rec \in Records
      BY <1>4, <2>1, Zenon DEF RotateIdentityPublish, RecordVerifies, StageInv, Records
    <3>3. /\ log \in Seq(Records) /\ log' \in Seq(Records)
          /\ Len(log') = Len(log) + 1 /\ DOMAIN log = 1..Len(log)
          /\ DOMAIN log' = 1..(Len(log) + 1) /\ Len(log) \in Nat
          /\ \A i \in 1..Len(log) : log'[i] = log[i]
          /\ log'[Len(log) + 1] = rec
      BY <3>1, <3>2 DEF TypeOK
    <3>4. \A k : Published(k) => Published(k)'
      BY <3>3 DEF Published
    <3>5. Published(rot[r].new_key)'
      <4>1. rot'[r].new_key = rot[r].new_key
        BY <3>1, Zenon DEF TypeOK, RotationStates
      <4>2. Len(log) + 1 \in DOMAIN log' /\ log'[Len(log) + 1].new = rot[r].new_key
        BY <3>3
      <4> QED
        BY <4>1, <4>2, Zenon DEF Published
    <3> HIDE DEF rec
    <3>6. TypeOK'
      <4>1. rot' \in [Rotations -> RotationStates]
        BY ZenonT(60), <3>1 DEF TypeOK, RotationStates, Stages
      <4>2. UNCHANGED <<hw, made, mls_keystore, keystore, hw_identity, overlapped>>
        BY <1>4, Zenon DEF RotateIdentityPublish
      <4> QED
        BY <3>3, <4>1, <4>2, Zenon DEF TypeOK
    <3>7. StageInv'
      <4> SUFFICES ASSUME NEW q \in Rotations
                   PROVE  /\ ~At(q, "idle")' => rot'[q].old_key \in Keys
                          /\ rot'[q].stage \notin {"idle", "checked"} =>
                               rot'[q].new_key \in Keys
                          /\ rot'[q].stage \in {"published", "mls", "keystore"} =>
                               Published(rot[q].new_key)'
        BY Zenon DEF StageInv
      <4>1. CASE q = r
        <5>1. /\ rot'[r].old_key = rot[r].old_key
              /\ rot'[r].new_key = rot[r].new_key
          BY <3>1, Zenon DEF TypeOK, RotationStates
        <5>2. rot[r].old_key \in Keys /\ rot[r].new_key \in Keys
          BY <1>4, Zenon DEF StageInv, RotateIdentityPublish
        <5> QED
          BY <4>1, <5>1, <5>2, <3>5, Zenon
      <4>2. CASE q # r
        <5>1. rot'[q] = rot[q]
          BY <3>1, <4>2, Zenon DEF TypeOK
        <5>2. Published(rot[q].new_key) => Published(rot[q].new_key)'
          BY <5>1, <3>3 DEF Published
        <5> QED
          BY <5>1, <5>2, Zenon DEF StageInv
      <4> QED
        BY <4>1, <4>2, Zenon
    <3>8. PublishedBeforeUse'
      BY <1>4, <3>4, Zenon DEF PublishedBeforeUse, RotateIdentityPublish
    <3> QED
      BY <3>6, <3>7, <3>8, Zenon
  <2>2. CASE ~(mls_keystore # rot[r].new_key /\ RecordVerifies(r))
    <3>1. rot' = [rot EXCEPT ![r] = Idle]
          /\ UNCHANGED <<hw, made, mls_keystore, keystore, hw_identity, log,
                         overlapped>>
      BY <1>4, <2>2, Zenon DEF RotateIdentityPublish
    <3>2. TypeOK'
      BY <3>1, Zenon DEF TypeOK, RotationStates, Stages, Idle
    <3>3. StageInv'
      BY <3>1, Zenon DEF TypeOK, StageInv, Published, Idle
    <3>4. PublishedBeforeUse'
      BY <3>1, Zenon DEF PublishedBeforeUse, Published
    <3> QED
      BY <3>2, <3>3, <3>4, Zenon
  <2> QED
    BY <2>1, <2>2, Zenon
<1>5. ASSUME NEW r \in Rotations, SwapMlsKeystore(r) PROVE IInv'
  <2>1. TypeOK'
    BY SMTT(30), <1>5 DEF TypeOK, StageInv, SwapMlsKeystore, MoveTo, RotationStates, Stages
  <2>2. StageInv'
    BY <1>5 DEF TypeOK, StageInv, RotationStates, Published, SwapMlsKeystore, MoveTo
  <2>3. PublishedBeforeUse'
    <3>1. Published(rot[r].new_key)
      BY <1>5, Zenon DEF StageInv, SwapMlsKeystore
    <3>2. UNCHANGED <<keystore, hw_identity, log>> /\ mls_keystore' = rot[r].new_key
      BY <1>5, Zenon DEF SwapMlsKeystore
    <3> QED
      BY <3>1, <3>2 DEF PublishedBeforeUse, Published
  <2> QED
    BY <2>1, <2>2, <2>3, Zenon
<1>6. ASSUME NEW r \in Rotations, SwapKeystore(r) PROVE IInv'
  <2>1. TypeOK'
    <3>1. NewHandle(r) \in Handles
      BY <1>6, Zenon DEF TypeOK, StageInv, SwapKeystore, NewHandle, Handles,
                  RotationStates
    <3>2. rot' \in [Rotations -> RotationStates]
      BY ZenonT(60), <1>6 DEF TypeOK, SwapKeystore, MoveTo, RotationStates, Stages
    <3> QED
      BY <1>6, <3>1, <3>2, Zenon DEF TypeOK, SwapKeystore
  <2>2. StageInv'
    BY <1>6 DEF TypeOK, StageInv, RotationStates, Published, SwapKeystore, MoveTo
  <2>3. PublishedBeforeUse'
    BY <1>6 DEF StageInv, PublishedBeforeUse, Published,
                SwapKeystore, NewHandle
  <2> QED
    BY <2>1, <2>2, <2>3, Zenon
<1>7. ASSUME NEW r \in Rotations, SwapHwIdentity(r) PROVE IInv'
  <2>1. TypeOK'
    BY <1>7, Zenon DEF TypeOK, StageInv, SwapHwIdentity, NewHandle, Handles, Idle,
                RotationStates, Stages
  <2>2. StageInv'
    BY <1>7, Zenon DEF TypeOK, StageInv, RotationStates, Published, SwapHwIdentity, Idle
  <2>3. PublishedBeforeUse'
    BY <1>7 DEF StageInv, PublishedBeforeUse, Published,
                SwapHwIdentity, NewHandle
  <2> QED
    BY <2>1, <2>2, <2>3, Zenon
<1>8. ASSUME NEW r \in Rotations, HwRotateHalfFails(r) PROVE IInv'
  <2>1. TypeOK'
    BY <1>8 DEF TypeOK, HwRotateHalfFails, RotationStates, Stages, Idle, Keys
  <2>2. StageInv'
    BY <1>8, Zenon DEF TypeOK, StageInv, Published, HwRotateHalfFails, Idle
  <2>3. PublishedBeforeUse'
    BY <1>8, Zenon DEF PublishedBeforeUse, Published, HwRotateHalfFails
  <2> QED
    BY <2>1, <2>2, <2>3, Zenon
<1>9. CASE UNCHANGED vars
  BY <1>9, Zenon DEF vars, TypeOK, StageInv, PublishedBeforeUse, Published
<1> QED
  BY <1>1, <1>2, <1>3, <1>4, <1>5, <1>6, <1>7, <1>8, <1>9, Zenon DEF Next

\* The types hold in every reachable state, for all constants.
THEOREM TypeCorrect == Spec => []TypeOK
<1>1. IInv => TypeOK
  BY Zenon DEF IInv
<1> QED
  BY InitIInv, StepIInv, <1>1, PTL DEF Spec

\* No place of ClientCore ever names an identity whose rotation record is not
\* in the log, however rotations overlap.
THEOREM UseAfterPublication == Spec => []PublishedBeforeUse
<1>1. IInv => PublishedBeforeUse
  BY Zenon DEF IInv
<1> QED
  BY InitIInv, StepIInv, <1>1, PTL DEF Spec

-----------------------------------------------------------------------------
\* The keys of the core, of the rotations and of the log are among those made,
\* so the key the hardware makes next differs from all of them.
MadeInv ==
  /\ mls_keystore <= made
  /\ \A r \in Rotations : rot[r].new_key <= made /\ rot[r].old_key <= made
  /\ \A i \in DOMAIN log : log[i].old <= made

\* The records name each other's identities.
Chained == \A i \in 2..Len(log) : log[i].old = log[i - 1].new

\* Before the hardware rotates: all places name the identity the log ends
\* with.  mls_keystore may still hold the bootstrap seed's.
Settled ==
  /\ mls_keystore = LastIdentity \/ (log = <<>> /\ mls_keystore = SeedKey)
  /\ keystore = hw_identity
  /\ keystore.key = LastIdentity
  /\ hw[keystore.label] = LastIdentity

\* Where the core stands at each stage of a rotation that runs alone.
SerialStage(r) ==
  /\ rot[r].stage \in {"idle", "checked"} => Settled
  /\ At(r, "checked") =>
       /\ rot[r].old_key = mls_keystore
       /\ hw[rot[r].old] = mls_keystore
       /\ mls_keystore # SeedKey
  /\ At(r, "rotated") =>
       /\ mls_keystore = LastIdentity
       /\ rot[r].old_key = mls_keystore
       /\ rot[r].signer = mls_keystore
       /\ rot[r].new_key # mls_keystore
  /\ rot[r].stage \in {"published", "mls", "keystore"} =>
       /\ log # <<>>
       /\ rot[r].new_key = LastIdentity
  /\ rot[r].stage \in {"rotated", "published", "mls", "keystore"} =>
       hw[rot[r].new] = rot[r].new_key
  /\ rot[r].stage \in {"mls", "keystore"} => mls_keystore = rot[r].new_key
  /\ At(r, "keystore") => keystore = NewHandle(r)

\* At most one rotation runs, and it is as far as its stage says.
SerialInv ==
  ~overlapped =>
    /\ Chained
    /\ AllIdle => Settled
    /\ \A r \in Rotations : ~At(r, "idle") =>
         /\ SerialStage(r)
         /\ \A q \in Rotations : q # r => At(q, "idle")

\* The bootstrapped core is settled.
LEMMA InitSerialInv == Init => MadeInv /\ SerialInv
<1> SUFFICES ASSUME Init PROVE MadeInv /\ SerialInv
  BY Zenon
<1> USE DEF Init, SeedKey, LastIdentity
<1>1. MadeInv
  BY DEF MadeInv, Idle
<1>2. \A r \in Rotations : At(r, "idle")
  BY Zenon DEF At, Idle
<1>3. Settled /\ Chained
  BY RotationAssumption DEF RotationAssumption, Settled, Chained
<1> QED
  BY <1>1, <1>2, <1>3, Zenon DEF SerialInv, AllIdle

\* Keys enter the core only through rotations, and rotations only through the
\* hardware callback.
LEMMA StepMadeInv == IInv /\ MadeInv /\ [Next]_vars => MadeInv'
<1> SUFFICES ASSUME IInv, MadeInv, [Next]_vars PROVE MadeInv'
  BY Zenon
<1> USE RotationAssumption DEF RotationAssumption, MadeInv, Keys, SeedKey, Idle
<1>0. TypeOK
  BY Zenon DEF IInv
<1>t. /\ made \in Nat /\ mls_keystore \in Nat
      /\ \A r \in Rotations : rot[r].new_key \in Nat /\ rot[r].old_key \in Nat
  BY <1>0 DEF TypeOK, RotationStates
<1>l. \A i \in DOMAIN log : log[i].old \in Nat
  <2>1. \A i \in DOMAIN log : log[i] \in Records
    BY <1>0 DEF TypeOK
  <2>2. \A d \in Records : d.old \in Nat
    BY DEF Records
  <2> QED
    BY <2>1, <2>2, Zenon
<1>f. \A r \in Rotations : rot' = [rot EXCEPT ![r] = Idle] =>
        \A q \in Rotations :
          /\ rot'[q].new_key = 0 \/ rot'[q].new_key = rot[q].new_key
          /\ rot'[q].old_key = 0 \/ rot'[q].old_key = rot[q].old_key
  BY <1>0 DEF TypeOK
<1>m. \A r \in Rotations, s \in Stages : MoveTo(r, s) =>
        \A q \in Rotations : /\ rot'[q].new_key = rot[q].new_key
                             /\ rot'[q].old_key = rot[q].old_key
  BY <1>0 DEF TypeOK, MoveTo, RotationStates
<1>1. ASSUME NEW r \in Rotations, NEW old \in Labels, NEW new \in Labels,
             PreFlight(r, old, new)
      PROVE  MadeInv'
  BY <1>0, <1>1, <1>t DEF TypeOK, PreFlight
<1>2. ASSUME NEW r \in Rotations, HwRotateIdentity(r) PROVE MadeInv'
  <2>1. /\ mls_keystore' = mls_keystore /\ log' = log /\ made' = made + 1
        /\ rot'[r].new_key = made + 1 /\ rot'[r].old_key = rot[r].old_key
        /\ \A q \in Rotations : q # r => rot'[q] = rot[q]
    BY <1>0, <1>2, Zenon DEF TypeOK, HwRotateIdentity
  <2>2. \A i \in DOMAIN log' : log'[i].old <= made'
    BY <1>l, <1>t, <2>1
  <2>3. \A q \in Rotations : rot'[q].new_key <= made' /\ rot'[q].old_key <= made'
    BY <1>t, <2>1
  <2>4. mls_keystore' <= made'
    BY <1>t, <2>1
  <2> QED
    BY <2>2, <2>3, <2>4, Zenon
<1>3. ASSUME NEW r \in Rotations, HwRotateFails(r) PROVE MadeInv'
  BY <1>3, <1>t, <1>f DEF HwRotateFails
<1>4. ASSUME NEW r \in Rotations, RotateIdentityPublish(r) PROVE MadeInv'
  <2>1. made' = made /\ mls_keystore' = mls_keystore
    BY <1>4, Zenon DEF RotateIdentityPublish
  <2>2. \A q \in Rotations : rot'[q].new_key <= made /\ rot'[q].old_key <= made
    BY <1>4, <1>t, <1>f, <1>m DEF RotateIdentityPublish, Stages
  <2>3. \A i \in DOMAIN log' : log'[i].old <= made
    <3>1. CASE log' = log
      BY <3>1, Zenon
    <3>2. CASE log' = Append(log, [old |-> mls_keystore, new |-> rot[r].new_key])
      <4>1. log \in Seq(Records)
        BY <1>0, Zenon DEF TypeOK
      <4>2. \A i \in DOMAIN log' : log'[i].old = mls_keystore
                                    \/ (i \in DOMAIN log /\ log'[i] = log[i])
        BY <3>2, <4>1
      <4> QED
        BY <4>2, Zenon
    <3> QED
      BY <1>4, <3>1, <3>2, Zenon DEF RotateIdentityPublish
  <2> QED
    BY <2>1, <2>2, <2>3, Zenon
<1>5. ASSUME NEW r \in Rotations, SwapMlsKeystore(r) PROVE MadeInv'
  BY <1>5, <1>t, <1>m DEF SwapMlsKeystore, Stages
<1>6. ASSUME NEW r \in Rotations, SwapKeystore(r) PROVE MadeInv'
  BY <1>6, <1>t, <1>m DEF SwapKeystore, Stages
<1>7. ASSUME NEW r \in Rotations, SwapHwIdentity(r) PROVE MadeInv'
  BY <1>7, <1>t, <1>f DEF SwapHwIdentity
<1>8. ASSUME NEW r \in Rotations, HwRotateHalfFails(r) PROVE MadeInv'
  <2>1. /\ mls_keystore' = mls_keystore /\ log' = log /\ made' = made + 1
        /\ rot' = [rot EXCEPT ![r] = Idle]
    BY <1>8, Zenon DEF HwRotateHalfFails
  <2>2. \A i \in DOMAIN log' : log'[i].old <= made'
    BY <1>l, <1>t, <2>1
  <2>3. \A q \in Rotations : rot'[q].new_key <= made' /\ rot'[q].old_key <= made'
    BY <1>t, <1>f, <2>1
  <2>4. mls_keystore' <= made'
    BY <1>t, <2>1
  <2> QED
    BY <2>2, <2>3, <2>4, Zenon
<1>9. CASE UNCHANGED vars
  BY <1>9, Zenon DEF vars
<1> QED
  BY <1>1, <1>2, <1>3, <1>4, <1>5, <1>6, <1>7, <1>8, <1>9, Zenon DEF Next

-----------------------------------------------------------------------------
\* A key that its rotation has not swapped in yet is no other rotation's key,
\* no rotation started from it, no record retires it and mls_keystore does not
\* hold it.
FreshInv ==
  \A r \in Rotations :
    rot[r].stage \in {"rotated", "published"} =>
      /\ mls_keystore # rot[r].new_key
      /\ \A i \in DOMAIN log : log[i].old # rot[r].new_key
      /\ \A q \in Rotations : rot[q].old_key # rot[r].new_key
      /\ \A q \in Rotations : q # r => rot[q].new_key # rot[r].new_key

\* No rotation runs and no record is published.
LEMMA InitRetired == Init => FreshInv /\ RetiredStaysOut
<1> SUFFICES ASSUME Init PROVE FreshInv /\ RetiredStaysOut
  BY Zenon
<1>1. \A r \in Rotations : rot[r].stage = "idle"
  BY Zenon DEF Init, Idle
<1>2. DOMAIN log = {}
  BY DEF Init
<1> QED
  BY <1>1, <1>2 DEF FreshInv, RetiredStaysOut

\* A step that leaves mls_keystore and the log alone, swaps nothing and makes
\* no key breaks neither.
LEMMA RetiredQuiet ==
  ASSUME FreshInv, RetiredStaysOut, StageInv,
         UNCHANGED <<mls_keystore, log>>,
         NEW r \in Rotations, ~At(r, "published"),
         \A q \in Rotations : q # r => rot'[q] = rot[q],
         rot'[r].stage \notin {"rotated", "published"},
         rot'[r].old_key \in {0, mls_keystore, rot[r].old_key},
         rot'[r].new_key \in {0, rot[r].new_key},
         0 \notin Keys
  PROVE  FreshInv' /\ RetiredStaysOut'
<1>1. \A q \in Rotations : rot[q].stage \in {"rotated", "published"} =>
        rot[q].new_key # 0
  BY Zenon DEF StageInv
<1>2. FreshInv'
  BY <1>1, SMTT(30) DEF FreshInv
<1>3. RetiredStaysOut'
  BY Zenon DEF RetiredStaysOut, At
<1> QED
  BY <1>2, <1>3, Zenon

\* A fresh key enters mls_keystore by its own rotation's swap only, and what a
\* record retires was swapped in before.
LEMMA StepRetired ==
  IInv /\ MadeInv /\ FreshInv /\ RetiredStaysOut /\ [Next]_vars =>
    FreshInv' /\ RetiredStaysOut'
<1> SUFFICES ASSUME IInv, MadeInv, FreshInv, RetiredStaysOut, [Next]_vars
             PROVE  FreshInv' /\ RetiredStaysOut'
  BY Zenon
<1>0. TypeOK /\ StageInv
  BY Zenon DEF IInv
<1>k. 0 \notin Keys
  BY RotationAssumption DEF RotationAssumption, Keys
<1>1. ASSUME NEW r \in Rotations, NEW old \in Labels, NEW new \in Labels,
             PreFlight(r, old, new)
      PROVE  FreshInv' /\ RetiredStaysOut'
  <2>1. /\ UNCHANGED <<mls_keystore, log>> /\ ~At(r, "published")
        /\ \A q \in Rotations : q # r => rot'[q] = rot[q]
        /\ rot'[r].stage = "checked" /\ rot'[r].old_key = mls_keystore
        /\ rot'[r].new_key = 0
    BY <1>0, <1>1 DEF TypeOK, PreFlight, At
  <2> QED
    BY <1>0, <1>k, <2>1, RetiredQuiet
<1>2. ASSUME NEW r \in Rotations, HwRotateIdentity(r)
      PROVE  FreshInv' /\ RetiredStaysOut'
  <2>1. /\ UNCHANGED <<mls_keystore, log>> /\ ~At(r, "published")
        /\ \A q \in Rotations : q # r => rot'[q] = rot[q]
        /\ rot'[r].old_key = rot[r].old_key /\ rot'[r].new_key = made + 1
    BY <1>0, <1>2 DEF TypeOK, HwRotateIdentity, At
  <2>2. /\ mls_keystore # made + 1
        /\ \A q \in Rotations : /\ rot[q].old_key # made + 1
                                /\ rot[q].new_key # made + 1
    BY <1>0 DEF TypeOK, RotationStates, MadeInv, Keys, SeedKey
  <2>3. \A i \in DOMAIN log : log[i].old # made + 1
    BY <1>0 DEF TypeOK, Records, MadeInv, Keys
  <2>4. FreshInv'
    <3> SUFFICES ASSUME NEW q \in Rotations,
                        rot'[q].stage \in {"rotated", "published"}
                 PROVE  /\ mls_keystore' # rot'[q].new_key
                        /\ \A i \in DOMAIN log' : log'[i].old # rot'[q].new_key
                        /\ \A p \in Rotations :
                             rot'[p].old_key # rot'[q].new_key
                        /\ \A p \in Rotations :
                             p # q => rot'[p].new_key # rot'[q].new_key
      BY Zenon DEF FreshInv
    <3>1. CASE q = r
      BY <2>1, <2>2, <2>3, <3>1, Zenon
    <3>2. CASE q # r
      BY <2>1, <2>2, <3>2, Zenon DEF FreshInv
    <3> QED
      BY <3>1, <3>2, Zenon
  <2>5. RetiredStaysOut'
    BY <2>1, Zenon DEF RetiredStaysOut, At
  <2> QED
    BY <2>4, <2>5, Zenon
<1>3. ASSUME NEW r \in Rotations,
             HwRotateFails(r) \/ HwRotateHalfFails(r) \/ SwapHwIdentity(r)
      PROVE  FreshInv' /\ RetiredStaysOut'
  <2>1. /\ UNCHANGED <<mls_keystore, log>> /\ ~At(r, "published")
        /\ rot' = [rot EXCEPT ![r] = Idle]
    BY <1>3 DEF HwRotateFails, HwRotateHalfFails, SwapHwIdentity, At
  <2>2. /\ \A q \in Rotations : q # r => rot'[q] = rot[q]
        /\ rot'[r].stage = "idle" /\ rot'[r].old_key = 0 /\ rot'[r].new_key = 0
    BY <1>0, <2>1, Zenon DEF TypeOK, Idle
  <2> QED
    BY <1>0, <1>k, <2>1, <2>2, RetiredQuiet
<1>4. ASSUME NEW r \in Rotations, RotateIdentityPublish(r), log' = log
      PROVE  FreshInv' /\ RetiredStaysOut'
  <2>1. /\ UNCHANGED <<mls_keystore, log>> /\ ~At(r, "published")
    BY <1>4 DEF RotateIdentityPublish, At
  <2>2. CASE rot' = [rot EXCEPT ![r] = Idle]
    <3>1. /\ \A q \in Rotations : q # r => rot'[q] = rot[q]
          /\ rot'[r].stage = "idle" /\ rot'[r].old_key = 0 /\ rot'[r].new_key = 0
      BY <1>0, <2>2, Zenon DEF TypeOK, Idle
    <3> QED
      BY <1>0, <1>k, <2>1, <3>1, RetiredQuiet
  <2>3. CASE log' = Append(log, [old |-> mls_keystore, new |-> rot[r].new_key])
    <3>1. log \in Seq(Records)
      BY <1>0, Zenon DEF TypeOK
    <3> QED
      BY <1>4, <2>3, <3>1
  <2> QED
    BY <1>4, <2>2, <2>3, Zenon DEF RotateIdentityPublish
<1>5. ASSUME NEW r \in Rotations, RotateIdentityPublish(r), log' # log
      PROVE  FreshInv' /\ RetiredStaysOut'
  <2>1. /\ log' = Append(log, [old |-> mls_keystore, new |-> rot[r].new_key])
        /\ MoveTo(r, "published") /\ mls_keystore' = mls_keystore
        /\ At(r, "rotated")
    BY <1>5, Zenon DEF RotateIdentityPublish
  <2>2. /\ \A q \in Rotations : q # r => rot'[q] = rot[q]
        /\ rot'[r].stage = "published" /\ rot'[r].old_key = rot[r].old_key
        /\ rot'[r].new_key = rot[r].new_key
    BY <1>0, <2>1, Zenon DEF TypeOK, RotationStates, MoveTo
  <2>3. \A i \in DOMAIN log' :
          \/ log'[i].old = mls_keystore /\ log'[i].new = rot[r].new_key
          \/ i \in DOMAIN log /\ log'[i] = log[i]
    <3>1. log \in Seq(Records)
      BY <1>0, Zenon DEF TypeOK
    <3> QED
      BY <2>1, <3>1
  <2>4. FreshInv'
    <3> SUFFICES ASSUME NEW q \in Rotations,
                        rot'[q].stage \in {"rotated", "published"}
                 PROVE  /\ mls_keystore' # rot'[q].new_key
                        /\ \A i \in DOMAIN log' : log'[i].old # rot'[q].new_key
                        /\ \A p \in Rotations :
                             rot'[p].old_key # rot'[q].new_key
                        /\ \A p \in Rotations :
                             p # q => rot'[p].new_key # rot'[q].new_key
      BY Zenon DEF FreshInv
    <3>1. rot[q].stage \in {"rotated", "published"} /\ rot'[q].new_key = rot[q].new_key
      BY <2>1, <2>2, Zenon DEF At
    <3>2. \A p \in Rotations : /\ rot'[p].new_key = rot[p].new_key
                               /\ rot'[p].old_key = rot[p].old_key
      BY <2>2, Zenon
    <3>3. \A i \in DOMAIN log' : log'[i].old # rot'[q].new_key
      BY <2>3, <3>1, Zenon DEF FreshInv
    <3> QED
      BY <2>1, <3>1, <3>2, <3>3, Zenon DEF FreshInv
  <2>5. RetiredStaysOut'
    <3> SUFFICES ASSUME NEW i \in DOMAIN log', log'[i].old = mls_keystore'
                 PROVE  \E q \in Rotations :
                          /\ rot'[q].stage = "published"
                          /\ rot'[q].new_key = log'[i].new
      BY Zenon DEF RetiredStaysOut, At
    <3>1. CASE log'[i].new = rot[r].new_key
      BY <2>2, <3>1, Zenon
    <3>2. CASE i \in DOMAIN log /\ log'[i] = log[i]
      <4>1. PICK q \in Rotations : At(q, "published") /\ rot[q].new_key = log[i].new
        BY <2>1, <3>2, Zenon DEF RetiredStaysOut
      <4>2. q # r
        BY <2>1, <4>1 DEF At
      <4> QED
        BY <2>2, <3>2, <4>1, <4>2, Zenon DEF At
    <3> QED
      BY <2>3, <3>1, <3>2, Zenon
  <2> QED
    BY <2>4, <2>5, Zenon
<1>6. ASSUME NEW r \in Rotations, SwapMlsKeystore(r)
      PROVE  FreshInv' /\ RetiredStaysOut'
  <2>1. /\ MoveTo(r, "mls") /\ mls_keystore' = rot[r].new_key /\ log' = log
        /\ At(r, "published")
    BY <1>6, Zenon DEF SwapMlsKeystore
  <2>2. /\ \A q \in Rotations : q # r => rot'[q] = rot[q]
        /\ rot'[r].stage = "mls" /\ rot'[r].old_key = rot[r].old_key
        /\ rot'[r].new_key = rot[r].new_key
    BY <1>0, <2>1, Zenon DEF TypeOK, RotationStates, MoveTo
  <2>3. FreshInv'
    <3> SUFFICES ASSUME NEW q \in Rotations,
                        rot'[q].stage \in {"rotated", "published"}
                 PROVE  /\ mls_keystore' # rot'[q].new_key
                        /\ \A i \in DOMAIN log' : log'[i].old # rot'[q].new_key
                        /\ \A p \in Rotations :
                             rot'[p].old_key # rot'[q].new_key
                        /\ \A p \in Rotations :
                             p # q => rot'[p].new_key # rot'[q].new_key
      BY Zenon DEF FreshInv
    <3>1. q # r /\ rot'[q] = rot[q]
      BY <2>2
    <3>2. \A p \in Rotations : /\ rot'[p].new_key = rot[p].new_key
                               /\ rot'[p].old_key = rot[p].old_key
      BY <2>2, Zenon
    <3> QED
      BY <2>1, <3>1, <3>2, Zenon DEF FreshInv
  <2>4. \A i \in DOMAIN log : log[i].old # rot[r].new_key
    BY <2>1, Zenon DEF FreshInv, At
  <2>5. RetiredStaysOut'
    BY <2>1, <2>4, Zenon DEF RetiredStaysOut
  <2> QED
    BY <2>3, <2>5, Zenon
<1>7. ASSUME NEW r \in Rotations, SwapKeystore(r)
      PROVE  FreshInv' /\ RetiredStaysOut'
  <2>1. /\ MoveTo(r, "keystore") /\ UNCHANGED <<mls_keystore, log>>
        /\ ~At(r, "published")
    BY <1>7 DEF SwapKeystore, At
  <2>2. /\ \A q \in Rotations : q # r => rot'[q] = rot[q]
        /\ rot'[r].stage = "keystore" /\ rot'[r].old_key = rot[r].old_key
        /\ rot'[r].new_key = rot[r].new_key
    BY <1>0, <2>1, Zenon DEF TypeOK, RotationStates, MoveTo
  <2> QED
    BY <1>0, <1>k, <2>1, <2>2, RetiredQuiet
<1>8. CASE UNCHANGED vars
  BY <1>8, Zenon DEF vars, FreshInv, RetiredStaysOut, At
<1> QED
  BY <1>1, <1>2, <1>3, <1>4, <1>5, <1>6, <1>7, <1>8, Zenon DEF Next

\* However rotations overlap, fail or lag behind, mls_keystore holds a retired
\* identity only until the rotation that retired it swaps it out
\* (swap_mls_keystore), and never again.
THEOREM RetiredIdentitiesStayOut == Spec => []RetiredStaysOut
<1>1. Init => MadeInv
  BY InitSerialInv, Zenon
<1> QED
  BY InitIInv, StepIInv, <1>1, StepMadeInv, InitRetired, StepRetired, PTL DEF Spec

-----------------------------------------------------------------------------
\* A rotation that starts while another runs sets overlapped; otherwise each
\* step takes the one rotation from its stage to the next.
LEMMA StepSerialInv ==
  IInv /\ MadeInv /\ SerialInv /\ [Next]_vars => SerialInv'
<1> SUFFICES ASSUME IInv, MadeInv, SerialInv, [Next]_vars, ~overlapped'
             PROVE  /\ Chained' /\ (AllIdle => Settled)'
                    /\ \A r \in Rotations : ~At(r, "idle")' =>
                         /\ SerialStage(r)'
                         /\ \A q \in Rotations : q # r => At(q, "idle")'
  BY Zenon DEF SerialInv
<1>0. TypeOK
  BY Zenon DEF IInv
<1>k. LastIdentity \in Keys /\ 0 \notin Keys
  <2>1. log \in Seq(Records) /\ 1 \in Keys /\ 0 \notin Keys
    BY <1>0, RotationAssumption DEF RotationAssumption, TypeOK, Keys
  <2>2. log # <<>> => log[Len(log)] \in Records
    BY <2>1
  <2> QED
    BY <2>1, <2>2, Zenon DEF LastIdentity, Records
<1>1. ASSUME NEW r \in Rotations, NEW old \in Labels, NEW new \in Labels,
             PreFlight(r, old, new)
      PROVE  SerialInv'
  <2>1. /\ ~overlapped /\ AllIdle
        /\ UNCHANGED <<hw, made, mls_keystore, keystore, hw_identity, log>>
        /\ hw[old] # 0 /\ hw[old] = mls_keystore
    BY <1>1, Zenon DEF PreFlight, AllIdle
  <2>2. Chained /\ Settled
    BY <2>1, Zenon DEF SerialInv
  <2>3. /\ rot'[r] = [stage |-> "checked", old |-> old, old_key |-> mls_keystore,
                      new |-> new, new_key |-> 0, signer |-> 0]
        /\ \A q \in Rotations : q # r => rot'[q] = rot[q]
    BY <1>0, <1>1, Zenon DEF TypeOK, PreFlight
  <2>4. Chained' /\ Settled'
    BY <2>1, <2>2, Zenon DEF Chained, Settled, LastIdentity
  <2>5. SerialStage(r)'
    BY <2>1, <2>3, <2>4 DEF SerialStage, At, SeedKey
  <2>6. \A q \in Rotations : q # r => At(q, "idle")'
    BY <2>1, <2>3, Zenon DEF AllIdle, At
  <2> QED
    BY <2>4, <2>5, <2>6, Zenon DEF SerialInv, At
<1>2. ASSUME NEW r \in Rotations, ~At(r, "idle"), ~overlapped,
             \A q \in Rotations : q # r => rot'[q] = rot[q],
             Chained', At(r, "idle")' => Settled', ~At(r, "idle")' => SerialStage(r)'
      PROVE  SerialInv'
  <2>1. \A q \in Rotations : q # r => At(q, "idle")
    BY <1>2, Zenon DEF SerialInv
  <2>2. \A q \in Rotations : q # r => At(q, "idle")'
    BY <1>2, <2>1, Zenon DEF At
  <2> QED
    BY <1>2, <2>2, Zenon DEF SerialInv, AllIdle
<1>3. ASSUME NEW r \in Rotations, HwRotateIdentity(r) PROVE SerialInv'
  <2>1. /\ ~At(r, "idle") /\ ~overlapped /\ At(r, "checked")
        /\ UNCHANGED <<mls_keystore, keystore, hw_identity, log, overlapped>>
    BY <1>3, Zenon DEF HwRotateIdentity, At
  <2>2. Chained /\ SerialStage(r) /\ Settled
    BY <2>1, Zenon DEF SerialInv, SerialStage, At
  <2>3. /\ \A q \in Rotations : q # r => rot'[q] = rot[q]
        /\ rot'[r] = [stage |-> "rotated", old |-> rot[r].old,
                      old_key |-> rot[r].old_key, new |-> rot[r].new,
                      new_key |-> made + 1, signer |-> hw[rot[r].old]]
    BY <1>0, <1>3, Zenon DEF TypeOK, HwRotateIdentity
  <2>4. hw'[rot[r].new] = made + 1
    BY <1>0, <1>3, Zenon DEF TypeOK, HwRotateIdentity, RotationStates
  <2>5. made + 1 # mls_keystore
    BY <1>0 DEF TypeOK, MadeInv, Keys, SeedKey
  <2>6. Chained'
    BY <2>1, <2>2, Zenon DEF Chained
  <2>7. mls_keystore = LastIdentity /\ LastIdentity' = LastIdentity
    BY <2>1, <2>2, Zenon DEF SerialStage, Settled, LastIdentity
  <2>8. SerialStage(r)'
    BY <2>1, <2>2, <2>3, <2>4, <2>5, <2>7 DEF SerialStage, At
  <2> QED
    BY <1>2, <2>1, <2>3, <2>6, <2>8 DEF At
<1>4. ASSUME NEW r \in Rotations, HwRotateFails(r) \/ HwRotateHalfFails(r)
      PROVE  SerialInv'
  <2>1. /\ ~At(r, "idle") /\ ~overlapped /\ At(r, "checked")
        /\ UNCHANGED <<mls_keystore, keystore, hw_identity, log, overlapped>>
        /\ rot' = [rot EXCEPT ![r] = Idle]
    BY <1>4 DEF HwRotateFails, HwRotateHalfFails, At
  <2>2. Chained /\ Settled
    BY <2>1, Zenon DEF SerialInv, SerialStage, At
  <2>3. hw'[keystore.label] = hw[keystore.label]
    BY <1>0, <1>4, <1>k, <2>2, Zenon
       DEF TypeOK, HwRotateFails, HwRotateHalfFails, RotationStates, Handles,
           Settled
  <2>4. Chained' /\ Settled'
    BY <2>1, <2>2, <2>3, Zenon DEF Chained, Settled, LastIdentity
  <2>5. At(r, "idle")' /\ \A q \in Rotations : q # r => rot'[q] = rot[q]
    BY <1>0, <2>1, Zenon DEF TypeOK, At, Idle
  <2> QED
    BY <1>2, <2>1, <2>4, <2>5, Zenon
<1>5. ASSUME NEW r \in Rotations, RotateIdentityPublish(r) PROVE SerialInv'
  <2>1. /\ ~At(r, "idle") /\ ~overlapped /\ At(r, "rotated")
        /\ UNCHANGED <<hw, made, mls_keystore, keystore, hw_identity, overlapped>>
    BY <1>5, Zenon DEF RotateIdentityPublish, At
  <2>2. Chained /\ SerialStage(r)
    BY <2>1, Zenon DEF SerialInv
  <2> DEFINE rec == [old |-> mls_keystore, new |-> rot[r].new_key]
  <2>3. log' = Append(log, rec) /\ MoveTo(r, "published")
    BY <1>5, <2>1, <2>2, Zenon DEF RotateIdentityPublish, RecordVerifies, SerialStage
  <2>4. /\ rec \in Records /\ log \in Seq(Records)
        /\ rec.old = LastIdentity /\ rec.new = rot[r].new_key
    BY <1>0, <1>k, <2>1, <2>2, Zenon
       DEF TypeOK, IInv, StageInv, SerialStage, Records, At
  <2> HIDE DEF rec
  <2>5. /\ Len(log') = Len(log) + 1 /\ Len(log) \in Nat
        /\ \A i \in 1..Len(log) : log'[i] = log[i]
        /\ log'[Len(log) + 1] = rec
        /\ log' # <<>> /\ LastIdentity' = rot[r].new_key
    BY <2>3, <2>4 DEF LastIdentity
  <2>6. Chained'
    <3> SUFFICES ASSUME NEW i \in 2..Len(log')
                 PROVE  log'[i].old = log'[i - 1].new
      BY Zenon DEF Chained
    <3>1. CASE i <= Len(log)
      BY <2>2, <2>5, <3>1 DEF Chained
    <3>2. CASE i = Len(log) + 1
      <4>1. log # <<>> /\ LastIdentity = log[Len(log)].new
        BY <2>4, <3>2 DEF LastIdentity
      <4> QED
        BY <2>4, <2>5, <3>2, <4>1
    <3> QED
      BY <2>5, <3>1, <3>2
  <2>7. /\ rot'[r].stage = "published" /\ rot'[r].new = rot[r].new
        /\ rot'[r].new_key = rot[r].new_key
        /\ \A q \in Rotations : q # r => rot'[q] = rot[q]
    BY <1>0, <2>3, Zenon DEF TypeOK, MoveTo, RotationStates
  <2>8. SerialStage(r)'
    BY <2>1, <2>2, <2>5, <2>7, Zenon DEF SerialStage, At
  <2> QED
    BY <1>2, <2>1, <2>6, <2>7, <2>8, Zenon DEF At
<1>6. ASSUME NEW r \in Rotations, SwapMlsKeystore(r) \/ SwapKeystore(r)
      PROVE  SerialInv'
  <2>1. /\ ~At(r, "idle") /\ ~overlapped
        /\ UNCHANGED <<hw, made, hw_identity, log, overlapped>>
    BY <1>6 DEF SwapMlsKeystore, SwapKeystore, At
  <2>2. Chained /\ SerialStage(r)
    BY <2>1, Zenon DEF SerialInv
  <2>3. /\ \A q \in Rotations : q # r => rot'[q] = rot[q]
        /\ rot'[r].new = rot[r].new /\ rot'[r].new_key = rot[r].new_key
        /\ rot'[r].stage \in {"mls", "keystore"}
    BY <1>0, <1>6
       DEF TypeOK, SwapMlsKeystore, SwapKeystore, MoveTo, RotationStates
  <2>4. mls_keystore' = rot[r].new_key
    BY <1>6, <2>2, Zenon DEF SwapMlsKeystore, SwapKeystore, SerialStage, At
  <2>5. rot'[r].stage = "keystore" => keystore' = NewHandle(r)'
    BY <1>0, <1>6, <2>3
       DEF TypeOK, RotationStates, SwapMlsKeystore, SwapKeystore, MoveTo, NewHandle
  <2>6. LastIdentity' = LastIdentity /\ Chained'
    BY <2>1, <2>2, Zenon DEF LastIdentity, Chained
  <2>7. SerialStage(r)'
    BY <1>6, <2>1, <2>2, <2>3, <2>4, <2>5, <2>6, Zenon
       DEF SerialStage, At, SwapMlsKeystore, SwapKeystore
  <2> QED
    BY <1>2, <2>1, <2>3, <2>6, <2>7, Zenon DEF At
<1>7. ASSUME NEW r \in Rotations, SwapHwIdentity(r) PROVE SerialInv'
  <2>1. /\ ~At(r, "idle") /\ ~overlapped /\ At(r, "keystore")
        /\ UNCHANGED <<hw, made, mls_keystore, keystore, log, overlapped>>
        /\ hw_identity' = NewHandle(r) /\ rot' = [rot EXCEPT ![r] = Idle]
    BY <1>7, Zenon DEF SwapHwIdentity, At
  <2>2. Chained /\ SerialStage(r)
    BY <2>1, Zenon DEF SerialInv
  <2>3. Chained' /\ Settled'
    BY <2>1, <2>2
       DEF Chained, SerialStage, Settled, NewHandle, LastIdentity, At
  <2>4. At(r, "idle")' /\ \A q \in Rotations : q # r => rot'[q] = rot[q]
    BY <1>0, <2>1, Zenon DEF TypeOK, At, Idle
  <2> QED
    BY <1>2, <2>1, <2>3, <2>4, Zenon
<1>8. ASSUME UNCHANGED vars PROVE SerialInv'
  BY <1>8, Zenon DEF vars, SerialInv, Chained, AllIdle, Settled, SerialStage, At,
              NewHandle, LastIdentity
<1>9. SerialInv'
  BY <1>1, <1>3, <1>4, <1>5, <1>6, <1>7, <1>8, Zenon DEF Next
<1> QED
  BY <1>9, Zenon DEF SerialInv

\* As long as no two rotations have overlapped, the published records form a
\* chain, and between rotations mls_keystore, keystore and hw_identity_state
\* name the identity at its end under a label that holds it; failed and
\* half-failed hardware calls and reused labels change nothing of that.
THEOREM SerialCoherence == Spec => []SerialRotationsCoherent
<1>1. IInv /\ SerialInv => SerialRotationsCoherent
  BY Zenon DEF SerialInv, Chained, Settled, SerialRotationsCoherent
<1> QED
  BY InitIInv, StepIInv, InitSerialInv, StepMadeInv, StepSerialInv, <1>1, PTL
     DEF Spec
=============================================================================
