---------------------------- MODULE AccountGuard ----------------------------
(***************************************************************************)
(* What guards an account when its owner is away: the dead-man switch and  *)
(* the time-locked recovery of every share server                          *)
(* (crates/umbrella-threshold-identity/src/dead_man.rs, time_lock.rs,      *)
(* account_state.rs), and the wiping of the unlocked session on the device *)
(* that sends the heartbeats (crates/umbrella-client/src/lifecycle.rs).    *)
(*                                                                         *)
(* A heartbeat reaches any subset of the servers.  Each server reads its   *)
(* own clock, which may be set back but is not set forward.  The endpoints *)
(* that call these functions are not in the repository; requests of the    *)
(* owner stop when the device is lost.                                     *)
(*                                                                         *)
(* Abstractions.  Times are kept relative to the clock that reads them: a  *)
(* heartbeat by its age, a time lock by what is left of it.  Ages and      *)
(* overdue locks are capped where they are no longer told apart, so time   *)
(* itself is unbounded.  Time is finer than the seconds in which a time    *)
(* lock is kept: a request loses the fraction of the second it is made in. *)
(* Wiping PIN hash, share and session secrets is one flag each; the counts *)
(* kept for diagnostics (ticks_sent, last_heartbeat_at of the device) are  *)
(* left out.                                                               *)
(***************************************************************************)
EXTENDS Integers

CONSTANTS
  Servers,
  Grace,        \* DeadManState::grace
  LongLock,     \* RECOVERY_TIME_LOCK_SECS
  ShortLock,    \* RECOVERY_TIME_LOCK_ACCELERATED_SECS
  Second,       \* units of time in the second to which as_secs truncates
  WipeGrace,    \* background_grace of SessionState::on_event
  MaxSetBack    \* bound on how often a server's clock is set back

ASSUME GuardAssumption ==
  /\ Grace \in Nat /\ MaxSetBack \in Nat /\ WipeGrace \in Nat
  /\ Second \in Nat \ {0}
  /\ LongLock \in Nat /\ ShortLock \in Second..LongLock

VARIABLES
  enabled,    \* DeadManState::enabled of every server
  age,        \* the server's clock minus last_heartbeat
  revoked,    \* AccountState::revoked
  recovery,   \* AccountState::recovery
  session,    \* the device's SessionState: live, time to background_wipe_at
  active,     \* HeartbeatScheduler::active of the device
  lost,       \* the device is gone for good
  setback,    \* times the server's clock was set back
  quiet,      \* history variable: real time since heartbeat or enabling
  waited,     \* history variable: real time since the recovery was initiated
  deletions   \* history variable: servers that were sent a deletion

server_vars == <<enabled, age, revoked, recovery, setback, quiet, waited,
                 deletions>>

guard_vars == <<server_vars, session, active, lost>>

States == {"None", "Pending", "Cancelled", "Completed"}

\* left is meaningful while the request is pending.  late is history: the
\* request was made after the deletion of the account.
NoRecovery == [state |-> "None", left |-> 0, lock |-> 0, push_sent |-> FALSE,
               late |-> FALSE]

NoTimer == -1

MaxAge == Grace + 1 + MaxSetBack

-----------------------------------------------------------------------------
\* AccountState::new, SessionState::new, HeartbeatScheduler::new
GuardInit ==
  /\ enabled = [s \in Servers |-> FALSE]
  /\ age = [s \in Servers |-> 0]
  /\ revoked = [s \in Servers |-> FALSE]
  /\ recovery = [s \in Servers |-> NoRecovery]
  /\ session = [live |-> TRUE, timer |-> NoTimer]
  /\ active = FALSE
  /\ lost = FALSE
  /\ setback = [s \in Servers |-> 0]
  /\ quiet = [s \in Servers |-> 0]
  /\ waited = [s \in Servers |-> 0]
  /\ deletions = {}

Later(n, cap) == IF n < cap THEN n + 1 ELSE n

Sooner(n, floor) == IF n > floor THEN n - 1 ELSE n

TimePasses ==
  /\ age' = [s \in Servers |-> Later(age[s], MaxAge)]
  /\ quiet' = [s \in Servers |-> Later(quiet[s], Grace + 1)]
  /\ recovery' = [s \in Servers |->
       IF recovery[s].state = "Pending"
       THEN [recovery[s] EXCEPT !.left = Sooner(recovery[s].left, -MaxSetBack)]
       ELSE recovery[s]]
  /\ waited' = [s \in Servers |-> Later(waited[s], LongLock)]
  /\ session' = [live  |-> session.live,
                 timer |-> IF session.timer = NoTimer THEN NoTimer
                           ELSE Sooner(session.timer, 0)]
  /\ UNCHANGED <<enabled, revoked, active, lost, setback, deletions>>

\* A server's clock is set back by one unit.
ClockSetBack(s) ==
  /\ setback[s] < MaxSetBack
  /\ setback' = [setback EXCEPT ![s] = @ + 1]
  /\ age' = [age EXCEPT ![s] = @ - 1]
  /\ recovery' = IF recovery[s].state = "Pending"
                 THEN [recovery EXCEPT ![s].left = @ + 1] ELSE recovery
  /\ UNCHANGED <<enabled, revoked, session, active, lost, quiet, waited,
                 deletions>>

-----------------------------------------------------------------------------
\* DeadManState::enable
EnableDeadMan(s) ==
  /\ ~lost
  /\ enabled' = [enabled EXCEPT ![s] = TRUE]
  /\ age' = [age EXCEPT ![s] = 0]
  /\ quiet' = [quiet EXCEPT ![s] = 0]
  /\ UNCHANGED <<revoked, recovery, session, active, lost, setback, waited, deletions>>

\* DeadManState::disable
DisableDeadMan(s) ==
  /\ ~lost
  /\ enabled' = [enabled EXCEPT ![s] = FALSE]
  /\ UNCHANGED <<age, revoked, recovery, session, active, lost, setback, quiet, waited,
                 deletions>>

\* Mutant: a heartbeat from the future counts as silence.
HasFired_SkewFires(s) == enabled[s] /\ (age[s] > Grace \/ age[s] < 0)

\* DeadManState::has_fired; a heartbeat from the future is no silence.
HasFired(s) == enabled[s] /\ age[s] > Grace

\* Mutant: a pending request survives the deletion.
Wipe_KeepsRecovery(s) ==
  /\ revoked' = [revoked EXCEPT ![s] = TRUE]
  /\ UNCHANGED recovery

\* What AccountState::unrecoverable_delete changes.
Wipe(s) ==
  /\ revoked' = [revoked EXCEPT ![s] = TRUE]
  /\ recovery' = [recovery EXCEPT ![s] = NoRecovery]

\* Mutant: an account under recovery is left alone.
PollDeadMan_SkipsRecovery(s) ==
  /\ HasFired(s) /\ ~revoked[s] /\ recovery[s].state # "Pending"
  /\ Wipe(s)
  /\ UNCHANGED <<enabled, age, session, active, lost, setback, quiet, waited,
                 deletions>>

\* AccountState::poll_dead_man, run periodically
PollDeadMan(s) ==
  /\ HasFired(s) /\ ~revoked[s]
  /\ Wipe(s)
  /\ UNCHANGED <<enabled, age, session, active, lost, setback, quiet, waited,
                 deletions>>

\* UNRECOVERABLE_DELETE reaches one of the servers.
UnrecoverableDelete(s) ==
  /\ Wipe(s)
  /\ deletions' = deletions \cup {s}
  /\ UNCHANGED <<enabled, age, session, active, lost, setback, quiet, waited>>

-----------------------------------------------------------------------------
\* The lock RecoveryRequest::initiate sets: an old PIN shortens it.
Delay(old_pin_valid) == IF old_pin_valid THEN ShortLock ELSE LongLock

\* RecoveryRequest::initiate, stored in AccountState::recovery in place of an
\* earlier request.  unlock_at counts from the second the request falls in, of
\* which a part (cut) is over.
Initiate(s, old_pin_valid, cut) ==
  /\ recovery' = [recovery EXCEPT ![s] =
       [state |-> "Pending", left |-> Delay(old_pin_valid) - cut,
        lock |-> Delay(old_pin_valid), push_sent |-> FALSE,
        late |-> revoked[s]]]
  /\ waited' = [waited EXCEPT ![s] = 0]
  /\ UNCHANGED <<enabled, age, revoked, session, active, lost, setback, quiet,
                 deletions>>

\* RecoveryRequest::mark_push_sent
MarkPushSent(s) ==
  /\ recovery[s].state = "Pending"
  /\ recovery' = [recovery EXCEPT ![s].push_sent = TRUE]
  /\ UNCHANGED <<enabled, age, revoked, session, active, lost, setback, quiet, waited,
                 deletions>>

\* The request is no longer pending.
Decided(s, state) ==
  [recovery EXCEPT ![s] =
     [state |-> state, left |-> 0, lock |-> recovery[s].lock,
      push_sent |-> FALSE, late |-> recovery[s].late]]

\* RecoveryRequest::cancel by the primary device; on any other state it is an
\* error.
Cancel(s) ==
  /\ ~lost
  /\ recovery[s].state = "Pending"
  /\ recovery' = Decided(s, "Cancelled")
  /\ UNCHANGED <<enabled, age, revoked, session, active, lost, setback, quiet, waited,
                 deletions>>

\* try_complete finds the time lock elapsed: unlock_at is a whole second, so
\* truncating the present time to seconds decides as the exact time would.
CanComplete(s) == recovery[s].state = "Pending" /\ recovery[s].left <= 0

\* RecoveryRequest::try_complete
TryComplete(s) ==
  /\ CanComplete(s)
  /\ recovery' = Decided(s, "Completed")
  /\ UNCHANGED <<enabled, age, revoked, session, active, lost, setback, quiet, waited,
                 deletions>>

-----------------------------------------------------------------------------
\* SessionState::wipe
Wiped == [live |-> FALSE, timer |-> NoTimer]

\* SessionState::new after an unlock
Unlock ==
  /\ ~lost
  /\ session' = [live |-> TRUE, timer |-> NoTimer]
  /\ UNCHANGED <<server_vars, active, lost>>

\* on_event(Background): every such event starts the timer anew.
Background ==
  /\ ~lost
  /\ session' = [live |-> session.live, timer |-> WipeGrace]
  /\ UNCHANGED <<server_vars, active, lost>>

\* on_event(Foreground)
Foreground ==
  /\ ~lost
  /\ session' = [live |-> session.live, timer |-> NoTimer]
  /\ UNCHANGED <<server_vars, active, lost>>

\* on_event(Inactive), on_event(ScreenLocked), on_event(Debugger)
WipeNow ==
  /\ ~lost
  /\ session' = Wiped
  /\ UNCHANGED <<server_vars, active, lost>>

\* Mutant: a tick only sends the heartbeat.
AfterTick_NoWipe == session

\* on_event(HeartbeatTick): a background timer that has run out wipes.
AfterTick == IF session.timer = 0 THEN Wiped ELSE session

\* HeartbeatScheduler::start, HeartbeatScheduler::stop
SetActive(on) ==
  /\ ~lost
  /\ active' = on
  /\ UNCHANGED <<server_vars, session, lost>>

\* A tick of the running scheduler, whose heartbeat reaches some of the
\* servers: AccountState::record_heartbeat there.
HeartbeatTick(reached) ==
  /\ ~lost /\ active
  /\ session' = AfterTick
  /\ age' = [s \in Servers |-> IF s \in reached THEN 0 ELSE age[s]]
  /\ quiet' = [s \in Servers |-> IF s \in reached THEN 0 ELSE quiet[s]]
  /\ UNCHANGED <<enabled, revoked, recovery, active, lost, setback, waited,
                 deletions>>

DeviceLost ==
  /\ ~lost
  /\ lost' = TRUE
  /\ UNCHANGED <<server_vars, session, active>>

Tick == \E reached \in SUBSET Servers : HeartbeatTick(reached)

GuardNext ==
  \/ TimePasses
  \/ \E s \in Servers :
       \/ ClockSetBack(s)
       \/ EnableDeadMan(s) \/ DisableDeadMan(s) \/ PollDeadMan(s)
       \/ UnrecoverableDelete(s)
       \/ \E old_pin_valid \in BOOLEAN, cut \in 0..(Second - 1) :
            Initiate(s, old_pin_valid, cut)
       \/ MarkPushSent(s) \/ Cancel(s) \/ TryComplete(s)
  \/ Unlock \/ Background \/ Foreground \/ WipeNow
  \/ \E on \in BOOLEAN : SetActive(on)
  \/ Tick
  \/ DeviceLost

GuardSpec == GuardInit /\ [][GuardNext]_guard_vars

\* Time goes on, a scheduler that stays active ticks until the device is lost,
\* and every server runs its periodic check.
GuardFairSpec ==
  /\ GuardSpec
  /\ WF_guard_vars(TimePasses)
  /\ WF_guard_vars(Tick)
  /\ \A s \in Servers : WF_guard_vars(PollDeadMan(s))

-----------------------------------------------------------------------------
Recoveries ==
  [state : States, left : -MaxSetBack..(LongLock + MaxSetBack),
   lock : 0..LongLock, push_sent : BOOLEAN, late : BOOLEAN]

GuardTypeOK ==
  /\ enabled \in [Servers -> BOOLEAN]
  /\ age \in [Servers -> -MaxSetBack..MaxAge]
  /\ revoked \in [Servers -> BOOLEAN]
  /\ recovery \in [Servers -> Recoveries]
  /\ session \in [live : BOOLEAN, timer : NoTimer..WipeGrace]
  /\ active \in BOOLEAN
  /\ lost \in BOOLEAN
  /\ setback \in [Servers -> 0..MaxSetBack]
  /\ quiet \in [Servers -> 0..(Grace + 1)]
  /\ waited \in [Servers -> 0..LongLock]
  /\ deletions \subseteq Servers
  /\ \A s \in Servers : /\ age[s] + setback[s] >= 0
                        /\ recovery[s].left <= LongLock + setback[s]

\* A server's clock never sees more silence than there was since the last
\* heartbeat or enabling, and of a time lock never a second more gone than
\* really is: what has_fired and try_complete compare is safe to act on.
ClockBehind ==
  \A s \in Servers :
    /\ quiet[s] <= Grace => age[s] <= quiet[s]
    /\ recovery[s].state = "Pending" /\ waited[s] + Second <= recovery[s].lock =>
         recovery[s].left + waited[s] + Second > recovery[s].lock

Fired(s) == ~revoked[s] /\ revoked'[s] /\ s \notin deletions'

WipeUnasked ==
  \A s \in Servers : Fired(s) => enabled[s] /\ quiet[s] > Grace

\* A server wipes a share unasked (poll_dead_man) only while its switch is on
\* and after more than the grace period of real time without a heartbeat:
\* neither enabling the switch after a long silence nor a clock that is set
\* back wipes an account that is in use.
WipeHasCause == [][WipeUnasked]_guard_vars

\* A recovery that try_complete let through has waited its lock of real time
\* but for the fraction of a second that initiate cuts off, whatever the clock
\* did and whatever request it replaced; and what was asked before the account
\* was deleted is not pending or completed after it.
RecoverySound ==
  \A s \in Servers :
    /\ recovery[s].state = "Completed" => waited[s] + Second > recovery[s].lock
    /\ revoked[s] /\ recovery[s].state # "None" => recovery[s].late

\* An account whose device is gone is wiped on every server whose switch is
\* on, also while a recovery is pending there (poll_dead_man).
DeadManFires == \A s \in Servers : (lost /\ enabled[s]) ~> revoked[s]

\* The app of a live session is in the background and the device is at hand.
Hidden == session.live /\ session.timer # NoTimer /\ ~lost

\* A live session stays in the background under a running scheduler for ever
\* only if Background events keep coming, each of which starts the timer anew
\* (on_event with Background and HeartbeatTick): foregrounds, unlocks, stops
\* and starts of the scheduler in between do not keep it from being wiped.
HiddenSessionWiped ==
  <>[](Hidden /\ active) => []<><<Background>>_guard_vars

\* The same without a word of the scheduler, which ticks in the foreground
\* only according to the comment of lifecycle.rs: the timer of on_event then
\* wipes nothing.
BackgroundWipes == <>[]Hidden => []<><<Background>>_guard_vars
=============================================================================
