----------------------------- MODULE PinUnlock -----------------------------
(***************************************************************************)
(* Daily unlock: devices of one account probe the share servers one after  *)
(* another until Threshold of them answer with a share                     *)
(* (client/src/keystore/distributed_identity_client.rs).                   *)
(*                                                                         *)
(* The servers are behind the trait ServerUnwrapClient; as its comment     *)
(* says, a server verifies the PIN itself, which is AccountState::try_pin. *)
(* A request or its answer may be lost, and other devices, word entries    *)
(* and deletions come in between two probes.                               *)
(***************************************************************************)
EXTENDS AttemptCounter, FiniteSets

CONSTANTS
    Devices,
    NServers,    \* 5
    Threshold    \* 3

ASSUME ClusterAssumption ==
    NServers \in Nat /\ Threshold \in 1..NServers

Servers == 1..NServers

VARIABLES
    counter,    \* server -> AttemptCounter of the account
    revoked,    \* server -> account wiped
    unlock,     \* device -> its unlock_with_pin call
    wrongRow,   \* history: calls that returned WrongPin since the last unlock
                \* or correct words, counted up to WrongPinLimit
    guesses     \* history: wrong PINs compared by servers since any of them
                \* last accepted a PIN or words

pin_vars == <<counter, revoked, unlock, wrongRow, guesses>>

Results == {"Unlocked", "WrongPin", "Network"}

\* The server asked next (1 when the call has returned) and the number of
\* shares got: each server is asked once, so they are of different servers.
Calls == [state : Results \cup {"probing"}, right : BOOLEAN,
          next : Servers, shares : 0..Threshold]

PinInit ==
    /\ counter = [s \in Servers |-> FreshCounter]
    /\ revoked = [s \in Servers |-> FALSE]
    /\ unlock = [d \in Devices |-> [state |-> "Network", right |-> FALSE,
                                    next |-> 1, shares |-> 0]]
    /\ wrongRow = 0
    /\ guesses = 0

Return(call, result, n) ==
    [state |-> result, right |-> call.right, next |-> 1, shares |-> n]
AskNext(call, n) ==
    [state |-> call.state, right |-> call.right, next |-> call.next + 1, shares |-> n]

\* Mutant: a call without a share asks the same server again.
ContinueAsksAgain(call, n) ==
    IF n >= Threshold THEN Return(call, "Unlocked", n)
    ELSE IF n = call.shares THEN call
    ELSE IF call.next = NServers THEN Return(call, "Network", n)
    ELSE AskNext(call, n)

(* The loop after a server answered without WrongPin: stop with enough
   shares or without servers left, else go on to the next one. *)
Continue(call, n) ==
    IF n >= Threshold THEN Return(call, "Unlocked", n)
    ELSE IF call.next = NServers THEN Return(call, "Network", n)
    ELSE AskNext(call, n)

Start(d, right) ==
    /\ unlock[d].state # "probing"
    /\ unlock' = [unlock EXCEPT ![d] = [state |-> "probing", right |-> right,
                                        next |-> 1, shares |-> 0]]
    /\ UNCHANGED <<counter, revoked, wrongRow, guesses>>

Right(d, s) == unlock[d].right /\ ~revoked[s]    \* a wiped hash matches no PIN

(* What one PIN comparison does to the server and the history. *)
Compare(d, s) ==
    LET answer == PinAnswer(counter[s], revoked[s], Right(d, s))
    IN /\ counter' = [counter EXCEPT ![s] = AfterPin(@, revoked[s], Right(d, s))]
       /\ guesses' = CASE answer = "Ok" -> 0
                       [] answer = "WrongPin" -> guesses + 1
                       [] OTHER -> guesses
       /\ UNCHANGED revoked

(* One round of the loop with the answer delivered. *)
Probe(d) ==
    LET s == unlock[d].next
        answer == PinAnswer(counter[s], revoked[s], Right(d, s))
    IN /\ unlock[d].state = "probing"
       /\ Compare(d, s)
       /\ unlock' = [unlock EXCEPT ![d] =
            CASE answer = "Ok" -> Continue(@, @.shares + 1)
              [] answer = "Refused" -> Continue(@, @.shares)
              [] answer = "WrongPin" -> Return(@, "WrongPin", @.shares)]
       /\ wrongRow' = CASE unlock'[d].state = "Unlocked" -> 0
                        [] unlock'[d].state = "WrongPin" /\ wrongRow < WrongPinLimit -> wrongRow + 1
                        [] OTHER -> wrongRow

(* The server compared the PIN but its answer was lost. *)
ProbeAnswerLost(d) ==
    /\ unlock[d].state = "probing"
    /\ Compare(d, unlock[d].next)
    /\ unlock' = [unlock EXCEPT ![d] = Continue(@, @.shares)]
    /\ UNCHANGED wrongRow

(* The server was not reached. *)
ProbeUnreachable(d) ==
    /\ unlock[d].state = "probing"
    /\ unlock' = [unlock EXCEPT ![d] = Continue(@, @.shares)]
    /\ UNCHANGED <<counter, revoked, wrongRow, guesses>>

(* Words are entered at a server: check_can_attempt, then reset_to_pin or
   record_wrong, as the comments on those methods prescribe to the caller. *)
EnterWords(s, level, right) ==
    /\ ~revoked[s]
    /\ CanAttempt(counter[s], level)
    /\ counter' = [counter EXCEPT ![s] = IF right THEN FreshCounter ELSE RecordWrong(@)]
    /\ wrongRow' = IF right THEN 0 ELSE wrongRow
    /\ guesses' = IF right THEN 0 ELSE guesses
    /\ UNCHANGED <<revoked, unlock>>

(* unrecoverable_delete reaches one server. *)
UnrecoverableDelete(s) ==
    /\ revoked' = [revoked EXCEPT ![s] = TRUE]
    /\ counter' = [counter EXCEPT ![s] = DeletedCounter]
    /\ UNCHANGED <<unlock, wrongRow, guesses>>

PinNext ==
    \/ \E d \in Devices, right \in BOOLEAN : Start(d, right)
    \/ \E d \in Devices : Probe(d) \/ ProbeAnswerLost(d) \/ ProbeUnreachable(d)
    \/ \E s \in Servers, level \in WordLevels, right \in BOOLEAN :
          EnterWords(s, level, right)
    \/ \E s \in Servers : UnrecoverableDelete(s)

PinSpec == PinInit /\ [][PinNext]_pin_vars

(* Each network call returns, with an answer or with an error. *)
PinFairness == \A d \in Devices :
    WF_pin_vars(Probe(d) \/ ProbeAnswerLost(d) \/ ProbeUnreachable(d))
PinFairSpec == PinSpec /\ PinFairness

-----------------------------------------------------------------------------
PinTypeOK ==
    /\ counter \in [Servers -> Counters]
    /\ revoked \in [Servers -> BOOLEAN]
    /\ unlock \in [Devices -> Calls]
    /\ wrongRow \in 0..WrongPinLimit /\ guesses \in Nat

(* unlock_with_pin tells the truth about the PIN although it takes the word
   of a single server: WrongPin only for a wrong PIN, and shares only for the
   right one, also when servers escalate or are wiped in between. *)
VerdictIsTrue ==
    \A d \in Devices :
        /\ unlock[d].state = "WrongPin" => ~unlock[d].right
        /\ unlock[d].shares > 0 => unlock[d].right

(* No PIN entry, not even the right one, brings an escalated or deleted
   counter of any server back: only words do, and nothing revives Deleted. *)
PinStepKeepsEscalation ==
    \A s \in Servers :
        /\ counter[s].level # "Pin" /\ unlock' # unlock => counter'[s] = counter[s]
        /\ counter[s].level = "Deleted" => counter'[s] = counter[s]
PinNeverUnescalates == [][PinStepKeepsEscalation]_pin_vars

(* However devices interleave their calls and answers get lost, the servers
   together compare at most NServers * WrongPinLimit wrong PINs before a
   right PIN or words are entered. *)
GuessesBounded == guesses <= NServers * WrongPinLimit

(* After WrongPinLimit wrong PINs in a row the PIN alone unlocks no more. *)
LockStep ==
    \A d \in Devices :
        wrongRow >= WrongPinLimit /\ unlock[d].state # "Unlocked"
            => unlock'[d].state # "Unlocked"
WrongPinsLock == [][LockStep]_pin_vars

(* Every unlock_with_pin call returns. *)
UnlockReturns ==
    \A d \in Devices : unlock[d].state = "probing" ~> unlock[d].state # "probing"
=============================================================================
