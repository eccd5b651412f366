--------------------------- MODULE AttemptCounter ---------------------------
(***************************************************************************)
(* The wrong-attempt counter of one account on one server and the PIN      *)
(* entry built on it, as operators on their records                        *)
(* (threshold-identity/src/attempt_counter.rs, account_state.rs).          *)
(***************************************************************************)
EXTENDS Naturals

CONSTANTS
    WrongPinLimit,      \* WRONG_PIN_LIMIT
    Wrong24WordLimit,   \* WRONG_24WORD_LIMIT
    Wrong12WordLimit    \* WRONG_12WORD_LIMIT

ASSUME LimitAssumption ==
    /\ WrongPinLimit \in Nat \ {0}
    /\ Wrong24WordLimit \in Nat \ {0}
    /\ Wrong12WordLimit \in Nat \ {0}

Levels == {"Pin", "Recovery24", "Emergency12", "Deleted"}
WordLevels == {"Recovery24", "Emergency12"}

Limit(level) == CASE level = "Pin" -> WrongPinLimit
                  [] level = "Recovery24" -> Wrong24WordLimit
                  [] level = "Emergency12" -> Wrong12WordLimit
NextLevel(level) == CASE level = "Pin" -> "Recovery24"
                      [] level = "Recovery24" -> "Emergency12"
                      [] level = "Emergency12" -> "Deleted"

Counters == [level : Levels, wrong : Nat]
FreshCounter == [level |-> "Pin", wrong |-> 0]
DeletedCounter == [level |-> "Deleted", wrong |-> 0]

\* Mutant: escalation one attempt late.
RecordWrongLate(c) ==
    IF c.level = "Deleted" THEN c
    ELSE IF c.wrong + 1 > Limit(c.level)
    THEN [level |-> NextLevel(c.level), wrong |-> 0]
    ELSE [level |-> c.level, wrong |-> c.wrong + 1]

(* record_wrong *)
RecordWrong(c) ==
    IF c.level = "Deleted" THEN c
    ELSE IF c.wrong + 1 >= Limit(c.level)
    THEN [level |-> NextLevel(c.level), wrong |-> 0]
    ELSE [level |-> c.level, wrong |-> c.wrong + 1]

(* check_can_attempt: Deleted is never an expected level. *)
CanAttempt(c, expected) == c.level = expected

\* Mutant: the PIN is compared whatever the counter and the flag say.
PinAnswerUnchecked(c, revoked, right) == IF right THEN "Ok" ELSE "WrongPin"

(* AccountState::try_pin on an account with the given counter and revoked
   flag: the answer, and the counter afterwards. *)
PinAnswer(c, revoked, right) ==
    IF revoked \/ ~CanAttempt(c, "Pin") THEN "Refused"
    ELSE IF right THEN "Ok" ELSE "WrongPin"
AfterPin(c, revoked, right) ==
    CASE PinAnswer(c, revoked, right) = "Refused" -> c
      [] PinAnswer(c, revoked, right) = "Ok" -> FreshCounter
      [] PinAnswer(c, revoked, right) = "WrongPin" -> RecordWrong(c)
=============================================================================
