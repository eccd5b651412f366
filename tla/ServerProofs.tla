---------------------------- MODULE ServerProofs ----------------------------
(***************************************************************************)
(* Proofs about what the servers promise: the blind-postman router         *)
(* (BlindPostman) for any envelopes, senders, windows and limits, and the  *)
(* unlock of an account against its share servers (PinUnlock) for any      *)
(* number of devices and servers, any threshold and any limits.            *)
(*                                                                         *)
(* NoReplayInWindow rests on LookupIsQueue (the lookup set is the queue)   *)
(* and on RememberInv: a delivered envelope is either still in the queue   *)
(* or older than the replay window.  LimitsHold rests on QuotaInv: what a  *)
(* bucket has spent is what was delivered in the present window.  What     *)
(* unlock_with_pin says of the PIN is true, no PIN entry touches a counter *)
(* that has left the PIN level, and the servers together compare at most   *)
(* NServers * WrongPinLimit guesses between two accepted entries.          *)
(***************************************************************************)
EXTENDS BlindPostman, PinUnlock, FiniteSetTheorems, TLAPS

-----------------------------------------------------------------------------
\* A call that is still asking has not got enough shares.
ProbingInv ==
  \A d \in Devices : unlock[d].state = "probing" => unlock[d].shares < Threshold

\* Deleted counts nothing, whichever way it was reached.
Settled(c) == c.level = "Deleted" => c.wrong = 0

DeletedInv == \A s \in Servers : Settled(counter[s])

PinIInv == PinTypeOK /\ ProbingInv /\ VerdictIsTrue /\ DeletedInv

-----------------------------------------------------------------------------
\* A wrong attempt leaves a counter behind, at zero on a new level
\* (record_wrong).
LEMMA RecordWrongType ==
  ASSUME NEW c \in Counters, Settled(c)
  PROVE  RecordWrong(c) \in Counters /\ Settled(RecordWrong(c))
BY LimitAssumption
DEF LimitAssumption, Counters, Levels, RecordWrong, NextLevel, Limit, Settled

\* A counter reset to the PIN level (reset_to_pin) is a counter.
LEMMA FreshCounterType == FreshCounter \in Counters /\ Settled(FreshCounter)
BY Zenon DEF FreshCounter, Counters, Levels, Settled

\* The three answers of try_pin, and what each says of PIN and account.
LEMMA PinAnswerFacts ==
  ASSUME NEW c, NEW rev \in BOOLEAN, NEW right \in BOOLEAN
  PROVE  /\ PinAnswer(c, rev, right) \in {"Refused", "Ok", "WrongPin"}
         /\ PinAnswer(c, rev, right) = "Ok" => right
         /\ PinAnswer(c, rev, right) = "WrongPin" => ~right /\ ~rev
         /\ c.level # "Pin" => PinAnswer(c, rev, right) = "Refused"
BY Zenon DEF PinAnswer, CanAttempt

\* try_pin leaves a counter behind, and a refused one alone.
LEMMA AfterPinFacts ==
  ASSUME NEW c \in Counters, Settled(c), NEW rev \in BOOLEAN,
         NEW right \in BOOLEAN
  PROVE  /\ AfterPin(c, rev, right) \in Counters
         /\ Settled(AfterPin(c, rev, right))
         /\ c.level # "Pin" => AfterPin(c, rev, right) = c
BY FreshCounterType, RecordWrongType, PinAnswerFacts, Zenon DEF AfterPin

\* A call that ends keeps its PIN and its shares.
LEMMA ReturnFacts ==
  ASSUME NEW call \in Calls, NEW result \in Results, NEW n \in 0..Threshold
  PROVE  /\ Return(call, result, n) \in Calls
         /\ Return(call, result, n).state = result
         /\ Return(call, result, n).right = call.right
         /\ Return(call, result, n).shares = n
BY ClusterAssumption DEF ClusterAssumption, Calls, Results, Return, Servers

\* A round of the loop without WrongPin: the call stays well-formed, keeps
\* its PIN, and goes on only while shares are missing.
LEMMA ContinueFacts ==
  ASSUME NEW call \in Calls, call.state = "probing", NEW n \in 0..Threshold
  PROVE  /\ Continue(call, n) \in Calls
         /\ Continue(call, n).right = call.right
         /\ Continue(call, n).shares = n
         /\ Continue(call, n).state # "WrongPin"
         /\ Continue(call, n).state = "probing" => n < Threshold
<1>1. CASE n >= Threshold \/ call.next = NServers
  <2>1. PICK result \in {"Unlocked", "Network"} :
          Continue(call, n) = Return(call, result, n)
    BY <1>1, Zenon DEF Continue
  <2>2. result \in Results /\ result # "WrongPin" /\ result # "probing"
    BY <2>1, Zenon DEF Results
  <2> QED
    BY <2>1, <2>2, ReturnFacts
<1>2. CASE ~(n >= Threshold) /\ call.next # NServers
  <2>1. Continue(call, n) = AskNext(call, n)
    BY <1>2, Zenon DEF Continue
  <2>2. /\ AskNext(call, n) \in Calls
        /\ AskNext(call, n).right = call.right
        /\ AskNext(call, n).shares = n
        /\ AskNext(call, n).state = "probing"
    BY <1>2, ClusterAssumption DEF ClusterAssumption, Calls, AskNext, Servers
  <2> QED
    BY <1>2, <2>1, <2>2, ClusterAssumption DEF ClusterAssumption
<1> QED
  BY <1>1, <1>2, Zenon

\* What every step must show of the call it changes.
GoodCall(call) ==
  /\ call \in Calls
  /\ call.state = "probing" => call.shares < Threshold
  /\ call.state = "WrongPin" => ~call.right
  /\ call.shares > 0 => call.right

\* Replacing one call by a good one keeps what is known of the calls.
LEMMA CallStep ==
  ASSUME PinIInv, NEW d \in Devices, NEW call, GoodCall(call),
         unlock' = [unlock EXCEPT ![d] = call]
  PROVE  /\ unlock' \in [Devices -> Calls]
         /\ ProbingInv' /\ VerdictIsTrue'
BY Zenon DEF PinIInv, PinTypeOK, ProbingInv, VerdictIsTrue, GoodCall

\* What Compare does to the server.
LEMMA CompareStep ==
  ASSUME PinTypeOK, DeletedInv, NEW d \in Devices, NEW s \in Servers, Compare(d, s)
  PROVE  /\ counter' \in [Servers -> Counters] /\ DeletedInv'
         /\ revoked' \in [Servers -> BOOLEAN]
         /\ guesses' \in Nat
         /\ \A t \in Servers : counter[t].level # "Pin" => counter'[t] = counter[t]
<1>1. /\ counter[s] \in Counters /\ revoked[s] \in BOOLEAN
      /\ Right(d, s) \in BOOLEAN /\ guesses \in Nat
  BY Zenon DEF PinTypeOK, Right, Calls
<1>2. /\ AfterPin(counter[s], revoked[s], Right(d, s)) \in Counters
      /\ Settled(AfterPin(counter[s], revoked[s], Right(d, s)))
      /\ counter[s].level # "Pin" =>
           AfterPin(counter[s], revoked[s], Right(d, s)) = counter[s]
  BY <1>1, AfterPinFacts, Zenon DEF DeletedInv
<1>3. counter' = [counter EXCEPT ![s] = AfterPin(counter[s], revoked[s], Right(d, s))]
  BY Zenon DEF Compare
<1>4. guesses' \in Nat
  BY <1>1 DEF Compare
<1>5. revoked' = revoked
  BY Zenon DEF Compare
<1> QED
  BY <1>2, <1>3, <1>4, <1>5, Zenon DEF PinTypeOK, DeletedInv

-----------------------------------------------------------------------------
\* Before the first unlock the invariant holds.
LEMMA PinInitIInv == PinInit => PinIInv
<1> SUFFICES ASSUME PinInit PROVE PinIInv
  BY Zenon
<1> USE ClusterAssumption, LimitAssumption
    DEF ClusterAssumption, LimitAssumption, PinInit, Servers
<1>1. counter \in [Servers -> Counters]
  BY Zenon DEF Counters, FreshCounter, Levels
<1>2. revoked \in [Servers -> BOOLEAN]
  BY Zenon
<1>3. unlock \in [Devices -> Calls]
  BY DEF Calls, Results
<1>4. wrongRow \in 0..WrongPinLimit /\ guesses \in Nat
  OBVIOUS
<1>5. ProbingInv /\ VerdictIsTrue /\ DeletedInv
  BY FreshCounterType DEF ProbingInv, VerdictIsTrue, DeletedInv
<1> QED
  BY <1>1, <1>2, <1>3, <1>4, <1>5, Zenon DEF PinIInv, PinTypeOK

\* Every probe, word entry and deletion keeps the invariant.
LEMMA PinStepIInv == PinIInv /\ [PinNext]_pin_vars => PinIInv'
<1> SUFFICES ASSUME PinIInv, [PinNext]_pin_vars PROVE PinIInv'
  BY Zenon
<1> USE DEF PinIInv
<1>1. ASSUME NEW d \in Devices, NEW right \in BOOLEAN, Start(d, right)
      PROVE  PinIInv'
  <2> DEFINE call == [state |-> "probing", right |-> right, next |-> 1,
                      shares |-> 0]
  <2>1. GoodCall(call)
    BY ClusterAssumption DEF ClusterAssumption, GoodCall, Calls, Servers
  <2>2. unlock' = [unlock EXCEPT ![d] = call]
    BY <1>1, Zenon DEF Start
  <2>3. unlock' \in [Devices -> Calls] /\ ProbingInv' /\ VerdictIsTrue'
    BY <2>1, <2>2, CallStep, Zenon
  <2> QED
    BY <1>1, <2>3, Zenon DEF Start, PinTypeOK, DeletedInv
<1>2. ASSUME NEW d \in Devices, Probe(d) PROVE PinIInv'
  <2> DEFINE old == unlock[d]
             s == unlock[d].next
             answer == PinAnswer(counter[s], revoked[s], Right(d, s))
             call == CASE answer = "Ok" -> Continue(old, old.shares + 1)
                       [] answer = "Refused" -> Continue(old, old.shares)
                       [] answer = "WrongPin" -> Return(old, "WrongPin", old.shares)
  <2>1. /\ old \in Calls /\ old.state = "probing" /\ s \in Servers
        /\ old.shares \in 0..Threshold /\ old.shares + 1 \in 0..Threshold
        /\ revoked[s] \in BOOLEAN /\ old.right \in BOOLEAN
        /\ old.shares > 0 => old.right
    BY SMTT(30), <1>2, ClusterAssumption
    DEF ClusterAssumption, PinTypeOK, Calls, Probe, ProbingInv, VerdictIsTrue
  <2>2. /\ answer \in {"Refused", "Ok", "WrongPin"}
        /\ answer = "Ok" => old.right
        /\ answer = "WrongPin" => ~old.right
    <3>1. Right(d, s) \in BOOLEAN /\ (Right(d, s) <=> old.right /\ ~revoked[s])
      BY <2>1, Zenon DEF Right
    <3>2. /\ answer \in {"Refused", "Ok", "WrongPin"}
          /\ answer = "Ok" => Right(d, s)
          /\ answer = "WrongPin" => ~Right(d, s) /\ ~revoked[s]
      BY <2>1, <3>1, PinAnswerFacts, Zenon
    <3> QED
      BY <3>1, <3>2, Zenon
  <2>3. unlock' = [unlock EXCEPT ![d] = call] /\ Compare(d, s)
    BY <1>2, Zenon DEF Probe
  <2> HIDE DEF answer
  <2>4. GoodCall(call)
    <3>1. CASE answer = "Ok"
      <4>1. call = Continue(old, old.shares + 1)
        BY <3>1, Zenon
      <4> HIDE DEF call
      <4> QED
        BY <2>1, <2>2, <3>1, <4>1, ContinueFacts DEF GoodCall
    <3>2. CASE answer = "Refused"
      <4>1. call = Continue(old, old.shares)
        BY <3>2, Zenon
      <4> HIDE DEF call
      <4> QED
        BY <2>1, <4>1, ContinueFacts, Zenon DEF GoodCall
    <3>3. CASE answer = "WrongPin"
      <4>1. call = Return(old, "WrongPin", old.shares)
        BY <3>3, Zenon
      <4>2. "WrongPin" \in Results
        BY Zenon DEF Results
      <4> HIDE DEF call
      <4> QED
        BY <2>1, <2>2, <3>3, <4>1, <4>2, ReturnFacts DEF GoodCall
    <3> QED
      BY <2>2, <3>1, <3>2, <3>3, Zenon
  <2> HIDE DEF call
  <2>5. unlock' \in [Devices -> Calls] /\ ProbingInv' /\ VerdictIsTrue'
    BY <2>3, <2>4, CallStep, Zenon
  <2>6. /\ counter' \in [Servers -> Counters] /\ DeletedInv'
        /\ revoked' \in [Servers -> BOOLEAN]
        /\ guesses' \in Nat
    BY <2>1, <2>3, CompareStep, Zenon
  <2>7. wrongRow' \in 0..WrongPinLimit
    <3> DEFINE verdict == unlock'[d].state
    <3>1. wrongRow' = CASE verdict = "Unlocked" -> 0
                        [] verdict = "WrongPin" /\ wrongRow < WrongPinLimit -> wrongRow + 1
                        [] OTHER -> wrongRow
      BY ZenonT(60), <1>2 DEF Probe
    <3>2. wrongRow \in 0..WrongPinLimit
      BY Zenon DEF PinTypeOK
    <3> HIDE DEF verdict
    <3> QED
      BY SMTT(30), <3>1, <3>2, LimitAssumption DEF LimitAssumption
  <2> QED
    BY <2>5, <2>6, <2>7, Zenon DEF PinTypeOK
<1>3. ASSUME NEW d \in Devices, ProbeAnswerLost(d) \/ ProbeUnreachable(d)
      PROVE  PinIInv'
  <2> DEFINE old == unlock[d]
             call == Continue(old, old.shares)
  <2>1. /\ old \in Calls /\ old.state = "probing" /\ old.next \in Servers
        /\ old.shares \in 0..Threshold /\ old.right \in BOOLEAN
        /\ old.shares > 0 => old.right
    BY <1>3, Zenon DEF PinTypeOK, Calls, ProbeAnswerLost, ProbeUnreachable, VerdictIsTrue
  <2>2. unlock' = [unlock EXCEPT ![d] = call]
    BY <1>3, Zenon DEF ProbeAnswerLost, ProbeUnreachable
  <2>3. GoodCall(call)
    BY <2>1, ContinueFacts, Zenon DEF GoodCall
  <2> HIDE DEF call
  <2>4. unlock' \in [Devices -> Calls] /\ ProbingInv' /\ VerdictIsTrue'
    BY <2>2, <2>3, CallStep, Zenon
  <2>5. CASE Compare(d, old.next) /\ UNCHANGED wrongRow
    BY <2>1, <2>4, <2>5, CompareStep, Zenon DEF PinTypeOK
  <2>6. CASE UNCHANGED <<counter, revoked, wrongRow, guesses>>
    BY <2>4, <2>6, Zenon DEF PinTypeOK, DeletedInv
  <2> QED
    BY <1>3, <2>5, <2>6, Zenon DEF ProbeAnswerLost, ProbeUnreachable
<1>4. ASSUME NEW s \in Servers, NEW level \in WordLevels, NEW right \in BOOLEAN,
             EnterWords(s, level, right)
      PROVE  PinIInv'
  <2>1. /\ RecordWrong(counter[s]) \in Counters
        /\ Settled(RecordWrong(counter[s]))
    BY RecordWrongType, Zenon DEF PinTypeOK, DeletedInv
  <2>2. counter' \in [Servers -> Counters] /\ DeletedInv'
    BY <1>4, <2>1, FreshCounterType, Zenon DEF EnterWords, PinTypeOK, DeletedInv
  <2>3. wrongRow' \in 0..WrongPinLimit /\ guesses' \in Nat
    BY <1>4, LimitAssumption DEF LimitAssumption, EnterWords, PinTypeOK
  <2> QED
    BY <1>4, <2>2, <2>3, Zenon DEF EnterWords, PinTypeOK, ProbingInv, VerdictIsTrue
<1>5. ASSUME NEW s \in Servers, UnrecoverableDelete(s) PROVE PinIInv'
  BY <1>5, Zenon DEF UnrecoverableDelete, DeletedCounter, Counters, Levels, PinTypeOK,
              ProbingInv, VerdictIsTrue, DeletedInv, Settled
<1>6. CASE UNCHANGED pin_vars
  BY <1>6, Zenon DEF pin_vars, PinTypeOK, ProbingInv, VerdictIsTrue, DeletedInv
<1> QED
  BY <1>1, <1>2, <1>3, <1>4, <1>5, <1>6, Zenon DEF PinNext

\* The types hold in every reachable state, for all constants.
THEOREM PinTypeCorrect == PinSpec => []PinTypeOK
<1>1. PinIInv => PinTypeOK
  BY Zenon DEF PinIInv
<1> QED
  BY PinInitIInv, PinStepIInv, <1>1, PTL DEF PinSpec

\* unlock_with_pin never calls a right PIN wrong and never has a share for a
\* wrong one, however its probes interleave with other devices, escalations,
\* lost answers and deletions.
THEOREM VerdictsTrue == PinSpec => []VerdictIsTrue
<1>1. PinIInv => VerdictIsTrue
  BY Zenon DEF PinIInv
<1> QED
  BY PinInitIInv, PinStepIInv, <1>1, PTL DEF PinSpec

\* A step that changes a call is a PIN step, and try_pin refuses to touch a
\* counter beyond the PIN level; words are refused at Deleted.
LEMMA StepKeepsEscalation == PinIInv /\ [PinNext]_pin_vars => PinStepKeepsEscalation
<1> SUFFICES ASSUME PinIInv, [PinNext]_pin_vars PROVE PinStepKeepsEscalation
  BY Zenon
<1> USE DEF PinIInv
<1>1. ASSUME NEW d \in Devices, Probe(d) \/ ProbeAnswerLost(d)
      PROVE  PinStepKeepsEscalation
  <2>1. unlock[d].next \in Servers /\ Compare(d, unlock[d].next)
    BY <1>1, Zenon DEF PinTypeOK, Calls, Probe, ProbeAnswerLost
  <2>2. \A t \in Servers : counter[t].level # "Pin" => counter'[t] = counter[t]
    BY <2>1, CompareStep, Zenon
  <2> QED
    BY <2>2, Zenon DEF PinStepKeepsEscalation
<1>2. ASSUME NEW s \in Servers, NEW level \in WordLevels, NEW right \in BOOLEAN,
             EnterWords(s, level, right)
      PROVE  PinStepKeepsEscalation
  BY <1>2, Zenon DEF EnterWords, CanAttempt, WordLevels, PinStepKeepsEscalation, PinTypeOK
<1>3. ASSUME NEW s \in Servers, UnrecoverableDelete(s)
      PROVE  PinStepKeepsEscalation
  <2>1. ASSUME NEW t \in Servers, counter[t].level = "Deleted"
        PROVE  counter[t] = DeletedCounter
    BY <2>1, Zenon DEF PinTypeOK, Counters, DeletedInv, Settled, DeletedCounter
  <2> QED
    BY <1>3, <2>1, Zenon DEF UnrecoverableDelete, PinStepKeepsEscalation, PinTypeOK
<1>4. CASE UNCHANGED counter
  BY <1>4, Zenon DEF PinStepKeepsEscalation
<1> QED
  BY <1>1, <1>2, <1>3, <1>4, Zenon
  DEF PinNext, Start, ProbeUnreachable, pin_vars

\* Neither PIN entries nor anything else revives a deleted counter, and only
\* words bring an escalated one back.
THEOREM EscalationStays == PinSpec => PinNeverUnescalates
BY PinInitIInv, PinStepIInv, StepKeepsEscalation, PTL DEF PinSpec, PinNeverUnescalates

-----------------------------------------------------------------------------
\* The wrong PINs a server has compared since it last accepted a PIN or words:
\* all WrongPinLimit of them once it left the PIN level.
GuessesSpent(s) == IF counter[s].level = "Pin" THEN counter[s].wrong ELSE WrongPinLimit

\* The i-th wrong PIN of every server, for the ones already entered.
Budget == Servers \X (1..WrongPinLimit)
Used == {g \in Budget : g[2] <= GuessesSpent(g[1])}

\* Every guess since the last accepted entry stands for a different element of
\* Used, and a server at the PIN level has attempts left.
GuessInv ==
  /\ \A s \in Servers : counter[s].level = "Pin" => counter[s].wrong < WrongPinLimit
  /\ guesses <= Cardinality(Used)

\* Used is a part of the budget of all servers.
LEMMA UsedBound ==
  /\ IsFiniteSet(Used) /\ Cardinality(Used) \in Nat
  /\ Cardinality(Used) <= NServers * WrongPinLimit
<1> USE ClusterAssumption, LimitAssumption DEF ClusterAssumption, LimitAssumption
<1>1. IsFiniteSet(Servers) /\ Cardinality(Servers) = NServers
  BY FS_Interval DEF Servers
<1>2. IsFiniteSet(1..WrongPinLimit) /\ Cardinality(1..WrongPinLimit) = WrongPinLimit
  BY FS_Interval
<1>3. IsFiniteSet(Budget) /\ Cardinality(Budget) = NServers * WrongPinLimit
  BY <1>1, <1>2, FS_Product, Zenon DEF Budget
<1>4. Used \in SUBSET Budget
  BY Zenon DEF Used
<1> QED
  BY <1>3, <1>4, FS_Subset, FS_CardinalityType, Zenon

\* Entries that reset nothing only add to what is used.
LEMMA UsedGrows ==
  ASSUME PinTypeOK, PinTypeOK', \A s \in Servers : GuessesSpent(s) <= GuessesSpent(s)'
  PROVE  Cardinality(Used) <= Cardinality(Used')
<1>0. \A s \in Servers : GuessesSpent(s) \in Nat /\ GuessesSpent(s)' \in Nat
  BY LimitAssumption, Zenon DEF LimitAssumption, PinTypeOK, Counters, GuessesSpent
<1>1. Used \subseteq Used'
  <2> SUFFICES ASSUME NEW g \in Used PROVE g \in Used'
    BY Zenon
  <2>1. /\ g \in Budget /\ g[1] \in Servers /\ g[2] \in Nat
        /\ g[2] <= GuessesSpent(g[1])
    BY DEF Used, Budget
  <2>2. g[2] <= GuessesSpent(g[1])'
    BY <1>0, <2>1
  <2> QED
    BY <2>1, <2>2, Zenon DEF Used, Budget
<1>2. IsFiniteSet(Used)'
  BY UsedBound, PTL
<1> QED
  BY <1>1, <1>2, FS_Subset, Zenon

\* A wrong PIN that a server compares uses up exactly one more of its attempts
\* (record_wrong), up to and including the one that escalates.
LEMMA UsedCounts ==
  ASSUME PinTypeOK, PinTypeOK', GuessInv, NEW s \in Servers, counter[s].level = "Pin",
         counter' = [counter EXCEPT ![s] = RecordWrong(counter[s])]
  PROVE  Cardinality(Used') = Cardinality(Used) + 1
<1> USE LimitAssumption DEF LimitAssumption
<1> DEFINE g == <<s, GuessesSpent(s) + 1>>
<1>1. /\ GuessesSpent(s) \in Nat /\ GuessesSpent(s) < WrongPinLimit
      /\ GuessesSpent(s)' = GuessesSpent(s) + 1
      /\ \A t \in Servers : t # s => GuessesSpent(t)' = GuessesSpent(t)
  BY SMTT(30) DEF PinTypeOK, GuessInv, Counters, GuessesSpent, RecordWrong, Limit, NextLevel
<1>2. \A t \in Servers : GuessesSpent(t) \in Nat
  BY Zenon DEF PinTypeOK, Counters, GuessesSpent
<1>3. g \in Budget /\ g \notin Used
  BY <1>1 DEF Budget, Used
<1>4. Used' = Used \cup {g}
  <2>1. ASSUME NEW h \in Budget PROVE h \in Used' <=> h \in Used \cup {g}
    <3>1. PICK t \in Servers, i \in 1..WrongPinLimit : h = <<t, i>>
      BY DEF Budget
    <3>2. /\ h \in Used' <=> i <= GuessesSpent(t)'
          /\ h \in Used <=> i <= GuessesSpent(t)
          /\ h = g <=> t = s /\ i = GuessesSpent(s) + 1
      BY <3>1, Zenon DEF Used
    <3>3. i <= GuessesSpent(t)' <=> i <= GuessesSpent(t) \/ (t = s /\ i = GuessesSpent(s) + 1)
      BY <1>1, <1>2
    <3> QED
      BY <3>2, <3>3, Zenon
  <2>2. Used' \subseteq Budget /\ Used \cup {g} \subseteq Budget
    BY <1>3, Zenon DEF Used, Budget
  <2> QED
    BY <2>1, <2>2, Zenon
<1> QED
  BY <1>3, <1>4, UsedBound, FS_AddElement, Zenon

\* A wrong attempt never lets a counter run past its limit, nor back to the
\* PIN level.
LEMMA RecordWrongSpent ==
  ASSUME NEW c \in Counters, c.level = "Pin" => c.wrong < WrongPinLimit
  PROVE  /\ RecordWrong(c).level = "Pin" => RecordWrong(c).wrong < WrongPinLimit
         /\ c.level # "Pin" => RecordWrong(c).level # "Pin"
BY LimitAssumption
DEF LimitAssumption, Counters, Levels, RecordWrong, NextLevel, Limit

\* The account starts with every attempt left.
LEMMA InitGuessInv == PinInit => GuessInv
<1> SUFFICES ASSUME PinInit PROVE GuessInv
  BY Zenon
<1>1. guesses = 0 /\ \A s \in Servers : counter[s] = FreshCounter
  BY Zenon DEF PinInit
<1> QED
  BY <1>1, UsedBound, LimitAssumption
  DEF LimitAssumption, GuessInv, FreshCounter

\* What one PIN comparison does to the guesses.
LEMMA CompareGuesses ==
  ASSUME PinTypeOK, PinTypeOK', GuessInv, NEW d \in Devices, NEW s \in Servers,
         Compare(d, s)
  PROVE  GuessInv'
<1> DEFINE answer == PinAnswer(counter[s], revoked[s], Right(d, s))
           after == AfterPin(counter[s], revoked[s], Right(d, s))
<1>1. /\ counter[s] \in Counters /\ revoked[s] \in BOOLEAN
      /\ Right(d, s) \in BOOLEAN /\ guesses \in Nat
      /\ counter[s].level = "Pin" => counter[s].wrong < WrongPinLimit
  BY Zenon DEF PinTypeOK, Right, Calls, GuessInv
<1>2. /\ counter' = [counter EXCEPT ![s] = after]
      /\ guesses' = CASE answer = "Ok" -> 0
                      [] answer = "WrongPin" -> guesses + 1
                      [] OTHER -> guesses
  BY Zenon DEF Compare
<1>3. /\ answer \in {"Refused", "Ok", "WrongPin"}
      /\ answer # "Refused" => counter[s].level = "Pin"
  BY <1>1, PinAnswerFacts
<1>4. (Cardinality(Used) \in Nat)' /\ Cardinality(Used) \in Nat
  BY UsedBound, PTL
<1>5. CASE answer = "Ok"
  <2>1. after = FreshCounter
    BY <1>5, Zenon DEF AfterPin
  <2>2. guesses' = 0
    BY <1>2, <1>5, Zenon
  <2>3. \A t \in Servers : counter'[t] = counter[t] \/ counter'[t] = FreshCounter
    BY <1>2, <2>1, Zenon DEF PinTypeOK
  <2> HIDE DEF after, answer
  <2> QED
    BY <1>4, <2>2, <2>3, LimitAssumption
    DEF LimitAssumption, GuessInv, FreshCounter
<1>6. CASE answer = "WrongPin"
  <2>1. counter' = [counter EXCEPT ![s] = RecordWrong(counter[s])]
    BY <1>2, <1>6, Zenon DEF AfterPin
  <2>2. guesses' = guesses + 1
    BY <1>2, <1>6, Zenon
  <2> HIDE DEF after, answer
  <2>3. Cardinality(Used') = Cardinality(Used) + 1
    BY <1>3, <1>6, <2>1, UsedCounts, Zenon
  <2>4. RecordWrong(counter[s]).level = "Pin" =>
          RecordWrong(counter[s]).wrong < WrongPinLimit
    BY <1>1, RecordWrongSpent, Zenon
  <2>5. \A t \in Servers : counter'[t].level = "Pin" =>
                             counter'[t].wrong < WrongPinLimit
    BY <2>1, <2>4, Zenon DEF PinTypeOK, GuessInv
  <2>6. guesses' <= Cardinality(Used')
    BY <1>1, <1>4, <2>2, <2>3 DEF GuessInv
  <2> QED
    BY <2>5, <2>6, Zenon DEF GuessInv
<1>7. CASE answer = "Refused"
  <2>1. after = counter[s]
    BY <1>7, Zenon DEF AfterPin
  <2>2. guesses' = guesses
    BY <1>2, <1>7, Zenon
  <2> HIDE DEF after, answer
  <2>3. counter' = counter
    BY <1>2, <2>1, Zenon DEF PinTypeOK
  <2> QED
    BY <2>2, <2>3, Zenon DEF GuessInv, Used, GuessesSpent
<1> QED
  BY <1>3, <1>5, <1>6, <1>7, Zenon

\* Every step counts a guess against an attempt of the server that compared
\* it, or resets the count.
LEMMA StepGuessInv == PinIInv /\ PinIInv' /\ GuessInv /\ [PinNext]_pin_vars => GuessInv'
<1> SUFFICES ASSUME PinIInv, PinIInv', GuessInv, [PinNext]_pin_vars PROVE GuessInv'
  BY Zenon
<1>0. PinTypeOK /\ PinTypeOK'
  BY Zenon DEF PinIInv
<1>t. (Cardinality(Used) \in Nat)' /\ Cardinality(Used) \in Nat
  BY UsedBound, PTL
<1>u. \A s \in Servers : GuessesSpent(s) <= WrongPinLimit /\ GuessesSpent(s) \in Nat
  BY <1>0, LimitAssumption
  DEF LimitAssumption, PinTypeOK, Counters, GuessesSpent, GuessInv
<1>1. ASSUME NEW d \in Devices, Probe(d) \/ ProbeAnswerLost(d) PROVE GuessInv'
  <2>1. unlock[d].next \in Servers /\ Compare(d, unlock[d].next)
    BY <1>0, <1>1, Zenon DEF PinTypeOK, Calls, Probe, ProbeAnswerLost
  <2> QED
    BY <1>0, <2>1, CompareGuesses, Zenon
<1>2. ASSUME NEW s \in Servers, NEW level \in WordLevels, NEW right \in BOOLEAN,
             EnterWords(s, level, right)
      PROVE  GuessInv'
  <2>1. CASE right
    <3>1. guesses' = 0 /\ counter' = [counter EXCEPT ![s] = FreshCounter]
      BY <1>2, <2>1, Zenon DEF EnterWords
    <3>2. \A t \in Servers : counter'[t] = counter[t] \/ counter'[t] = FreshCounter
      BY <1>0, <3>1, Zenon DEF PinTypeOK
    <3> QED
      BY <1>t, <3>1, <3>2, LimitAssumption
      DEF LimitAssumption, GuessInv, FreshCounter
  <2>2. CASE ~right
    <3>1. /\ guesses' = guesses /\ counter[s].level # "Pin"
          /\ counter' = [counter EXCEPT ![s] = RecordWrong(counter[s])]
      BY <1>2, <2>2, Zenon DEF EnterWords, CanAttempt, WordLevels
    <3>2. RecordWrong(counter[s]).level # "Pin"
      BY <1>0, <3>1, RecordWrongSpent, Zenon DEF PinTypeOK, GuessInv
    <3>3. \A t \in Servers : /\ counter'[t].level = "Pin" => counter'[t] = counter[t]
                             /\ GuessesSpent(t) <= GuessesSpent(t)'
      BY <1>0, <1>u, <3>1, <3>2, LimitAssumption
      DEF LimitAssumption, PinTypeOK, GuessesSpent
    <3>4. Cardinality(Used) <= Cardinality(Used')
      BY <1>0, <3>3, UsedGrows, Zenon
    <3> QED
      BY <1>0, <1>t, <3>1, <3>3, <3>4 DEF GuessInv, PinTypeOK
  <2> QED
    BY <2>1, <2>2, Zenon
<1>3. ASSUME NEW s \in Servers, UnrecoverableDelete(s) PROVE GuessInv'
  <2>1. guesses' = guesses /\ counter' = [counter EXCEPT ![s] = DeletedCounter]
    BY <1>3, Zenon DEF UnrecoverableDelete
  <2>2. \A t \in Servers : /\ counter'[t].level = "Pin" => counter'[t] = counter[t]
                           /\ GuessesSpent(t) <= GuessesSpent(t)'
    BY <1>0, <1>u, <2>1, LimitAssumption
    DEF LimitAssumption, PinTypeOK, GuessesSpent, DeletedCounter
  <2>3. Cardinality(Used) <= Cardinality(Used')
    BY <1>0, <2>2, UsedGrows, Zenon
  <2> QED
    BY <1>0, <1>t, <2>1, <2>2, <2>3 DEF GuessInv, PinTypeOK
<1>4. CASE UNCHANGED <<counter, guesses>>
  BY <1>4, Zenon DEF GuessInv, Used, GuessesSpent
<1> QED
  BY <1>1, <1>2, <1>3, <1>4, Zenon DEF PinNext, Start, ProbeUnreachable, pin_vars

\* However devices interleave their calls and whatever answers are lost, the
\* servers together compare at most NServers * WrongPinLimit wrong PINs
\* between two accepted entries.
THEOREM GuessesAreBounded == PinSpec => []GuessesBounded
<1>1. PinIInv /\ GuessInv => GuessesBounded
  BY UsedBound, ClusterAssumption, LimitAssumption
  DEF ClusterAssumption, LimitAssumption, GuessInv, GuessesBounded, PinIInv, PinTypeOK
<1> QED
  BY PinInitIInv, PinStepIInv, InitGuessInv, StepGuessInv, <1>1, PTL DEF PinSpec

-----------------------------------------------------------------------------
\* Times are naturals.
LEMMA TimesAreNat == ReplayWindow \in Nat /\ \A t \in Times : t \in Nat
BY PostmanAssumption DEF Times

\* A window start is a time of the model.
LEMMA WindowStartType ==
  ASSUME now \in Times
  PROVE  WindowStart \in Times
<1>1. now \in Nat /\ RateWindow \in Nat /\ RateWindow > 0
  BY PostmanAssumption DEF Times
<1>2. /\ now \div RateWindow \in Nat
      /\ (now \div RateWindow) * RateWindow <= now
      /\ (now \div RateWindow) * RateWindow \in Nat
  BY <1>1
<1> QED BY <1>1, <1>2, PostmanAssumption DEF WindowStart, Times

\* Dropping a prefix shifts the rest of the queue.
LEMMA RetainedFacts ==
  ASSUME queue \in Seq(Arrivals), NEW k \in 0..Len(queue)
  PROVE  /\ Retained(k) \in Seq(Arrivals)
         /\ Len(Retained(k)) = Len(queue) - k
         /\ DOMAIN Retained(k) = 1..(Len(queue) - k)
         /\ \A i \in 1..(Len(queue) - k) : Retained(k)[i] = queue[i + k]
BY DEF Retained

\* What `allow' leaves in the table has the type of the table.
LEMMA PurgeType ==
  ASSUME TypeOK, NEW s \in Senders
  PROVE  AfterPurge(s) \in [Senders -> Buckets \cup {NoBucket}]
BY Zenon DEF TypeOK, AfterPurge

\* Every step keeps the types of the router's state.
LEMMA TypeStep ==
  ASSUME TypeOK, [Next]_vars
  PROVE  TypeOK'
<1>1. CASE ClockMoves
  BY <1>1, Zenon DEF ClockMoves, TypeOK
<1>2. ASSUME NEW e \in Envelopes, NEW k \in 0..Len(queue), RejectReplay(e, k)
      PROVE  TypeOK'
  BY <1>2, RetainedFacts, Zenon DEF RejectReplay, Evict, StillActive, TypeOK
<1>3. ASSUME NEW e \in Envelopes, NEW s \in Senders, NEW k \in 0..Len(queue),
             RejectRateLimit(e, s, k)
      PROVE  TypeOK'
  BY <1>3, RetainedFacts, PurgeType, Zenon
  DEF RejectRateLimit, Evict, StillActive, TypeOK
<1>4. ASSUME NEW e \in Envelopes, NEW s \in Senders, NEW k \in 0..Len(queue),
             Accept(e, s, k)
      PROVE  TypeOK'
  <2>1. buckets' \in [Senders -> Buckets \cup {NoBucket}]
    <3>1. Spent(s) \in Nat /\ Spent(s) + 1 \in 0..PerWindow
      BY <1>4, PostmanAssumption DEF Accept, Spent, TypeOK, Buckets
    <3>2. [start |-> WindowStart, count |-> Spent(s) + 1] \in Buckets
      BY <3>1, WindowStartType, Zenon DEF TypeOK, Buckets
    <3> QED BY <1>4, <3>2, PurgeType, Zenon DEF Accept, Charge
  <2>2. queue' \in Seq(Arrivals) /\ active' \subseteq Envelopes
    <3>1. [at |-> now, envelope |-> e] \in Arrivals
      BY Zenon DEF TypeOK, Arrivals
    <3> QED BY <1>4, <3>1, RetainedFacts
            DEF Accept, Record, StillActive, TypeOK
  <2>3. delivered' \in Seq(Deliveries)
    <3>1. [at |-> now, envelope |-> e, sender |-> s] \in Deliveries
      BY Zenon DEF TypeOK, Deliveries
    <3> QED BY <1>4, <3>1 DEF Accept, TypeOK
  <2> QED BY <1>4, <2>1, <2>2, <2>3, Zenon DEF Accept, TypeOK
<1>5. CASE UNCHANGED vars
  BY <1>5, Zenon DEF TypeOK, vars
<1> QED BY <1>1, <1>2, <1>3, <1>4, <1>5, Zenon DEF Next, RejectUnparsed

\* Type correctness of the router's state.
THEOREM TypeCorrect == Spec => []TypeOK
<1>1. Init => TypeOK
  BY DEF Init, TypeOK
<1>2. TypeOK /\ [Next]_vars => TypeOK'
  BY TypeStep, Zenon
<1> QED BY <1>1, <1>2, PTL DEF Spec

-----------------------------------------------------------------------------
\* Evicting the front of the queue keeps it in step with the lookup set.
LEMMA EvictConsistent ==
  ASSUME TypeOK, LookupIsQueue, NEW k \in 0..Len(queue)
  PROVE  /\ StillActive(k) =
              {Retained(k)[i].envelope : i \in DOMAIN Retained(k)}
         /\ \A i, j \in DOMAIN Retained(k) :
              Retained(k)[i].envelope = Retained(k)[j].envelope => i = j
<1> DEFINE n == Len(queue)
           R == Retained(k)
<1>1. /\ queue \in Seq(Arrivals) /\ n \in Nat /\ DOMAIN queue = 1..n
      /\ k \in Nat /\ k <= n
  BY DEF TypeOK
<1>2. /\ DOMAIN R = 1..(n - k)
      /\ \A i \in 1..(n - k) : R[i] = queue[i + k]
  BY <1>1, RetainedFacts, Zenon
<1>3. \A i \in 1..(n - k) : i + k \in DOMAIN queue /\ i + k \notin 1..k
  BY <1>1
<1>4. \A i, j \in DOMAIN R : R[i].envelope = R[j].envelope => i = j
  <2> SUFFICES ASSUME NEW i \in 1..(n - k), NEW j \in 1..(n - k),
                      queue[i + k].envelope = queue[j + k].envelope
               PROVE  i = j
    BY <1>2, Zenon
  <2>1. i + k = j + k
    BY <1>3, Zenon DEF LookupIsQueue
  <2> QED BY <1>1, <2>1
<1>5. StillActive(k) \subseteq {R[i].envelope : i \in DOMAIN R}
  <2> SUFFICES ASSUME NEW x \in StillActive(k)
               PROVE  \E i \in DOMAIN R : x = R[i].envelope
    BY Zenon
  <2>1. PICK j \in DOMAIN queue : x = queue[j].envelope
    BY Zenon DEF StillActive, LookupIsQueue
  <2>2. j \notin 1..k
    BY <2>1, Zenon DEF StillActive
  <2>3. j - k \in 1..(n - k) /\ (j - k) + k = j
    BY <1>1, <2>1, <2>2
  <2> QED BY <1>2, <2>1, <2>3, Zenon
<1>6. {R[i].envelope : i \in DOMAIN R} \subseteq StillActive(k)
  <2> SUFFICES ASSUME NEW i \in 1..(n - k)
               PROVE  queue[i + k].envelope \in StillActive(k)
    BY <1>2, Zenon
  <2>1. queue[i + k].envelope \in active
    BY <1>3, Zenon DEF LookupIsQueue
  <2>2. \A j \in 1..k : queue[j].envelope # queue[i + k].envelope
    BY <1>1, <1>3 DEF LookupIsQueue
  <2> QED BY <2>1, <2>2, Zenon DEF StillActive
<1> QED BY <1>4, <1>5, <1>6, Zenon

\* Appending an envelope that is not remembered keeps the guard consistent.
LEMMA GuardStep ==
  ASSUME TypeOK, LookupIsQueue, [Next]_vars
  PROVE  LookupIsQueue'
<1>1. ASSUME NEW k \in 0..Len(queue), Evict(k)
      PROVE  LookupIsQueue'
  BY <1>1, EvictConsistent DEF Evict, LookupIsQueue
<1>2. ASSUME NEW e \in Envelopes, NEW k \in 0..Len(queue),
             e \notin StillActive(k), Record(e, k)
      PROVE  LookupIsQueue'
  <2> DEFINE R == Retained(k)
             n == Len(R)
  <2>1. R \in Seq(Arrivals) /\ n \in Nat /\ DOMAIN R = 1..n
    BY RetainedFacts DEF TypeOK
  <2>2. /\ queue' = Append(R, [at |-> now, envelope |-> e])
        /\ DOMAIN queue' = 1..(n + 1)
        /\ queue'[n + 1].envelope = e
        /\ \A i \in 1..n : queue'[i] = R[i]
    BY <1>2, <2>1 DEF Record
  <2>3. \A i \in 1..n : queue'[i].envelope # e
    BY <1>2, <2>1, <2>2, EvictConsistent
  <2>4. \A i \in 1..(n + 1) : i \in 1..n \/ i = n + 1
    BY <2>1
  <2>5. active' = {queue'[i].envelope : i \in DOMAIN queue'}
    <3>1. active' = {R[i].envelope : i \in 1..n} \cup {e}
      BY <1>2, <2>1, EvictConsistent, Zenon DEF Record
    <3>2. n + 1 \in 1..(n + 1) /\ 1..n \subseteq 1..(n + 1)
      BY <2>1
    <3> QED BY <2>2, <2>4, <3>1, <3>2, Zenon
  <2>6. \A i, j \in DOMAIN queue' :
          queue'[i].envelope = queue'[j].envelope => i = j
    <3> HIDE DEF R, n
    <3>1. \A i, j \in 1..n : R[i].envelope = R[j].envelope => i = j
      BY <2>1, EvictConsistent, Zenon DEF R
    <3>2. \A i \in 1..n : queue'[i].envelope = R[i].envelope
      BY <2>2, Zenon
    <3> SUFFICES ASSUME NEW i \in DOMAIN queue', NEW j \in DOMAIN queue',
                        queue'[i].envelope = queue'[j].envelope
                 PROVE  i = j
      BY Zenon
    <3>3. (i \in 1..n \/ i = n + 1) /\ (j \in 1..n \/ j = n + 1)
      BY <2>2, <2>4, Zenon
    <3>4. CASE i \in 1..n /\ j \in 1..n
      BY <3>1, <3>2, <3>4, Zenon
    <3> QED BY <2>2, <2>3, <3>3, <3>4, Zenon
  <2> QED BY <2>5, <2>6, Zenon DEF LookupIsQueue
<1>3. CASE UNCHANGED <<active, queue>>
  BY <1>3, Zenon DEF LookupIsQueue
<1> QED BY <1>1, <1>2, <1>3, Zenon
        DEF Next, ClockMoves, RejectUnparsed, RejectReplay, RejectRateLimit,
            Accept, vars

\* Eviction only forgets, and what is recorded is delivered in the same step.
LEMMA RememberedStep ==
  ASSUME TypeOK, OnlyDeliveredRemembered, [Next]_vars
  PROVE  OnlyDeliveredRemembered'
<1>0. /\ queue \in Seq(Arrivals) /\ Len(queue) \in Nat
      /\ DOMAIN queue = 1..Len(queue)
      /\ delivered \in Seq(Deliveries) /\ Len(delivered) \in Nat
      /\ DOMAIN delivered = 1..Len(delivered)
  BY DEF TypeOK
<1>1. ASSUME NEW k \in 0..Len(queue), NEW i \in DOMAIN Retained(k)
      PROVE  \E j \in DOMAIN delivered :
               /\ delivered[j].envelope = Retained(k)[i].envelope
               /\ delivered[j].at = Retained(k)[i].at
  <2>1. /\ i \in 1..(Len(queue) - k)
        /\ Retained(k)[i] = queue[i + k]
    BY <1>0, <1>1, RetainedFacts, Zenon
  <2>2. i + k \in DOMAIN queue
    BY <1>0, <2>1
  <2> QED BY <2>1, <2>2 DEF OnlyDeliveredRemembered
<1>2. ASSUME NEW k \in 0..Len(queue), Evict(k), UNCHANGED delivered
      PROVE  OnlyDeliveredRemembered'
  BY <1>1, <1>2 DEF Evict, OnlyDeliveredRemembered
<1>3. ASSUME NEW e \in Envelopes, NEW s \in Senders, NEW k \in 0..Len(queue),
             Accept(e, s, k)
      PROVE  OnlyDeliveredRemembered'
  <2> DEFINE R == Retained(k)
             n == Len(R)
             m == Len(delivered)
  <2>1. R \in Seq(Arrivals) /\ n \in Nat /\ DOMAIN R = 1..n
    BY RetainedFacts DEF TypeOK
  <2>2. /\ DOMAIN queue' = 1..(n + 1)
        /\ queue'[n + 1] = [at |-> now, envelope |-> e]
        /\ \A i \in 1..n : queue'[i] = R[i]
    BY <1>3, <2>1 DEF Accept, Record
  <2>3. /\ DOMAIN delivered' = 1..(m + 1)
        /\ delivered'[m + 1] = [at |-> now, envelope |-> e, sender |-> s]
        /\ \A j \in 1..m : delivered'[j] = delivered[j]
    BY <1>0, <1>3 DEF Accept
  <2>4. m + 1 \in 1..(m + 1) /\ 1..m \subseteq 1..(m + 1)
    BY <1>0
  <2>5. \A i \in 1..(n + 1) : i \in 1..n \/ i = n + 1
    BY <2>1
  <2> SUFFICES ASSUME NEW i \in 1..(n + 1)
               PROVE  \E j \in 1..(m + 1) :
                        /\ delivered'[j].envelope = queue'[i].envelope
                        /\ delivered'[j].at = queue'[i].at
    BY <2>2, <2>3, Zenon DEF OnlyDeliveredRemembered
  <2>6. CASE i = n + 1
    BY <2>2, <2>3, <2>4, <2>6
  <2>7. CASE i \in 1..n
    <3>1. PICK j \in DOMAIN delivered : /\ delivered[j].envelope = R[i].envelope
                                        /\ delivered[j].at = R[i].at
      BY <1>1, <2>1, <2>7, Zenon
    <3> QED BY <1>0, <2>2, <2>3, <2>4, <2>7, <3>1, Zenon
  <2> QED BY <2>5, <2>6, <2>7, Zenon
<1>4. CASE UNCHANGED <<queue, delivered>>
  BY <1>4, Zenon DEF OnlyDeliveredRemembered
<1> QED BY <1>2, <1>3, <1>4, Zenon
        DEF Next, ClockMoves, RejectUnparsed, RejectReplay, RejectRateLimit,
            vars

\* The ReplayGuard's lookup set always equals its queue, each hash once and
\* only for envelopes that were delivered, however the clock moves.
THEOREM GuardConsistentHolds == Spec => []GuardConsistent
<1>1. Init => LookupIsQueue /\ OnlyDeliveredRemembered
  BY DEF Init, LookupIsQueue, OnlyDeliveredRemembered
<1>2. TypeOK /\ LookupIsQueue /\ [Next]_vars => LookupIsQueue'
  BY GuardStep, Zenon
<1>3. TypeOK /\ OnlyDeliveredRemembered /\ [Next]_vars =>
        OnlyDeliveredRemembered'
  BY RememberedStep, Zenon
<1>4. LookupIsQueue /\ OnlyDeliveredRemembered => GuardConsistent
  BY Zenon DEF GuardConsistent
<1> QED BY <1>1, <1>2, <1>3, <1>4, TypeCorrect, PTL DEF Spec

-----------------------------------------------------------------------------
InQueue(d) ==
  \E i \in DOMAIN queue :
    queue[i].envelope = d.envelope /\ queue[i].at = d.at

\* A delivered envelope is in the queue or older than the replay window.
RememberInv ==
  \A i \in DOMAIN delivered :
    \/ InQueue(delivered[i])
    \/ delivered[i].at + ReplayWindow < now

ReplayInv == RememberInv /\ NoReplayInWindow

\* Eviction at time `now' drops only what is older than the window.
LEMMA EvictRemembers ==
  ASSUME TypeOK, RememberInv, NEW k \in 0..Len(queue), Expires(k),
         NEW i \in DOMAIN delivered
  PROVE  \/ \E j \in DOMAIN Retained(k) :
              /\ Retained(k)[j].envelope = delivered[i].envelope
              /\ Retained(k)[j].at = delivered[i].at
         \/ delivered[i].at + ReplayWindow < now
<1>1. CASE delivered[i].at + ReplayWindow < now
  BY <1>1, Zenon
<1>2. CASE InQueue(delivered[i])
  <2>1. PICK j \in DOMAIN queue : /\ queue[j].envelope = delivered[i].envelope
                                  /\ queue[j].at = delivered[i].at
    BY <1>2, Zenon DEF InQueue
  <2>2. /\ queue \in Seq(Arrivals) /\ Len(queue) \in Nat
        /\ j \in 1..Len(queue) /\ k \in Nat /\ k <= Len(queue)
    BY <2>1 DEF TypeOK
  <2>3. CASE j \in 1..k
    <3>1. queue[j].at < Cutoff
      BY <2>3, Zenon DEF Expires
    <3>2. queue[j] \in Arrivals
      BY <2>2
    <3>3. queue[j].at \in Nat /\ now \in Nat
      BY <3>2, TimesAreNat, Zenon DEF TypeOK, Arrivals
    <3>4. queue[j].at + ReplayWindow < now
      BY <3>1, <3>3, TimesAreNat DEF Cutoff
    <3> QED BY <2>1, <3>4, Zenon
  <2>4. CASE j \notin 1..k
    <3>1. j - k \in 1..(Len(queue) - k) /\ (j - k) + k = j
      BY <2>2, <2>4
    <3>2. /\ j - k \in DOMAIN Retained(k)
          /\ Retained(k)[j - k] = queue[j]
      BY <2>2, <3>1, RetainedFacts, Zenon
    <3> QED BY <2>1, <3>2, Zenon
  <2> QED BY <2>3, <2>4, Zenon
<1> QED BY <1>1, <1>2, Zenon DEF RememberInv

\* With a monotone clock every step keeps the replay memory complete.
LEMMA ReplayStep ==
  ASSUME MaxStepBack = 0, TypeOK, LookupIsQueue, ReplayInv, [Next]_vars
  PROVE  ReplayInv'
<1> USE DEF ReplayInv
<1>0. /\ delivered \in Seq(Deliveries)
      /\ \A i \in DOMAIN delivered : delivered[i].at \in Nat
      /\ now \in Nat /\ ReplayWindow \in Nat
  <2>1. \A i \in DOMAIN delivered : delivered[i] \in Deliveries
    BY DEF TypeOK
  <2> QED BY <2>1, TimesAreNat, Zenon DEF TypeOK, Deliveries
<1>1. CASE ClockMoves
  <2>1. now' \in Nat /\ now' >= now
    BY <1>0, <1>1, TimesAreNat DEF ClockMoves
  <2>2. RememberInv'
    <3> SUFFICES ASSUME NEW i \in DOMAIN delivered
                 PROVE  \/ InQueue(delivered[i])
                        \/ delivered[i].at + ReplayWindow < now'
      BY <1>1, Zenon DEF ClockMoves, RememberInv, InQueue
    <3> QED BY <1>0, <2>1 DEF RememberInv
  <2> QED BY <1>1, <2>2, Zenon DEF ClockMoves, NoReplayInWindow
<1>2. ASSUME NEW k \in 0..Len(queue), Expires(k), Evict(k),
             UNCHANGED <<now, delivered>>
      PROVE  ReplayInv'
  <2>1. RememberInv'
    BY <1>2, EvictRemembers, Zenon DEF RememberInv, InQueue, Evict
  <2> QED BY <1>2, <2>1, Zenon DEF NoReplayInWindow
<1>3. ASSUME NEW e \in Envelopes, NEW s \in Senders, NEW k \in 0..Len(queue),
             Accept(e, s, k)
      PROVE  ReplayInv'
  <2> DEFINE R == Retained(k)
             n == Len(R)
             m == Len(delivered)
             new == [at |-> now, envelope |-> e, sender |-> s]
  <2>1. R \in Seq(Arrivals) /\ n \in Nat /\ DOMAIN R = 1..n
    BY RetainedFacts, SMTT(60) DEF TypeOK
  <2>2. /\ DOMAIN queue' = 1..(n + 1)
        /\ queue'[n + 1] = [at |-> now, envelope |-> e]
        /\ \A j \in 1..n : queue'[j] = R[j]
    BY <1>3, <2>1, SMTT(60) DEF Accept, Record
  <2>3. /\ m \in Nat /\ DOMAIN delivered = 1..m
        /\ DOMAIN delivered' = 1..(m + 1)
        /\ delivered'[m + 1] = new
        /\ \A i \in 1..m : delivered'[i] = delivered[i]
    BY <1>0, <1>3 DEF Accept
  <2>4. \A i \in 1..(m + 1) : i \in 1..m \/ i = m + 1
    BY <2>3
  <2>5. now' = now
    BY <1>3, Zenon DEF Accept
  <2>6. RememberInv'
    <3> SUFFICES ASSUME NEW i \in DOMAIN delivered'
                 PROVE  \/ \E j \in DOMAIN queue' :
                             /\ queue'[j].envelope = delivered'[i].envelope
                             /\ queue'[j].at = delivered'[i].at
                        \/ delivered'[i].at + ReplayWindow < now'
      BY Zenon DEF RememberInv, InQueue
    <3>1. CASE i = m + 1
      <4>1. n + 1 \in DOMAIN queue'
        BY <2>1, <2>2
      <4> QED BY <2>2, <2>3, <3>1, <4>1
    <3>2. CASE i \in 1..m
      <4>1. \/ \E j \in DOMAIN R : /\ R[j].envelope = delivered[i].envelope
                                   /\ R[j].at = delivered[i].at
            \/ delivered[i].at + ReplayWindow < now
        BY <1>3, <2>3, <3>2, EvictRemembers, Zenon DEF Accept
      <4>2. \A j \in 1..n : j \in 1..(n + 1)
        BY <2>1
      <4> QED BY <2>1, <2>2, <2>3, <2>5, <3>2, <4>1, <4>2, Zenon
    <3> QED BY <2>3, <2>4, <3>1, <3>2, Zenon
  <2>7. \A i \in 1..m : delivered[i].envelope = e =>
          delivered[i].at + ReplayWindow < now
    <3> SUFFICES ASSUME NEW i \in 1..m, delivered[i].envelope = e
                 PROVE  delivered[i].at + ReplayWindow < now
      BY Zenon
    <3>1. \A j \in DOMAIN R : R[j].envelope # e
      BY <1>3, EvictConsistent DEF Accept
    <3> QED BY <1>3, <2>3, <3>1, EvictRemembers, Zenon DEF Accept
  <2>8. NoReplayInWindow'
    <3> SUFFICES ASSUME NEW i \in 1..(m + 1), NEW j \in 1..(m + 1), i < j,
                        delivered'[i].envelope = delivered'[j].envelope
                 PROVE  delivered'[j].at > delivered'[i].at + ReplayWindow
      BY <2>3, Zenon DEF NoReplayInWindow
    <3>1. i \in 1..m
      BY SMTT(30), <2>3
    <3>2. CASE j \in 1..m
      BY <2>3, <3>1, <3>2, Zenon DEF NoReplayInWindow
    <3>3. CASE j = m + 1
      <4>1. delivered[i].at + ReplayWindow < now
        BY <2>3, <2>7, <3>1, <3>3
      <4>2. delivered'[j].at = now /\ delivered'[i].at = delivered[i].at
        BY <2>3, <3>1, <3>3
      <4>3. delivered[i].at \in Nat
        BY <1>0, <2>3, <3>1, Zenon
      <4> QED BY <1>0, <4>1, <4>2, <4>3, Zenon
    <3> QED BY <2>4, <3>2, <3>3, Zenon
  <2> QED BY <2>6, <2>8, Zenon
<1>4. CASE UNCHANGED vars
  BY <1>4, Zenon DEF vars, RememberInv, InQueue, NoReplayInWindow
<1> QED BY <1>1, <1>2, <1>3, <1>4, Zenon
        DEF Next, RejectUnparsed, RejectReplay, RejectRateLimit

\* With a monotone clock, no envelope is delivered twice within the replay
\* window, whatever the limiter decides in between.
THEOREM NoReplayInWindowHolds ==
  ASSUME MaxStepBack = 0
  PROVE  Spec => []NoReplayInWindow
<1>1. Init => ReplayInv
  BY DEF Init, ReplayInv, RememberInv, NoReplayInWindow
<1>2. TypeOK /\ GuardConsistent /\ ReplayInv /\ [Next]_vars => ReplayInv'
  BY ReplayStep, Zenon DEF GuardConsistent
<1>3. ReplayInv => NoReplayInWindow
  BY Zenon DEF ReplayInv
<1> QED BY <1>1, <1>2, <1>3, TypeCorrect, GuardConsistentHolds, PTL DEF Spec

-----------------------------------------------------------------------------
\* The table of buckets never outgrows its capacity, whatever the clock does.
Tracked == {s \in Senders : buckets[s] # NoBucket}
TableInv == Cardinality(Tracked) <= MaxTrackedSenders

\* What the limiter knows of the deliveries of a fixed window, with the two
\* facts about time that keep it true when the clock moves on.
QuotaInv ==
  /\ \A i \in DOMAIN delivered : delivered[i].at <= now
  /\ \A s \in Senders : buckets[s] # NoBucket => buckets[s].start <= now
  /\ QuotaChargesDeliveries
  /\ \A s \in Senders, t \in Times :
       t % RateWindow = 0 =>
         Cardinality(DeliveredIn(s, t, t + RateWindow)) <= PerWindow

\* The fixed window of a time: it holds the time, it is the only window that
\* does, and a later time is in the same window or in one that starts later.
LEMMA WindowOf ==
  ASSUME NEW n \in Nat
  PROVE  LET W == (n \div RateWindow) * RateWindow
         IN  /\ W \in Nat /\ W <= n /\ n < W + RateWindow
             /\ W % RateWindow = 0
<1> DEFINE q == n \div RateWindow
<1>0. RateWindow \in Nat /\ RateWindow > 0
  BY PostmanAssumption
<1>1. /\ q \in Nat /\ n = RateWindow * q + (n % RateWindow)
      /\ n % RateWindow \in 0..(RateWindow - 1)
  BY <1>0
<1> HIDE DEF q
<1>2. q * RateWindow = RateWindow * q /\ q * RateWindow \in Nat
  BY <1>0, <1>1
<1>3. (q * RateWindow) % RateWindow = 0
  BY <1>0, <1>1
<1> QED
  BY <1>0, <1>1, <1>2, <1>3 DEF q

\* Products with the window length are ordered like their factors.
LEMMA ProductOrder ==
  ASSUME NEW p \in Nat, NEW q \in Nat, p < q
  PROVE  p * RateWindow + RateWindow <= q * RateWindow
<1>0. RateWindow \in Nat
  BY PostmanAssumption, Zenon
<1>1. p + 1 <= q
  OBVIOUS
<1> DEFINE d == q - (p + 1)
<1>2. d \in Nat /\ q = p + 1 + d
  BY <1>1
<1> HIDE DEF d
<1>3. q * RateWindow = p * RateWindow + RateWindow + d * RateWindow
  BY <1>0, <1>2
<1>4. d * RateWindow \in Nat /\ p * RateWindow \in Nat
  BY <1>0, <1>2
<1> QED
  BY <1>0, <1>3, <1>4

\* A multiple of the window length whose window holds n starts n's window.
LEMMA WindowUnique ==
  ASSUME NEW n \in Nat, NEW t \in Nat, t % RateWindow = 0,
         t <= n, n < t + RateWindow
  PROVE  t = (n \div RateWindow) * RateWindow
<1> DEFINE p == t \div RateWindow
           q == n \div RateWindow
<1>0. RateWindow \in Nat /\ RateWindow > 0
  BY PostmanAssumption
<1>1. p \in Nat /\ q \in Nat
  BY <1>0
<1>2. t = p * RateWindow
  <2>1. t = RateWindow * p + (t % RateWindow)
    BY <1>0
  <2> HIDE DEF p
  <2> QED
    BY <1>0, <1>1, <2>1
<1>3. q * RateWindow \in Nat /\ q * RateWindow <= n /\ n < q * RateWindow + RateWindow
  BY WindowOf, Zenon
<1> HIDE DEF p, q
<1>4. p < q => p * RateWindow + RateWindow <= q * RateWindow
  BY <1>1, ProductOrder, Zenon
<1>5. q < p => q * RateWindow + RateWindow <= p * RateWindow
  BY <1>1, ProductOrder, Zenon
<1>6. p * RateWindow \in Nat
  BY <1>2, Zenon
<1>7. p = q
  BY <1>0, <1>1, <1>2, <1>3, <1>4, <1>5, <1>6
<1> QED
  BY <1>2, <1>7, Zenon DEF q

\* A clock that moves on stays in the window or leaves it for good.
LEMMA WindowAdvance ==
  ASSUME NEW n \in Nat, NEW m \in Nat, n <= m
  PROVE  LET W(x) == (x \div RateWindow) * RateWindow
         IN  W(m) = W(n) \/ n < W(m)
<1> DEFINE W(x) == (x \div RateWindow) * RateWindow
<1>1. W(m) \in Nat /\ W(m) <= m /\ m < W(m) + RateWindow /\ W(m) % RateWindow = 0
  BY WindowOf, Zenon
<1>2. CASE W(m) <= n
  <2>1. n < W(m) + RateWindow
    BY <1>1, PostmanAssumption
  <2>2. W(m) = (n \div RateWindow) * RateWindow
    BY <1>1, <1>2, <2>1, WindowUnique, Zenon
  <2> QED
    BY <2>2, Zenon
<1> HIDE DEF W
<1>3. CASE n < W(m)
  BY <1>3, Zenon DEF W
<1>4. W(m) <= n \/ n < W(m)
  BY <1>1
<1> QED
  BY <1>2, <1>3, <1>4, Zenon DEF W

\* The senders tracked are finitely many.
LEMMA TrackedFinite == IsFiniteSet(Tracked) /\ Cardinality(Tracked) \in Nat
<1>1. IsFiniteSet(Senders) /\ Tracked \in SUBSET Senders
  BY PostmanAssumption, Zenon DEF Tracked
<1> QED
  BY <1>1, FS_Subset, FS_CardinalityType, Zenon

\* `allow' adds a sender only when the purge has left room for it.
LEMMA TableStep ==
  ASSUME TypeOK, TableInv, [Next]_vars
  PROVE  TableInv'
<1>f. IsFiniteSet(Tracked) /\ Cardinality(Tracked) \in Nat
  BY TrackedFinite, Zenon
<1>m. MaxTrackedSenders \in Nat
  BY PostmanAssumption, Zenon
<1>1. ASSUME NEW s \in Senders
      PROVE  LET kept == {t \in Senders : AfterPurge(s)[t] # NoBucket}
             IN  /\ IsFiniteSet(kept) /\ Cardinality(kept) \in Nat
                 /\ Cardinality(kept) <= MaxTrackedSenders
  <2> DEFINE kept == {t \in Senders : AfterPurge(s)[t] # NoBucket}
  <2>1. kept \in SUBSET Tracked
    BY Zenon DEF AfterPurge, Tracked
  <2>2. /\ IsFiniteSet(kept) /\ Cardinality(kept) \in Nat
        /\ Cardinality(kept) <= Cardinality(Tracked)
    BY <1>f, <2>1, FS_Subset, FS_CardinalityType, Zenon
  <2> HIDE DEF kept
  <2>3. Cardinality(kept) <= MaxTrackedSenders
    BY <1>f, <1>m, <2>2 DEF TableInv
  <2> QED
    BY <2>2, <2>3, Zenon DEF kept
<1>2. ASSUME NEW e \in Envelopes, NEW s \in Senders, NEW k \in 0..Len(queue),
             RejectRateLimit(e, s, k)
      PROVE  TableInv'
  <2>1. CASE buckets' = AfterPurge(s)
    BY <1>1, <2>1, Zenon DEF TableInv, Tracked
  <2>2. CASE UNCHANGED buckets
    BY <2>2, Zenon DEF TableInv, Tracked
  <2> QED
    BY <1>2, <2>1, <2>2, Zenon DEF RejectRateLimit
<1>3. ASSUME NEW e \in Envelopes, NEW s \in Senders, NEW k \in 0..Len(queue),
             Accept(e, s, k)
      PROVE  TableInv'
  <2> DEFINE kept == {t \in Senders : AfterPurge(s)[t] # NoBucket}
  <2>1. ~TableFull(s) /\ Charge(s)
    BY <1>3, Zenon DEF Accept
  <2>2. Tracked' \subseteq kept \cup {s}
    BY <2>1, PurgeType, Zenon DEF Tracked, Charge
  <2>3. /\ IsFiniteSet(kept) /\ Cardinality(kept) \in Nat
        /\ Cardinality(kept) <= MaxTrackedSenders
    BY <1>1, Zenon
  <2>4. s \in kept \/ Cardinality(kept) < MaxTrackedSenders
    <3>1. CASE buckets[s] # NoBucket
      BY <3>1, Zenon DEF AfterPurge
    <3>2. CASE buckets[s] = NoBucket
      <4>1. ~(Cardinality(kept) >= MaxTrackedSenders)
        BY <2>1, <3>2, Zenon DEF TableFull
      <4> HIDE DEF kept
      <4> QED
        BY <1>m, <2>3, <4>1
    <3> QED
      BY <3>1, <3>2, Zenon
  <2> HIDE DEF kept
  <2>5. /\ IsFiniteSet(kept \cup {s})
        /\ Cardinality(kept \cup {s}) <= MaxTrackedSenders
        /\ Cardinality(kept \cup {s}) \in Nat
    BY <1>m, <2>3, <2>4, FS_AddElement
  <2>6. Cardinality(Tracked') <= Cardinality(kept \cup {s}) /\ IsFiniteSet(Tracked')
    BY <2>2, <2>5, FS_Subset, Zenon
  <2>7. Cardinality(Tracked') \in Nat
    BY <2>6, FS_CardinalityType, Zenon
  <2> QED
    BY <1>m, <2>5, <2>6, <2>7 DEF TableInv
<1>4. CASE UNCHANGED buckets
  BY <1>4, Zenon DEF TableInv, Tracked
<1> QED
  BY <1>2, <1>3, <1>4, Zenon
  DEF Next, ClockMoves, RejectUnparsed, RejectReplay, vars

-----------------------------------------------------------------------------
\* A sender's deliveries in a stretch of time are finitely many.
LEMMA DeliveredFinite ==
  ASSUME TypeOK, NEW s, NEW a, NEW b
  PROVE  /\ IsFiniteSet(DeliveredIn(s, a, b))
         /\ Cardinality(DeliveredIn(s, a, b)) \in Nat
<1>1. DOMAIN delivered = 1..Len(delivered) /\ Len(delivered) \in Nat
  BY DEF TypeOK
<1>2. IsFiniteSet(DOMAIN delivered)
  BY <1>1, FS_Interval
<1>3. DeliveredIn(s, a, b) \in SUBSET (DOMAIN delivered)
  BY Zenon DEF DeliveredIn
<1> QED
  BY <1>2, <1>3, FS_Subset, FS_CardinalityType, Zenon

\* A delivery counts once, for its sender, in the windows that hold its time.
LEMMA DeliveredAppend ==
  ASSUME TypeOK, NEW e \in Envelopes, NEW s \in Senders, NEW u \in Senders,
         NEW a \in Nat, NEW b \in Nat,
         delivered' = Append(delivered, [at |-> now, envelope |-> e, sender |-> s])
  PROVE  Cardinality(DeliveredIn(u, a, b)') =
           IF u = s /\ a <= now /\ now < b
           THEN Cardinality(DeliveredIn(u, a, b)) + 1
           ELSE Cardinality(DeliveredIn(u, a, b))
<1> DEFINE m == Len(delivered)
           new == [at |-> now, envelope |-> e, sender |-> s]
           D == DeliveredIn(u, a, b)
<1>0. delivered \in Seq(Deliveries) /\ new \in Deliveries /\ now \in Nat
  BY TimesAreNat, Zenon DEF TypeOK, Deliveries
<1>1. /\ m \in Nat /\ DOMAIN delivered = 1..m
      /\ DOMAIN delivered' = 1..(m + 1)
      /\ delivered'[m + 1] = new
      /\ \A i \in 1..m : delivered'[i] = delivered[i]
  BY <1>0
<1>2. \A i \in 1..(m + 1) : i \in 1..m \/ i = m + 1
  BY <1>1
<1>3. m + 1 \notin D /\ m + 1 \in 1..(m + 1) /\ \A i \in 1..m : i \in 1..(m + 1)
  BY <1>1 DEF DeliveredIn
<1>4. IsFiniteSet(D)
  BY DeliveredFinite, Zenon
<1>5. CASE u = s /\ a <= now /\ now < b
  <2>1. DeliveredIn(u, a, b)' = D \cup {m + 1}
    BY <1>1, <1>2, <1>3, <1>5 DEF DeliveredIn
  <2> QED
    BY <1>3, <1>4, <1>5, <2>1, FS_AddElement, ZenonT(60)
<1>6. CASE ~(u = s /\ a <= now /\ now < b)
  <2>1. DeliveredIn(u, a, b)' = D
    BY <1>0, <1>1, <1>2, <1>3, <1>6 DEF DeliveredIn
  <2> QED
    BY <1>6, <2>1, Zenon
<1> QED
  BY <1>5, <1>6, Zenon

\* A bucket that the purge drops belongs to an earlier window and stands for
\* nothing.
LEMMA PurgeForgetsNothing ==
  ASSUME TypeOK, NEW s \in Senders, NEW u \in Senders
  PROVE  /\ AfterPurge(s)[u] \in {buckets[u], NoBucket}
         /\ Spent(u) =
              IF AfterPurge(s)[u] # NoBucket /\ AfterPurge(s)[u].start = WindowStart
              THEN AfterPurge(s)[u].count ELSE 0
BY Zenon DEF TypeOK, AfterPurge, Spent

\* Moving on to a later time: the quota of a window that is left is forgotten
\* together with its deliveries.
LEMMA QuotaClock ==
  ASSUME TypeOK, TypeOK', QuotaInv, now <= now', UNCHANGED <<buckets, delivered>>
  PROVE  QuotaInv'
<1>0. now \in Nat /\ now' \in Nat /\ RateWindow \in Nat
  BY PostmanAssumption DEF TypeOK, Times
<1>1. \A i \in DOMAIN delivered : delivered[i].at \in Nat
  <2>1. \A i \in DOMAIN delivered : delivered[i] \in Deliveries
    BY DEF TypeOK
  <2> QED
    BY <2>1, TimesAreNat, Zenon DEF Deliveries
<1>2. \A s \in Senders : buckets[s] # NoBucket => buckets[s].start \in Nat
  BY TimesAreNat, Zenon DEF TypeOK, Buckets
<1>3. \A i \in DOMAIN delivered' : delivered'[i].at <= now'
  BY <1>0, <1>1 DEF QuotaInv
<1>4. \A s \in Senders : buckets'[s] # NoBucket => buckets'[s].start <= now'
  BY <1>0, <1>2 DEF QuotaInv
<1>5. QuotaChargesDeliveries'
  <2>1. CASE WindowStart' = WindowStart
    BY <2>1, Zenon DEF QuotaInv, QuotaChargesDeliveries, Spent, DeliveredIn
  <2>2. CASE now < WindowStart'
    <3> SUFFICES ASSUME NEW s \in Senders
                 PROVE  Spent(s)' =
                          Cardinality(DeliveredIn(s, WindowStart, WindowStart + RateWindow)')
      BY Zenon DEF QuotaChargesDeliveries
    <3>w. WindowStart' \in Nat
      BY <1>0, WindowOf, Zenon DEF WindowStart
    <3>1. Spent(s)' = 0
      BY <1>0, <1>2, <2>2, <3>w DEF QuotaInv, Spent
    <3>2. DeliveredIn(s, WindowStart, WindowStart + RateWindow)' = {}
      BY <1>0, <1>1, <2>2, <3>w DEF QuotaInv, DeliveredIn
    <3> QED
      BY <3>1, <3>2, FS_EmptySet, Zenon
  <2>3. WindowStart' = WindowStart \/ now < WindowStart'
    BY <1>0, WindowAdvance, Zenon DEF WindowStart
  <2> QED
    BY <2>1, <2>2, <2>3, Zenon
<1>6. \A s \in Senders, t \in Times :
        t % RateWindow = 0 =>
          Cardinality(DeliveredIn(s, t, t + RateWindow)') <= PerWindow
  BY Zenon DEF QuotaInv, DeliveredIn
<1> QED
  BY <1>3, <1>4, <1>5, <1>6, Zenon DEF QuotaInv

\* A purge alone changes no quota.
LEMMA QuotaPurge ==
  ASSUME TypeOK, QuotaInv, NEW s \in Senders, buckets' = AfterPurge(s),
         UNCHANGED <<now, delivered>>
  PROVE  QuotaInv'
<1>1. \A u \in Senders : Spent(u)' = Spent(u)
  BY PurgeForgetsNothing, Zenon DEF Spent, WindowStart
<1>2. \A u \in Senders : buckets'[u] \in {buckets[u], NoBucket}
  BY PurgeForgetsNothing, Zenon
<1>3. QuotaChargesDeliveries'
  BY <1>1, Zenon DEF QuotaInv, QuotaChargesDeliveries, DeliveredIn, WindowStart
<1>4. \A u \in Senders : buckets'[u] # NoBucket => buckets'[u].start <= now'
  BY <1>2, Zenon DEF QuotaInv
<1> QED
  BY <1>3, <1>4, Zenon DEF QuotaInv, DeliveredIn

\* An accepted envelope is charged to its sender in the current window, and
\* only there.
LEMMA QuotaAccept ==
  ASSUME TypeOK, QuotaInv, NEW e \in Envelopes, NEW s \in Senders,
         NEW k \in 0..Len(queue), Accept(e, s, k)
  PROVE  QuotaInv'
<1> DEFINE new == [at |-> now, envelope |-> e, sender |-> s]
           m == Len(delivered)
<1>0. /\ now \in Nat /\ RateWindow \in Nat /\ PerWindow \in Nat
      /\ WindowStart \in Times /\ WindowStart \in Nat
      /\ WindowStart <= now /\ now < WindowStart + RateWindow
      /\ WindowStart % RateWindow = 0
  BY PostmanAssumption, TimesAreNat, WindowStartType, WindowOf, Zenon
  DEF TypeOK, WindowStart
<1>1. /\ now' = now /\ delivered' = Append(delivered, new)
      /\ Charge(s) /\ Spent(s) < PerWindow
  BY Zenon DEF Accept
<1>w. WindowStart' = WindowStart
  BY <1>1, Zenon DEF WindowStart
<1>c. \A u \in Senders, a \in Nat, b \in Nat :
        Cardinality(DeliveredIn(u, a, b)') =
           IF u = s /\ a <= now /\ now < b
           THEN Cardinality(DeliveredIn(u, a, b)) + 1
           ELSE Cardinality(DeliveredIn(u, a, b))
  BY <1>1, DeliveredAppend, ZenonT(60)
<1>2. \A i \in DOMAIN delivered' : delivered'[i].at <= now'
  <2>1. delivered \in Seq(Deliveries) /\ new \in Deliveries
    BY Zenon DEF TypeOK, Deliveries
  <2>2. /\ DOMAIN delivered = 1..m /\ DOMAIN delivered' = 1..(m + 1) /\ m \in Nat
        /\ delivered'[m + 1] = new
        /\ \A i \in 1..m : delivered'[i] = delivered[i]
    BY <1>1, <2>1
  <2>3. \A i \in 1..(m + 1) : i \in 1..m \/ i = m + 1
    BY <2>2
  <2>4. \A i \in 1..m : delivered[i].at <= now
    BY <2>2, Zenon DEF QuotaInv
  <2>5. new.at = now /\ now <= now
    BY <1>0
  <2> HIDE DEF new, m
  <2>6. \A i \in 1..(m + 1) : delivered'[i].at <= now
    BY <2>2, <2>3, <2>4, <2>5, Zenon
  <2> QED
    BY <1>1, <2>2, <2>6, Zenon
<1>3. /\ buckets'[s] = [start |-> WindowStart, count |-> Spent(s) + 1]
      /\ \A u \in Senders : u # s => buckets'[u] = AfterPurge(s)[u]
  BY <1>1, PurgeType, Zenon DEF Charge
<1>4. \A u \in Senders : buckets'[u] # NoBucket => buckets'[u].start <= now'
  BY <1>0, <1>1, <1>3, PurgeForgetsNothing DEF QuotaInv
<1>5. QuotaChargesDeliveries'
  <2> DEFINE R == DeliveredIn(s, WindowStart, WindowStart + RateWindow)
  <2>1. Spent(s) \in Nat /\ buckets'[s] # NoBucket
    <3>1. Spent(s) \in Nat
      BY DEF TypeOK, Buckets, Spent
    <3>2. buckets'[s] \in [start: Nat, count: Nat]
      BY <1>0, <1>3, <3>1
    <3> QED
      BY <3>1, <3>2, NoBucketAssumption, Zenon
  <2>2. Spent(s)' = Spent(s) + 1
    BY <1>3, <1>w, <2>1 DEF Spent
  <2>3. \A u \in Senders : u # s => Spent(u)' = Spent(u)
    BY <1>3, <1>w, PurgeForgetsNothing, Zenon DEF Spent
  <2>4. \A u \in Senders :
          Cardinality(DeliveredIn(u, WindowStart, WindowStart + RateWindow)') =
            IF u = s
            THEN Cardinality(DeliveredIn(u, WindowStart, WindowStart + RateWindow)) + 1
            ELSE Cardinality(DeliveredIn(u, WindowStart, WindowStart + RateWindow))
    <3> SUFFICES ASSUME NEW u \in Senders
                 PROVE  Cardinality(DeliveredIn(u, WindowStart, WindowStart + RateWindow)') =
                          IF u = s
                          THEN Cardinality(DeliveredIn(u, WindowStart, WindowStart + RateWindow)) + 1
                          ELSE Cardinality(DeliveredIn(u, WindowStart, WindowStart + RateWindow))
      BY Zenon
    <3>1. PICK a \in Nat, b \in Nat : a = WindowStart /\ b = WindowStart + RateWindow
      BY <1>0
    <3>2. DeliveredIn(u, WindowStart, WindowStart + RateWindow)' = DeliveredIn(u, a, b)'
      BY <1>w, <3>1, Zenon DEF DeliveredIn
    <3>3. Cardinality(DeliveredIn(u, a, b)') =
            IF u = s THEN Cardinality(DeliveredIn(u, a, b)) + 1
            ELSE Cardinality(DeliveredIn(u, a, b))
      BY <1>0, <1>c, <3>1, Zenon
    <3> QED
      BY <3>1, <3>2, <3>3, Zenon
  <2> QED
    BY <2>2, <2>3, <2>4, Zenon DEF QuotaInv, QuotaChargesDeliveries
<1>6. \A u \in Senders, t \in Times :
        t % RateWindow = 0 =>
          Cardinality(DeliveredIn(u, t, t + RateWindow)') <= PerWindow
  <2> SUFFICES ASSUME NEW u \in Senders, NEW t \in Times, t % RateWindow = 0
               PROVE  Cardinality(DeliveredIn(u, t, t + RateWindow)') <= PerWindow
    BY Zenon
  <2>0. t \in Nat /\ t + RateWindow \in Nat
    BY <1>0, TimesAreNat
  <2>1. CASE u = s /\ t <= now /\ now < t + RateWindow
    <3>1. t = WindowStart
      BY <1>0, <2>0, <2>1, WindowUnique, Zenon DEF WindowStart
    <3>2. Cardinality(DeliveredIn(u, t, t + RateWindow)') = Spent(s) + 1
      BY <1>c, <2>0, <2>1, <3>1, Zenon DEF QuotaInv, QuotaChargesDeliveries
    <3>3. Spent(s) \in Nat
      BY DEF TypeOK, Buckets, Spent
    <3> QED
      BY <1>0, <1>1, <3>2, <3>3
  <2>2. CASE ~(u = s /\ t <= now /\ now < t + RateWindow)
    <3>1. Cardinality(DeliveredIn(u, t, t + RateWindow)') =
            Cardinality(DeliveredIn(u, t, t + RateWindow))
      BY <1>c, <2>0, <2>2, Zenon
    <3> QED
      BY <3>1, Zenon DEF QuotaInv
  <2> QED
    BY <2>1, <2>2, Zenon
<1> QED
  BY <1>2, <1>4, <1>5, <1>6, Zenon DEF QuotaInv

\* Every step of the router, and every step forward of the clock, keeps the
\* quotas.
LEMMA QuotaStep ==
  ASSUME MaxStepBack = 0, TypeOK, TypeOK', QuotaInv, [Next]_vars
  PROVE  QuotaInv'
<1>1. CASE ClockMoves
  <2>1. now <= now' /\ UNCHANGED <<buckets, delivered>>
    BY <1>1, TimesAreNat DEF ClockMoves, TypeOK
  <2> QED
    BY <2>1, QuotaClock, Zenon
<1>2. ASSUME NEW e \in Envelopes, NEW s \in Senders, NEW k \in 0..Len(queue),
             RejectRateLimit(e, s, k)
      PROVE  QuotaInv'
  <2>1. CASE buckets' = AfterPurge(s)
    BY <1>2, <2>1, QuotaPurge, Zenon DEF RejectRateLimit
  <2>2. CASE UNCHANGED buckets
    <3>1. UNCHANGED <<now, buckets, delivered>> /\ now <= now'
      BY <1>2, <2>2, TimesAreNat DEF RejectRateLimit, TypeOK
    <3> QED
      BY <3>1, QuotaClock, Zenon
  <2> QED
    BY <1>2, <2>1, <2>2, Zenon DEF RejectRateLimit
<1>3. ASSUME NEW e \in Envelopes, NEW s \in Senders, NEW k \in 0..Len(queue),
             Accept(e, s, k)
      PROVE  QuotaInv'
  BY <1>3, QuotaAccept, Zenon
<1>4. CASE UNCHANGED <<now, buckets, delivered>>
  <2>1. now <= now'
    BY <1>4, TimesAreNat DEF TypeOK
  <2> QED
    BY <1>4, <2>1, QuotaClock, Zenon
<1> QED
  BY <1>1, <1>2, <1>3, <1>4, Zenon DEF Next, RejectUnparsed, RejectReplay, vars

\* An empty table and an empty history agree.
LEMMA QuotaInit == Init => TableInv /\ QuotaInv
<1> SUFFICES ASSUME Init PROVE TableInv /\ QuotaInv
  BY Zenon
<1>1. Tracked = {} /\ \A s, a, b : DeliveredIn(s, a, b) = {}
  BY DEF Init, Tracked, DeliveredIn
<1>2. \A s \in Senders : Spent(s) = 0
  BY Zenon DEF Init, Spent
<1>3. Cardinality({}) = 0 /\ PerWindow \in Nat /\ MaxTrackedSenders \in Nat
  BY FS_EmptySet, PostmanAssumption, Zenon
<1>4. TableInv
  BY <1>1, <1>3 DEF TableInv
<1>5. QuotaChargesDeliveries
  BY <1>1, <1>2, <1>3, Zenon DEF QuotaChargesDeliveries
<1>6. \A s \in Senders, t \in Times :
        Cardinality(DeliveredIn(s, t, t + RateWindow)) <= PerWindow
  BY <1>1, <1>3
<1> QED
  BY <1>4, <1>5, <1>6 DEF Init, QuotaInv

\* The limiter's table never outgrows max_tracked_senders, however the clock
\* is set.
THEOREM TableBounded == Spec => []TableInv
<1>1. TypeOK /\ TableInv /\ [Next]_vars => TableInv'
  BY TableStep, Zenon
<1> QED
  BY <1>1, QuotaInit, TypeCorrect, PTL DEF Spec

\* With a monotone clock, what a sender's bucket has spent is the number of
\* its envelopes delivered in the current window.
THEOREM QuotaChargesDeliveriesHolds ==
  ASSUME MaxStepBack = 0
  PROVE  Spec => []QuotaChargesDeliveries
<1>1. TypeOK /\ TypeOK' /\ QuotaInv /\ [Next]_vars => QuotaInv'
  BY QuotaStep, Zenon
<1>2. QuotaInv => QuotaChargesDeliveries
  BY Zenon DEF QuotaInv
<1> QED
  BY <1>1, <1>2, QuotaInit, TypeCorrect, PTL DEF Spec

\* With a monotone clock, no sender gets more than per_window envelopes
\* through in any fixed window, past or present, although its bucket may have
\* been purged and made again; and the table stays within its capacity.
THEOREM LimitsHoldAlways ==
  ASSUME MaxStepBack = 0
  PROVE  Spec => []LimitsHold
<1>1. TypeOK /\ TypeOK' /\ QuotaInv /\ [Next]_vars => QuotaInv'
  BY QuotaStep, Zenon
<1>2. QuotaInv /\ TableInv => LimitsHold
  BY Zenon DEF QuotaInv, TableInv, Tracked, LimitsHold
<1> QED
  BY <1>1, <1>2, QuotaInit, TypeCorrect, TableBounded, PTL DEF Spec
=============================================================================
