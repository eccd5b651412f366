------------------------------ MODULE KtProofs ------------------------------
(***************************************************************************)
(* Proofs about key transparency: KtSplitView for any number of witnesses, *)
(* clients, roots and epochs, and KtLog for any devices, identities and    *)
(* records.                                                                *)
(*                                                                         *)
(* The argument for NoSplitView: an accepted head carries a threshold of   *)
(* signatures, two such sets share a correct witness, and the ledger of a  *)
(* correct witness holds one root per log and epoch.  CascadeComplete is   *)
(* inductive once it is known that an absent entry names no identity; the  *)
(* action properties of the mirror follow from the types and from          *)
(* RotationCoherent.                                                       *)
(***************************************************************************)
EXTENDS KtSplitView, KtLog, FiniteSetTheorems, TLAPS

\* A correct witness holds one root per log and epoch in its ledger, and has
\* published nothing that its ledger does not hold.
LedgerInv ==
  \A w \in Witnesses \ Faulty :
    /\ \A e, f \in ledger[w] :
         (e.log_id = f.log_id /\ e.epoch = f.epoch) => e.root = f.root
    /\ \A s \in signatures : s.witness = w =>
         \E e \in ledger[w] : e.epoch = s.epoch /\ e.root = s.root

\* Every head that any client ever stored reached the threshold.
AcceptedInv ==
  \A c \in Clients : \A a \in accepted[c] : VerifySignedEpoch(SignersOf(a))

IInv == TypeOK /\ LedgerInv /\ AcceptedInv

-----------------------------------------------------------------------------
\* More signatures never invalidate a head (verify_signed_epoch counts the
\* distinct known signers).
LEMMA VerifyMonotone ==
  ASSUME NEW A, NEW B, A \subseteq B, VerifySignedEpoch(A)
  PROVE  VerifySignedEpoch(B)
<1>1. IsFiniteSet(B \cap Witnesses)
  BY WitnessAssumption, FS_Subset, Zenon
<1>2. /\ A \cap Witnesses \subseteq B \cap Witnesses
      /\ Cardinality(A \cap Witnesses) <= Cardinality(B \cap Witnesses)
  BY <1>1, FS_Subset, Zenon
<1>3. /\ Cardinality(A \cap Witnesses) \in Nat
      /\ Cardinality(B \cap Witnesses) \in Nat
  BY <1>1, <1>2, FS_Subset, FS_CardinalityType, Zenon
<1> QED BY <1>2, <1>3, WitnessAssumption DEF VerifySignedEpoch

\* Every step keeps the types.
LEMMA TypeStep ==
  ASSUME TypeOK, [Next]_vars
  PROVE  TypeOK'
<1>1. ASSUME NEW w \in Witnesses, NEW h \in LedgerEntries, WitnessSign(w, h)
      PROVE  TypeOK'
  BY <1>1 DEF TypeOK, WitnessSign, RecordOrReject, Publish, Signatures,
              LedgerEntries
<1>2. ASSUME NEW w \in Witnesses, NEW h \in LedgerEntries, FaultySign(w, h)
      PROVE  TypeOK'
  BY <1>2 DEF TypeOK, FaultySign, Publish, Signatures, LedgerEntries
<1>3. ASSUME NEW c \in Clients, NEW o \in Observations, Observe(c, o)
      PROVE  TypeOK'
  <2>1. history[c].last \in Observations \cup {None}
    BY Zenon DEF TypeOK
  <2>2. /\ HeadOf(o) \in LedgerEntries
        /\ [log_id |-> o.log_id, last |-> o]
             \in [log_id: LogIds \cup {None},
                  last: Observations \cup {None}]
    BY Zenon DEF HeadOf, LedgerEntries, Observations
  <2>3. CASE Store(c, o)
    BY <1>3, <2>2, <2>3, Zenon DEF TypeOK, Observe, Store
  <2>4. CASE /\ evidence' = evidence \cup {<<history[c].last, o>>}
             /\ history[c].last # None
             /\ UNCHANGED <<history, accepted>>
    BY <1>3, <2>1, <2>4 DEF TypeOK, Observe
  <2> QED BY <1>3, <2>3, <2>4, Zenon DEF Observe
<1>4. ASSUME NEW c \in Clients, NEW d \in Clients, Exchange(c, d)
      PROVE  TypeOK'
  <2>1. history[c].last \in Observations /\ history[d].last \in Observations
    BY <1>4, Zenon DEF TypeOK, Exchange
  <2> QED BY <1>4, <2>1 DEF TypeOK, Exchange
<1>5. CASE UNCHANGED vars
  BY <1>5, Zenon DEF TypeOK, vars
<1> QED BY <1>1, <1>2, <1>3, <1>4, <1>5, Zenon DEF Next

\* Type correctness of the witnesses' and clients' state.
THEOREM TypeCorrect == Spec => []TypeOK
<1>1. Init => TypeOK
  BY DEF Init, TypeOK
<1>2. TypeOK /\ [Next]_vars => TypeOK'
  BY TypeStep, Zenon
<1> QED BY <1>1, <1>2, PTL DEF Spec

-----------------------------------------------------------------------------
\* SignersOf depends on the signatures only, and grows with them.
LEMMA SignersGrow ==
  ASSUME signatures \subseteq signatures', NEW a
  PROVE  SignersOf(a) \subseteq SignersOf(a)'
BY Zenon DEF SignersOf

\* Every step keeps the ledgers of correct witnesses consistent with what
\* they published (record_or_reject runs before the signature leaves).
LEMMA LedgerStep ==
  ASSUME TypeOK, LedgerInv, [Next]_vars
  PROVE  LedgerInv'
<1>1. ASSUME NEW w \in Witnesses, NEW h \in LedgerEntries, WitnessSign(w, h)
      PROVE  LedgerInv'
  <2> SUFFICES ASSUME NEW v \in Witnesses \ Faulty
               PROVE  /\ \A e, f \in ledger'[v] :
                           (e.log_id = f.log_id /\ e.epoch = f.epoch) =>
                             e.root = f.root
                      /\ \A s \in signatures' : s.witness = v =>
                           \E e \in ledger'[v] :
                             e.epoch = s.epoch /\ e.root = s.root
    BY Zenon DEF LedgerInv
  <2>1. CASE v = w
    <3>1. ledger'[v] = ledger[v] \cup {h}
      BY <1>1, <2>1, Zenon DEF WitnessSign, RecordOrReject, TypeOK
    <3>2. \A e, f \in ledger'[v] :
            (e.log_id = f.log_id /\ e.epoch = f.epoch) => e.root = f.root
      BY <1>1, <2>1, <3>1 DEF WitnessSign, RecordOrReject, LedgerInv
    <3>3. \A s \in signatures' : s.witness = v =>
            \E e \in ledger'[v] : e.epoch = s.epoch /\ e.root = s.root
      <4> SUFFICES ASSUME NEW s \in signatures', s.witness = v
                   PROVE  \E e \in ledger'[v] :
                            e.epoch = s.epoch /\ e.root = s.root
        BY Zenon
      <4>1. CASE s \in signatures
        BY <3>1, <4>1 DEF LedgerInv
      <4>2. CASE s = [witness |-> w, epoch |-> h.epoch, root |-> h.root]
        BY <3>1, <4>2, Zenon
      <4> QED BY <1>1, <4>1, <4>2, Zenon DEF WitnessSign, Publish
    <3> QED BY <3>2, <3>3, Zenon
  <2>2. CASE v # w
    <3>1. ledger'[v] = ledger[v]
      BY <1>1, <2>2, Zenon DEF WitnessSign, RecordOrReject, TypeOK
    <3>2. \A s \in signatures' : s.witness = v => s \in signatures
      BY <1>1, <2>2 DEF WitnessSign, Publish
    <3> QED BY <3>1, <3>2 DEF LedgerInv
  <2> QED BY <2>1, <2>2, Zenon
<1>2. ASSUME NEW w \in Witnesses, NEW h \in LedgerEntries, FaultySign(w, h)
      PROVE  LedgerInv'
  <2>1. \A s \in signatures' : s.witness \notin Faulty => s \in signatures
    BY <1>2 DEF FaultySign, Publish
  <2> QED BY <1>2, <2>1 DEF FaultySign, LedgerInv
<1>3. CASE UNCHANGED <<ledger, signatures>>
  BY <1>3 DEF LedgerInv
<1> QED BY <1>1, <1>2, <1>3, Zenon DEF Next, Observe, Exchange, vars

\* Every stored head keeps its threshold (observe validates before it
\* stores, and signatures are never withdrawn).
LEMMA AcceptedStep ==
  ASSUME TypeOK, AcceptedInv, [Next]_vars
  PROVE  AcceptedInv'
<1>1. signatures \subseteq signatures'
  BY Zenon DEF Next, WitnessSign, FaultySign, Publish, Observe, Exchange, vars
<1> SUFFICES ASSUME NEW c \in Clients, NEW a \in accepted'[c]
             PROVE  VerifySignedEpoch(SignersOf(a)')
  BY Zenon DEF AcceptedInv, VerifySignedEpoch
<1>2. CASE a \in accepted[c]
  <2>1. VerifySignedEpoch(SignersOf(a))
    BY <1>2, Zenon DEF AcceptedInv
  <2>2. SignersOf(a) \subseteq SignersOf(a)'
    BY <1>1, SignersGrow, Zenon
  <2> QED BY <2>1, <2>2, VerifyMonotone, Zenon
<1>3. CASE a \notin accepted[c]
  <2>1. PICK o \in Observations :
          Observe(c, o) /\ Store(c, o) /\ a = HeadOf(o)
    <3>1. accepted' # accepted
      BY <1>3, Zenon
    <3>2. PICK d \in Clients, o \in Observations : Observe(d, o)
      BY <3>1, Zenon DEF Next, WitnessSign, FaultySign, Exchange, vars
    <3>3. Store(d, o)
      BY <3>1, <3>2, Zenon DEF Observe
    <3>4. d = c /\ a = HeadOf(o)
      BY <1>3, <3>3, Zenon DEF Store, TypeOK
    <3> QED
      BY <3>2, <3>3, <3>4, Zenon
  <2>2. SignersOf(a)' = SignersOf(o)
    BY <2>1, Zenon DEF SignersOf, HeadOf, Observe
  <2> QED BY <2>1, <2>2, Zenon DEF Observe, Validate
<1> QED BY <1>2, <1>3, Zenon

\* The three facts together are an inductive invariant.
THEOREM Inductive == Spec => []IInv
<1>1. Init => IInv
  BY DEF Init, IInv, TypeOK, LedgerInv, AcceptedInv
<1>2. IInv /\ [Next]_vars => IInv'
  BY TypeStep, LedgerStep, AcceptedStep, Zenon DEF IInv
<1> QED BY <1>1, <1>2, PTL DEF Spec

\* If any two threshold sets share a correct witness and the witnesses
\* follow one log, no two clients ever accept different roots for an epoch,
\* whatever the operator and the faulty witnesses do.
THEOREM NoSplitViewHolds ==
  ASSUME QuorumOverlap, SingleLog
  PROVE  Spec => []NoSplitView
<1>1. IInv => NoSplitView
  <2> SUFFICES ASSUME IInv,
                      NEW c \in Clients, NEW d \in Clients,
                      NEW a \in accepted[c], NEW b \in accepted[d],
                      a.log_id = b.log_id, a.epoch = b.epoch
               PROVE  a.root = b.root
    BY DEF NoSplitView
  <2>1. PICK w \in SignersOf(a) \cap SignersOf(b) : w \notin Faulty
    <3>1. /\ SignersOf(a) \subseteq Witnesses
          /\ SignersOf(b) \subseteq Witnesses
      BY Zenon DEF SignersOf
    <3>2. /\ SignersOf(a) \cap Witnesses = SignersOf(a)
          /\ SignersOf(b) \cap Witnesses = SignersOf(b)
      BY <3>1, Zenon
    <3>3. /\ Cardinality(SignersOf(a)) >= Threshold
          /\ Cardinality(SignersOf(b)) >= Threshold
      BY <3>2, Zenon DEF IInv, AcceptedInv, VerifySignedEpoch
    <3> QED BY <3>1, <3>3, QuorumOverlap, Zenon DEF QuorumOverlap
  <2>2. w \in Witnesses \ Faulty
    BY <2>1, Zenon DEF SignersOf
  <2>3. /\ [witness |-> w, epoch |-> a.epoch, root |-> a.root] \in signatures
        /\ [witness |-> w, epoch |-> b.epoch, root |-> b.root] \in signatures
    BY <2>1, Zenon DEF SignersOf
  <2>4. PICK e \in ledger[w] : e.epoch = a.epoch /\ e.root = a.root
    BY <2>2, <2>3 DEF IInv, LedgerInv
  <2>5. PICK f \in ledger[w] : f.epoch = b.epoch /\ f.root = b.root
    BY <2>2, <2>3 DEF IInv, LedgerInv
  <2>6. e.log_id \in LogIds /\ f.log_id \in LogIds
    BY <2>2, <2>4, <2>5 DEF IInv, TypeOK, LedgerEntries
  <2>7. e.log_id = f.log_id
    BY <2>6, SingleLog, Zenon DEF SingleLog
  <2> QED BY <2>2, <2>4, <2>5, <2>7 DEF IInv, LedgerInv
<1> QED BY <1>1, Inductive, PTL

-----------------------------------------------------------------------------
\* What a client remembers is the newest head it ever stored.
HistoryInv ==
  \A c \in Clients :
    LET last == history[c].last IN
    /\ last = None => accepted[c] = {}
    /\ last # None =>
         /\ history[c].log_id = last.log_id
         /\ HeadOf(last) \in accepted[c]
         /\ \A a \in accepted[c] :
              /\ a.log_id = last.log_id
              /\ a.epoch <= last.epoch
              /\ a.epoch = last.epoch => a.root = last.root

ForkInv == HistoryInv /\ ClientNeverForks

\* Storing an observation that is the first, repeats the last one, or is
\* newer than it, neither forks the history nor loses its newest head.
LEMMA StoreStep ==
  ASSUME TypeOK, ForkInv, NEW c \in Clients, NEW o \in Observations,
         Store(c, o),
         \/ history[c].last = None
         \/ /\ history[c].last # None
            /\ o.log_id = history[c].log_id
            /\ \/ o.epoch > history[c].last.epoch
               \/ /\ o.epoch = history[c].last.epoch
                  /\ o.root = history[c].last.root
  PROVE  ForkInv'
<1> DEFINE last == history[c].last
<1>1. /\ history'[c].last = o /\ history'[c].log_id = o.log_id
      /\ o # None
      /\ accepted'[c] = accepted[c] \cup {HeadOf(o)}
      /\ \A d \in Clients \ {c} :
           history'[d] = history[d] /\ accepted'[d] = accepted[d]
  BY NoneAssumption, Zenon DEF Store, TypeOK
<1>2. /\ HeadOf(o).log_id = o.log_id /\ HeadOf(o).epoch = o.epoch
      /\ HeadOf(o).root = o.root
  BY Zenon DEF HeadOf
<1>3. \A a \in accepted[c] :
        /\ a.log_id = o.log_id
        /\ a.epoch <= o.epoch
        /\ a.epoch = o.epoch => a.root = o.root
  <2> SUFFICES ASSUME NEW a \in accepted[c]
               PROVE  /\ a.log_id = o.log_id
                      /\ a.epoch <= o.epoch
                      /\ a.epoch = o.epoch => a.root = o.root
    BY Zenon
  <2>1. /\ last # None
        /\ last \in Observations
        /\ a.log_id = last.log_id /\ a.epoch <= last.epoch
        /\ a.epoch = last.epoch => a.root = last.root
        /\ history[c].log_id = last.log_id
    BY Zenon DEF ForkInv, HistoryInv, TypeOK
  <2>2. a.epoch \in Nat /\ o.epoch \in Nat /\ last.epoch \in Nat
    BY <2>1, SplitViewAssumption
    DEF TypeOK, LedgerEntries, Observations, Epochs
  <2> QED BY <2>1, <2>2
<1>4. o.epoch \in Nat
  BY SplitViewAssumption, EpochAssumption DEF Observations, Epochs
<1>5. HistoryInv'
  <2> SUFFICES ASSUME NEW d \in Clients
               PROVE  LET l == history'[d].last IN
                      /\ l = None => accepted'[d] = {}
                      /\ l # None =>
                           /\ history'[d].log_id = l.log_id
                           /\ HeadOf(l) \in accepted'[d]
                           /\ \A a \in accepted'[d] :
                                /\ a.log_id = l.log_id
                                /\ a.epoch <= l.epoch
                                /\ a.epoch = l.epoch => a.root = l.root
    BY Zenon DEF HistoryInv, HeadOf
  <2>1. CASE d = c
    BY <1>1, <1>2, <1>3, <1>4, <2>1
  <2>2. CASE d # c
    BY <1>1, <2>2 DEF ForkInv, HistoryInv
  <2> QED BY <2>1, <2>2, Zenon
<1>6. ClientNeverForks'
  <2> SUFFICES ASSUME NEW d \in Clients,
                      NEW a \in accepted'[d], NEW b \in accepted'[d],
                      a.log_id = b.log_id, a.epoch = b.epoch
               PROVE  a.root = b.root
    BY Zenon DEF ClientNeverForks
  <2>1. CASE d = c
    BY <1>1, <1>2, <1>3, <2>1 DEF ForkInv, ClientNeverForks
  <2>2. CASE d # c
    BY <1>1, <2>2 DEF ForkInv, ClientNeverForks
  <2> QED BY <2>1, <2>2, Zenon
<1> QED BY <1>5, <1>6, Zenon DEF ForkInv

\* The newest-head fact and fork-freedom are inductive together.
THEOREM ForkInductive == Spec => []ForkInv
<1>1. Init => TypeOK /\ ForkInv
  BY DEF Init, TypeOK, ForkInv, HistoryInv, ClientNeverForks
<1>2. TypeOK /\ ForkInv /\ [Next]_vars => TypeOK' /\ ForkInv'
  <2> SUFFICES ASSUME TypeOK, ForkInv, [Next]_vars PROVE ForkInv'
    BY TypeStep, Zenon
  <2>1. CASE UNCHANGED <<history, accepted>>
    BY <2>1, Zenon DEF ForkInv, HistoryInv, ClientNeverForks, HeadOf
  <2>2. ASSUME NEW c \in Clients, NEW o \in Observations, Observe(c, o)
        PROVE  ForkInv'
    <3> DEFINE last == history[c].last
    <3>1. CASE last = None
      BY <2>2, <3>1, StoreStep, Zenon DEF Observe
    <3>2. CASE last # None
      <4>1. history[c].log_id = last.log_id /\ last \in Observations
        BY <3>2, Zenon DEF ForkInv, HistoryInv, TypeOK
      <4>2. CASE o.epoch = last.epoch /\ ConflictsWith(o, last)
        <5>1. ~(o.epoch > last.epoch)
          BY <4>1, <4>2, SplitViewAssumption, EpochAssumption DEF Observations, Epochs
        <5> QED BY <2>1, <2>2, <3>2, <4>2, <5>1, Zenon DEF Observe, Newer
      <4>3. CASE o.epoch = last.epoch /\ ~ConflictsWith(o, last)
        <5>1. ~(o.epoch > last.epoch)
          BY <4>1, <4>3, SplitViewAssumption, EpochAssumption DEF Observations, Epochs
        <5>2. Store(c, o) /\ o.log_id = history[c].log_id
          BY <2>2, <3>2, <4>3, <5>1, Zenon DEF Observe, Newer
        <5>3. o.root = last.root
          BY <4>1, <4>3, <5>2, Zenon DEF ConflictsWith, SameLogEpoch
        <5> QED BY <3>2, <4>3, <5>2, <5>3, StoreStep, Zenon
      <4>4. CASE o.epoch # last.epoch
        BY <2>2, <3>2, <4>4, StoreStep, Zenon DEF Observe, Newer
      <4> QED BY <4>2, <4>3, <4>4, Zenon
    <3> QED BY <3>1, <3>2, Zenon
  <2> QED BY <2>1, <2>2, Zenon DEF Next, WitnessSign, FaultySign, Exchange, vars
<1> QED BY <1>1, <1>2, PTL DEF Spec

\* No client ever moves to another root for an epoch it has accepted, even
\* if every witness is faulty (KtObservationHistory::observe).
THEOREM ClientNeverForksHolds == Spec => []ClientNeverForks
<1>1. ForkInv => ClientNeverForks
  BY Zenon DEF ForkInv
<1> QED BY <1>1, ForkInductive, PTL

-----------------------------------------------------------------------------
\* Evidence is about one log and epoch, and both sides reach the threshold.
EvidenceInv ==
  \A e \in evidence :
    /\ SameLogEpoch(e[1], e[2])
    /\ VerifySignedEpoch(SignersOf(e[1]))
    /\ VerifySignedEpoch(SignersOf(e[2]))

\* observe and compare_observations only pair valid observations: the stored
\* one was validated when it was stored.
LEMMA EvidenceStep ==
  ASSUME IInv, HistoryInv, EvidenceInv, [Next]_vars
  PROVE  EvidenceInv'
<1>1. signatures \subseteq signatures'
  BY Zenon DEF Next, WitnessSign, FaultySign, Publish, Observe, Exchange, vars
<1> SUFFICES ASSUME NEW e \in evidence'
             PROVE  /\ SameLogEpoch(e[1], e[2])
                    /\ VerifySignedEpoch(SignersOf(e[1])')
                    /\ VerifySignedEpoch(SignersOf(e[2])')
  BY Zenon DEF EvidenceInv, VerifySignedEpoch, SameLogEpoch
<1>2. /\ SameLogEpoch(e[1], e[2])
      /\ VerifySignedEpoch(SignersOf(e[1]))
      /\ VerifySignedEpoch(SignersOf(e[2]))
  <2>1. CASE e \in evidence
    BY <2>1, Zenon DEF EvidenceInv
  <2>2. ASSUME NEW c \in Clients, NEW o \in Observations, Observe(c, o),
               e \notin evidence
        PROVE  /\ SameLogEpoch(e[1], e[2])
               /\ VerifySignedEpoch(SignersOf(e[1]))
               /\ VerifySignedEpoch(SignersOf(e[2]))
    <3> DEFINE last == history[c].last
    <3>1. /\ last # None /\ e = <<last, o>> /\ ConflictsWith(o, last)
          /\ Validate(o)
      BY <2>2, Zenon DEF Observe, Store
    <3>2. SignersOf(HeadOf(last)) = SignersOf(last)
      BY Zenon DEF SignersOf, HeadOf
    <3>3. VerifySignedEpoch(SignersOf(last))
      BY <3>1, <3>2, Zenon DEF HistoryInv, IInv, AcceptedInv
    <3> QED BY <3>1, <3>3, Zenon DEF ConflictsWith, SameLogEpoch, Validate
  <2>3. ASSUME NEW c \in Clients, NEW d \in Clients, Exchange(c, d),
               e \notin evidence
        PROVE  /\ SameLogEpoch(e[1], e[2])
               /\ VerifySignedEpoch(SignersOf(e[1]))
               /\ VerifySignedEpoch(SignersOf(e[2]))
    BY <2>3 DEF Exchange, ConflictsWith, Validate
  <2> QED BY <2>1, <2>2, <2>3, Zenon DEF Next, WitnessSign, FaultySign, vars
<1>3. /\ SignersOf(e[1]) \subseteq SignersOf(e[1])'
      /\ SignersOf(e[2]) \subseteq SignersOf(e[2])'
  BY <1>1, Zenon DEF SignersOf
<1> QED BY <1>2, <1>3, VerifyMonotone

\* If any two threshold sets meet and the witnesses follow one log, evidence
\* about two roots always convicts a faulty witness and never a correct one.
THEOREM RootEvidenceNamesFaultyHolds ==
  ASSUME QuorumsMeet, SingleLog
  PROVE  Spec => []RootEvidenceNamesFaulty
<1>1. Init => EvidenceInv
  BY Zenon DEF Init, EvidenceInv
<1>2. IInv /\ ForkInv /\ EvidenceInv /\ [Next]_vars => EvidenceInv'
  BY EvidenceStep, Zenon DEF ForkInv
<1>3. IInv /\ EvidenceInv => RootEvidenceNamesFaulty
  <2> SUFFICES ASSUME IInv, EvidenceInv,
                      NEW e \in evidence, e[1].root # e[2].root
               PROVE  /\ SignersOf(e[1]) \cap SignersOf(e[2]) # {}
                      /\ SignersOf(e[1]) \cap SignersOf(e[2]) \subseteq Faulty
    BY Zenon DEF RootEvidenceNamesFaulty
  <2>1. /\ SignersOf(e[1]) \in SUBSET Witnesses
        /\ SignersOf(e[2]) \in SUBSET Witnesses
    BY Zenon DEF SignersOf
  <2>2. /\ SignersOf(e[1]) \cap Witnesses = SignersOf(e[1])
        /\ SignersOf(e[2]) \cap Witnesses = SignersOf(e[2])
    BY <2>1, Zenon
  <2>3. SignersOf(e[1]) \cap SignersOf(e[2]) # {}
    BY <2>1, <2>2, QuorumsMeet, Zenon DEF QuorumsMeet, EvidenceInv, VerifySignedEpoch
  <2>4. ASSUME NEW w \in SignersOf(e[1]) \cap SignersOf(e[2]), w \notin Faulty
        PROVE  FALSE
    <3>1. w \in Witnesses \ Faulty
      BY <2>4, Zenon DEF SignersOf
    <3>2. PICK f \in ledger[w] :
            f.epoch = e[1].epoch /\ f.root = e[1].root
      BY <2>4, <3>1 DEF SignersOf, IInv, LedgerInv
    <3>3. PICK g \in ledger[w] :
            g.epoch = e[2].epoch /\ g.root = e[2].root
      BY <2>4, <3>1 DEF SignersOf, IInv, LedgerInv
    <3>4. f.log_id = g.log_id
      BY <3>1, <3>2, <3>3, SingleLog DEF SingleLog, IInv, TypeOK, LedgerEntries
    <3>5. f.epoch = g.epoch
      BY <3>2, <3>3, Zenon DEF EvidenceInv, SameLogEpoch
    <3> QED BY <3>1, <3>2, <3>3, <3>4, <3>5, Zenon DEF IInv, LedgerInv
  <2> QED BY <2>3, <2>4, Zenon
<1> QED BY <1>1, <1>2, <1>3, Inductive, ForkInductive, PTL DEF Spec

-----------------------------------------------------------------------------
\* A step that gives a client a new head stores an observation that is not
\* older than anything the client has (the three storing branches of
\* observe), and afterwards no two clients disagree: a step of OneLog.
LEMMA OneLogStep ==
  ASSUME TypeOK, HistoryInv, NoSplitView', [Next]_vars
  PROVE  [Ideal!Next]_accepted
<1> SUFFICES ASSUME accepted' # accepted PROVE Ideal!Next
  BY Zenon
<1>1. PICK c \in Clients, o \in Observations : Observe(c, o) /\ Store(c, o)
  BY Zenon DEF Next, WitnessSign, FaultySign, Observe, Exchange, vars
<1> DEFINE h == HeadOf(o)
           last == history[c].last
<1>2. /\ h \in LedgerEntries /\ h.log_id = o.log_id /\ h.epoch = o.epoch
      /\ h.root = o.root
  BY Zenon DEF HeadOf, LedgerEntries, Observations
<1>3. accepted' = [accepted EXCEPT ![c] = @ \cup {h}]
  BY <1>1, Zenon DEF Store
<1>4. /\ h \in accepted'[c]
      /\ \A d \in Clients : accepted[d] \subseteq accepted'[d]
  BY <1>3, Zenon DEF TypeOK
<1>5. Ideal!Agreed(h)
  BY <1>4 DEF Ideal!Agreed, NoSplitView
<1>6. Ideal!Advances(c, h)
  <2> SUFFICES ASSUME NEW a \in accepted[c]
               PROVE  a.log_id = h.log_id /\ a.epoch <= h.epoch
    BY Zenon DEF Ideal!Advances
  <2>1. /\ last # None /\ last \in Observations
        /\ history[c].log_id = last.log_id
        /\ a.log_id = last.log_id /\ a.epoch <= last.epoch
    BY Zenon DEF HistoryInv, TypeOK
  <2>2. o.log_id = history[c].log_id
    BY <1>1, <2>1, Zenon DEF Observe
  <2>3. o.epoch = last.epoch \/ o.epoch > last.epoch
    BY <1>1, <2>1, Zenon DEF Observe, Newer
  <2>4. a.epoch \in Nat /\ o.epoch \in Nat /\ last.epoch \in Nat
    BY <2>1, SplitViewAssumption
    DEF TypeOK, LedgerEntries, Observations, Epochs
  <2> QED BY <1>2, <2>1, <2>2, <2>3, <2>4
<1> HIDE DEF h
<1> QED BY <1>2, <1>3, <1>5, <1>6, Zenon DEF Ideal!Next, Ideal!Accept

\* Under overlapping quorums and one log, operator, witnesses and clients
\* implement the ideal log, for any number of each.
THEOREM ImplementsOneLogHolds ==
  ASSUME QuorumOverlap, SingleLog
  PROVE  Spec => ImplementsOneLog
<1>1. Init => Ideal!Init
  BY Zenon DEF Init, Ideal!Init
<1>2. TypeOK /\ HistoryInv /\ NoSplitView' /\ [Next]_vars
        => [Ideal!Next]_accepted
  BY OneLogStep, Zenon
<1>3. Spec => []NoSplitView
  BY NoSplitViewHolds, Zenon
<1>4. ForkInv => HistoryInv
  BY Zenon DEF ForkInv
<1> QED BY <1>1, <1>2, <1>3, <1>4, TypeCorrect, ForkInductive, PTL
        DEF Spec, ImplementsOneLog, Ideal!Spec

-----------------------------------------------------------------------------
\* The mirror of the log.

\* An absent entry names no identity and a revoked one carries no times.
EntryOK(e) ==
  /\ e.flag = "Absent" => e.identity = None
  /\ e.flag = "Revoked" => e = Revoked(e)

EntriesInv == \A d \in Devices : EntryOK(device_entries[d])

LogIInv == LogTypeOK /\ EntriesInv /\ CascadeComplete /\ RotationCoherent

\* Revocation produces an entry of the same identity.
LEMMA RevokedType ==
  ASSUME NEW e \in Entries
  PROVE  /\ Revoked(e) \in Entries
         /\ Revoked(e).flag = "Revoked"
         /\ Revoked(e).identity = e.identity
BY LogAssumption DEF Revoked, Entries, Times

\* Every operation keeps the types of the mirror.
LEMMA LogTypeStep ==
  ASSUME LogTypeOK, [LogNext]_log_vars
  PROVE  LogTypeOK'
<1>1. ASSUME NEW d \in Devices, NEW i \in Identities, RegisterPending(d, i)
      PROVE  LogTypeOK'
  <2>1. [flag |-> "Pending", authorized_since |-> 0, history_cutoff |-> 0,
         identity |-> i] \in Entries
    BY LogAssumption DEF Entries, Times
  <2> QED BY <1>1, <2>1, Zenon DEF RegisterPending, Insert, LogTypeOK
<1>2. ASSUME NEW d \in Devices, NEW t \in Times, NEW i \in Identities,
             RegisterBootstrapActive(d, t, i)
      PROVE  LogTypeOK'
  <2>1. [flag |-> "BootstrapActive", authorized_since |-> t,
         history_cutoff |-> 0, identity |-> i] \in Entries
    BY LogAssumption DEF Entries, Times, LiveFlags
  <2> QED BY <1>2, <2>1, Zenon
          DEF RegisterBootstrapActive, Insert, AdoptIdentity, LogTypeOK
<1>3. ASSUME NEW p \in Proofs, SetCodeRecoveryPublicHalfProof(p)
      PROVE  LogTypeOK'
  BY <1>3, Zenon DEF SetCodeRecoveryPublicHalfProof, LogTypeOK
<1>4. ASSUME NEW signed \in SignedEpochRoots, NEW a \in Approvals,
             ApplyAuthorizationApproval(a, signed)
      PROVE  LogTypeOK'
  <2>1. [flag |-> "Active", authorized_since |-> a.authorized_since,
         history_cutoff |-> a.history_cutoff,
         identity |-> device_entries[a.new_device].identity] \in Entries
    BY Zenon DEF Approvals, LogTypeOK, Entries, LiveFlags
  <2> QED BY <1>4, <2>1, Zenon
          DEF ApplyAuthorizationApproval, CommitEpoch, SignedEpochRoots,
              Approvals, LogTypeOK
<1>5. ASSUME NEW signed \in SignedEpochRoots, NEW r \in Revocations,
             ApplyAuthorizationRevocation(r, signed)
      PROVE  LogTypeOK'
  <2>1. Revoked(device_entries[r.revoked]) \in Entries
    BY RevokedType, Zenon DEF Revocations, LogTypeOK
  <2> QED BY <1>5, <2>1, Zenon
          DEF ApplyAuthorizationRevocation, CommitEpoch, SignedEpochRoots,
              Revocations, LogTypeOK
<1>6. ASSUME NEW signed \in SignedEpochRoots, NEW r \in Rotations,
             ApplyIdentityRotation(r, signed)
      PROVE  LogTypeOK'
  <2>1. \A d \in Devices : Revoked(device_entries[d]) \in Entries
    BY RevokedType, Zenon DEF LogTypeOK
  <2>2. device_entries' \in [Devices -> Entries]
    BY <1>6, <2>1, Zenon DEF ApplyIdentityRotation, CascadeRevoke, LogTypeOK
  <2> QED BY <1>6, <2>2, Zenon
          DEF ApplyIdentityRotation, CommitEpoch, SignedEpochRoots,
              Rotations, LogTypeOK
<1>7. CASE UNCHANGED log_vars
  BY <1>7, Zenon DEF LogTypeOK, log_vars
<1> QED BY <1>1, <1>2, <1>3, <1>4, <1>5, <1>6, <1>7, Zenon DEF LogNext

\* Type correctness of the mirror.
THEOREM LogTypeCorrect == LogSpec => []LogTypeOK
<1>1. LogInit => LogTypeOK
  BY LogAssumption, EpochAssumption DEF LogInit, LogTypeOK, Absent, Entries, Times, Epochs
<1>2. LogTypeOK /\ [LogNext]_log_vars => LogTypeOK'
  BY LogTypeStep, Zenon
<1> QED BY <1>1, <1>2, PTL DEF LogSpec

-----------------------------------------------------------------------------
\* Revoking an entry, by a record or by the cascade, leaves a proper one,
\* and so does any entry that is neither absent nor revoked.
LEMMA RevokedOK ==
  ASSUME NEW e
  PROVE  EntryOK(Revoked(e))
<1>1. Revoked(Revoked(e)) = Revoked(e) /\ Revoked(e).flag = "Revoked"
  BY Zenon DEF Revoked
<1> QED BY <1>1, Zenon DEF EntryOK

\* An entry that is neither absent nor revoked is in order.
LEMMA OtherOK ==
  ASSUME NEW e, e.flag \notin {"Absent", "Revoked"}
  PROVE  EntryOK(e)
BY Zenon DEF EntryOK

\* The three invariants are preserved together by every operation.
LEMMA InvStep ==
  ASSUME LogIInv, [LogNext]_log_vars
  PROVE  LogIInv'
<1> USE DEF LogIInv, Flag
<1>0. LogTypeOK'
  BY LogTypeStep, Zenon
<1>1. ASSUME NEW d \in Devices, NEW e \in Entries, Insert(d, e),
             e.flag \in {"Pending", "BootstrapActive"},
             UNCHANGED retired
      PROVE  EntriesInv' /\ CascadeComplete'
  <2>1. device_entries' = [device_entries EXCEPT ![d] = e]
    BY <1>1, Zenon DEF Insert
  <2>2. \A c \in Devices : device_entries'[c] =
                             IF c = d THEN e ELSE device_entries[c]
    BY <2>1, Zenon DEF LogTypeOK
  <2>3. EntriesInv'
    BY <1>1, <2>2, OtherOK, Zenon DEF EntriesInv
  <2>4. CascadeComplete'
    BY <1>1, <2>2 DEF CascadeComplete, Insert
  <2> QED BY <2>3, <2>4, Zenon
<1>2. ASSUME NEW d \in Devices, NEW i \in Identities, RegisterPending(d, i)
      PROVE  LogIInv'
  <2>1. [flag |-> "Pending", authorized_since |-> 0, history_cutoff |-> 0,
         identity |-> i] \in Entries
    BY LogAssumption DEF Entries, Times
  <2>2. EntriesInv' /\ CascadeComplete'
    BY <1>1, <1>2, <2>1, Zenon DEF RegisterPending
  <2> QED BY <1>0, <1>2, <2>2, Zenon DEF RegisterPending, RotationCoherent
<1>3. ASSUME NEW d \in Devices, NEW t \in Times, NEW i \in Identities,
             RegisterBootstrapActive(d, t, i)
      PROVE  LogIInv'
  <2>1. [flag |-> "BootstrapActive", authorized_since |-> t,
         history_cutoff |-> 0, identity |-> i] \in Entries
    BY LogAssumption DEF Entries, Times, LiveFlags
  <2>2. EntriesInv' /\ CascadeComplete'
    BY <1>1, <1>3, <2>1, Zenon DEF RegisterBootstrapActive
  <2>3. identity_rotation # None => current_identity # None
    BY LogAssumption, Zenon DEF RotationCoherent, LogTypeOK, Rotations
  <2> QED BY <1>0, <1>3, <2>2, <2>3, Zenon
          DEF RegisterBootstrapActive, AdoptIdentity, RotationCoherent
<1>4. ASSUME NEW p \in Proofs, SetCodeRecoveryPublicHalfProof(p)
      PROVE  LogIInv'
  <2>1. identity_rotation # None => recovery_proof # None
    BY LogAssumption, Zenon DEF RotationCoherent, LogTypeOK, Rotations
  <2> QED BY <1>0, <1>4, <2>1, Zenon
          DEF SetCodeRecoveryPublicHalfProof, EntriesInv, CascadeComplete,
              RotationCoherent
<1>5. ASSUME NEW signed \in SignedEpochRoots, NEW a \in Approvals,
             ApplyAuthorizationApproval(a, signed)
      PROVE  LogIInv'
  <2>1. \A c \in Devices :
          device_entries'[c] =
            IF c = a.new_device
            THEN [flag |-> "Active", authorized_since |-> a.authorized_since,
                  history_cutoff |-> a.history_cutoff,
                  identity |-> device_entries[c].identity]
            ELSE device_entries[c]
    BY <1>5, Zenon DEF ApplyAuthorizationApproval, LogTypeOK
  <2>2. EntriesInv'
    <3>1. EntryOK([flag |-> "Active",
                   authorized_since |-> a.authorized_since,
                   history_cutoff |-> a.history_cutoff,
                   identity |-> device_entries[a.new_device].identity])
      BY OtherOK, Zenon
    <3> QED BY <2>1, <3>1, Zenon DEF EntriesInv
  <2>3. CascadeComplete'
    BY <1>5, <2>1 DEF CascadeComplete, ApplyAuthorizationApproval
  <2> QED BY <1>0, <1>5, <2>2, <2>3, Zenon
          DEF ApplyAuthorizationApproval, RotationCoherent
<1>6. ASSUME NEW signed \in SignedEpochRoots, NEW r \in Revocations,
             ApplyAuthorizationRevocation(r, signed)
      PROVE  LogIInv'
  <2>1. \A c \in Devices :
          device_entries'[c] = IF c = r.revoked THEN Revoked(device_entries[c])
                                                ELSE device_entries[c]
    BY <1>6, Zenon DEF ApplyAuthorizationRevocation, LogTypeOK
  <2>2. EntriesInv'
    BY <2>1, RevokedOK, Zenon DEF EntriesInv
  <2>3. CascadeComplete'
    BY <1>6, <2>1 DEF CascadeComplete, ApplyAuthorizationRevocation, Revoked
  <2> QED BY <1>0, <1>6, <2>2, <2>3, Zenon
          DEF ApplyAuthorizationRevocation, RotationCoherent
<1>7. ASSUME NEW signed \in SignedEpochRoots, NEW r \in Rotations,
             ApplyIdentityRotation(r, signed)
      PROVE  LogIInv'
  <2>1. \A c \in Devices :
          device_entries'[c] = IF device_entries[c].identity = r.old
                               THEN Revoked(device_entries[c])
                               ELSE device_entries[c]
    BY <1>7, Zenon DEF ApplyIdentityRotation, CascadeRevoke
  <2>2. EntriesInv'
    BY <2>1, RevokedOK, Zenon DEF EntriesInv
  <2>3. CascadeComplete'
    <3> SUFFICES ASSUME NEW c \in Devices,
                        device_entries'[c].identity \in retired',
                        device_entries'[c].flag # "Revoked"
                 PROVE  c \in late'
      BY Zenon DEF CascadeComplete
    <3>1. /\ device_entries'[c] = device_entries[c]
          /\ device_entries[c].identity # r.old
      BY <2>1, RevokedType DEF LogTypeOK
    <3> QED BY <1>7, <3>1, Zenon DEF CascadeComplete, ApplyIdentityRotation
  <2> QED BY <1>0, <1>7, <2>2, <2>3, Zenon
          DEF ApplyIdentityRotation, RotationCoherent
<1>8. CASE UNCHANGED log_vars
  BY <1>0, <1>8, Zenon
  DEF log_vars, EntriesInv, CascadeComplete, RotationCoherent
<1> QED BY <1>2, <1>3, <1>4, <1>5, <1>6, <1>7, <1>8, Zenon DEF LogNext

\* The inductive invariant of the mirror.
THEOREM LogInductive == LogSpec => []LogIInv
<1>1. LogInit => LogIInv
  <2>1. LogInit => LogTypeOK
    BY LogAssumption, EpochAssumption DEF LogInit, LogTypeOK, Absent, Entries, Times, Epochs
  <2>2. EntryOK(Absent)
    BY Zenon DEF EntryOK, Absent
  <2> QED BY <2>1, <2>2, Zenon DEF LogInit, LogIInv, EntriesInv, CascadeComplete,
                            RotationCoherent
<1>2. LogIInv /\ [LogNext]_log_vars => LogIInv'
  BY InvStep, Zenon
<1> QED BY <1>1, <1>2, PTL DEF LogSpec

\* apply_identity_rotation revokes every device under the identity it
\* retires: what is not revoked under a retired identity came later.
THEOREM CascadeCompleteHolds == LogSpec => []CascadeComplete
BY LogInductive, PTL DEF LogIInv

\* The mirror's identity, last rotation and recovery proof stay in step.
THEOREM RotationCoherentHolds == LogSpec => []RotationCoherent
BY LogInductive, PTL DEF LogIInv

-----------------------------------------------------------------------------
\* An entry keeps its identity, never comes back from revocation, and a live
\* one changes only by being revoked.
LEMMA EntriesDecayStep ==
  ASSUME LogIInv, LogNext
  PROVE  EntriesDecay
<1> SUFFICES ASSUME NEW d \in Devices
             PROVE  EntryDecays(device_entries[d], device_entries'[d])
  BY Zenon DEF EntriesDecay
<1> DEFINE e == device_entries[d]
           f == device_entries'[d]
<1>1. e \in Entries /\ EntryOK(e)
  BY Zenon DEF LogIInv, LogTypeOK, EntriesInv
<1>2. CASE f = e
  BY <1>2, Zenon DEF EntryDecays
<1>3. CASE f = Revoked(e)
  BY <1>1, <1>3, RevokedType, Zenon DEF EntryDecays, EntryOK
<1>4. CASE e.flag = "Absent"
  BY <1>4, Zenon DEF EntryDecays
<1>5. CASE e.flag = "Pending" /\ f.identity = e.identity
  BY <1>5, Zenon DEF EntryDecays, LiveFlags
<1>6. ASSUME NEW c \in Devices, NEW g, Insert(c, g)
      PROVE  f = e \/ e.flag = "Absent"
  BY <1>6, Zenon DEF Insert, Flag, LogIInv, LogTypeOK
<1>7. ASSUME NEW a \in Approvals, NEW signed \in SignedEpochRoots,
             ApplyAuthorizationApproval(a, signed)
      PROVE  f = e \/ (e.flag = "Pending" /\ f.identity = e.identity)
  BY <1>7, Zenon DEF ApplyAuthorizationApproval, Flag, LogIInv, LogTypeOK
<1>8. ASSUME NEW r \in Revocations, NEW signed \in SignedEpochRoots,
             ApplyAuthorizationRevocation(r, signed)
      PROVE  f = e \/ f = Revoked(e)
  BY <1>8, Zenon DEF ApplyAuthorizationRevocation, LogIInv, LogTypeOK
<1>9. ASSUME NEW r \in Rotations, NEW signed \in SignedEpochRoots,
             ApplyIdentityRotation(r, signed)
      PROVE  f = e \/ f = Revoked(e)
  BY <1>9, Zenon DEF ApplyIdentityRotation, CascadeRevoke
<1> QED BY <1>2, <1>3, <1>4, <1>5, <1>6, <1>7, <1>8, <1>9, Zenon
        DEF LogNext, RegisterPending, RegisterBootstrapActive,
            SetCodeRecoveryPublicHalfProof

\* Keys of revoked or pending devices neither advance the log nor activate
\* anybody once no device is live.
THEOREM DeadDevicesHaveNoVoiceHolds == LogSpec => DeadDevicesHaveNoVoice
<1>1. LogIInv /\ [LogNext]_log_vars => [LiveDevices = {} => DeadLogStep]_log_vars
  <2> SUFFICES ASSUME LogIInv, LogNext, LiveDevices = {}
               PROVE  DeadLogStep
    BY Zenon
  <2>1. \A d \in Devices : device_entries[d].flag \notin LiveFlags
    BY Zenon DEF LiveDevices, Live, Flag
  <2>2. ASSUME NEW d \in Devices, NEW i \in Identities, RegisterPending(d, i)
        PROVE  DeadLogStep
    BY <2>1, <2>2, Zenon DEF RegisterPending, Insert, DeadLogStep, LiveFlags, LogIInv,
                      LogTypeOK
  <2>3. ASSUME NEW d \in Devices, NEW t \in Times, NEW i \in Identities,
               RegisterBootstrapActive(d, t, i)
        PROVE  DeadLogStep
    BY <2>1, <2>3, Zenon DEF RegisterBootstrapActive, Insert, DeadLogStep, LogIInv,
                      LogTypeOK
  <2>4. ASSUME NEW p \in Proofs, SetCodeRecoveryPublicHalfProof(p)
        PROVE  DeadLogStep
    BY <2>1, <2>4, Zenon DEF SetCodeRecoveryPublicHalfProof, DeadLogStep
  <2>5. ASSUME NEW a \in Approvals, NEW signed \in SignedEpochRoots,
               ApplyAuthorizationApproval(a, signed)
        PROVE  FALSE
    BY <2>1, <2>5, Zenon DEF ApplyAuthorizationApproval, Live, Flag, Approvals
  <2>6. ASSUME NEW r \in Revocations, NEW signed \in SignedEpochRoots,
               ApplyAuthorizationRevocation(r, signed)
        PROVE  FALSE
    BY <2>1, <2>6, Zenon DEF ApplyAuthorizationRevocation, Live, Flag, Revocations
  <2>7. ASSUME NEW r \in Rotations, NEW signed \in SignedEpochRoots,
               ApplyIdentityRotation(r, signed)
        PROVE  DeadLogStep
    <3>1. current_identity' # current_identity
      BY <2>7, LogAssumption, Zenon DEF ApplyIdentityRotation, Rotations
    <3>2. \A d \in Devices : device_entries'[d].flag \notin LiveFlags
      BY <2>1, <2>7, RevokedType, Zenon
      DEF ApplyIdentityRotation, CascadeRevoke, LiveFlags, LogIInv, LogTypeOK
    <3> QED BY <3>1, <3>2, Zenon DEF DeadLogStep
  <2> QED BY <2>2, <2>3, <2>4, <2>5, <2>6, <2>7, Zenon DEF LogNext
<1> QED BY <1>1, LogInductive, PTL DEF LogSpec, DeadDevicesHaveNoVoice

\* The epoch, the recovery proof and the identity only move forward.
LEMMA ForwardStepHolds ==
  ASSUME LogIInv, LogNext
  PROVE  ForwardStep
<1>1. last_epoch \in Nat
  BY LogAssumption, EpochAssumption DEF LogIInv, LogTypeOK, Epochs
<1>2. CASE UNCHANGED <<last_epoch, recovery_proof, current_identity>>
  BY <1>1, <1>2 DEF ForwardStep
<1>3. ASSUME NEW d \in Devices, NEW t \in Times, NEW i \in Identities,
             RegisterBootstrapActive(d, t, i)
      PROVE  ForwardStep
  BY <1>1, <1>3 DEF RegisterBootstrapActive, AdoptIdentity, ForwardStep
<1>4. ASSUME NEW p \in Proofs, SetCodeRecoveryPublicHalfProof(p)
      PROVE  ForwardStep
  BY <1>1, <1>4 DEF SetCodeRecoveryPublicHalfProof, ForwardStep
<1>5. ASSUME NEW signed \in SignedEpochRoots, VerifyEpochTransition(signed),
             CommitEpoch(signed)
      PROVE  last_epoch' >= last_epoch
  BY <1>5, Zenon DEF VerifyEpochTransition, CommitEpoch
<1>6. ASSUME NEW a \in Approvals, NEW signed \in SignedEpochRoots,
             ApplyAuthorizationApproval(a, signed)
      PROVE  ForwardStep
  BY <1>5, <1>6, Zenon DEF ApplyAuthorizationApproval, ForwardStep
<1>7. ASSUME NEW r \in Revocations, NEW signed \in SignedEpochRoots,
             ApplyAuthorizationRevocation(r, signed)
      PROVE  ForwardStep
  BY <1>5, <1>7, Zenon DEF ApplyAuthorizationRevocation, ForwardStep
<1>8. ASSUME NEW r \in Rotations, NEW signed \in SignedEpochRoots,
             ApplyIdentityRotation(r, signed)
      PROVE  ForwardStep
  BY <1>5, <1>8, Zenon DEF ApplyIdentityRotation, ForwardStep
<1> QED BY <1>2, <1>3, <1>4, <1>6, <1>7, <1>8, Zenon DEF LogNext, RegisterPending

\* Nothing the mirror knows is taken back: epochs, recovery proof and identity
\* move forward and entries decay.
THEOREM MirrorIsMonotoneHolds == LogSpec => MirrorIsMonotone
<1>1. LogIInv /\ [LogNext]_log_vars => [ForwardStep /\ EntriesDecay]_log_vars
  BY EntriesDecayStep, ForwardStepHolds, Zenon
<1> QED BY <1>1, LogInductive, PTL DEF LogSpec, MirrorIsMonotone
=============================================================================
