---------------------------- MODULE KtSplitView ----------------------------
(***************************************************************************)
(* Key-transparency epoch heads as they travel from the log operator       *)
(* through the witnesses to the observation histories of the clients       *)
(* (crates/umbrella-kt/src/witness_state.rs and observation.rs).           *)
(*                                                                         *)
(* The operator is unconstrained: it may ask any witness to sign any head  *)
(* and may show any client any observation.  A correct witness consults    *)
(* its WitnessSigningLedger before signing; a Faulty one signs anything.   *)
(*                                                                         *)
(* Abstractions.  A root stands for the pair (root, log_size), which the   *)
(* ledger and conflicts_with compare together; timestamps, the wire format *)
(* and the observation version are left out.  What a witness signs is      *)
(* canonical_sign_payload: epoch and root, but neither the log id nor the  *)
(* previous root of an observation.                                        *)
(***************************************************************************)
EXTENDS KtEpoch

CONSTANTS
  Faulty,      \* witnesses that sign whatever they are asked to
  Clients,
  LogIds

ASSUME SplitViewAssumption ==
  /\ Faulty \subseteq Witnesses
  /\ None \notin LogIds

VARIABLES
  ledger,      \* WitnessSigningLedger.entries of every witness
  signatures,  \* witness signatures published so far
  history,     \* KtObservationHistory of every client
  evidence,    \* EquivocationEvidence handed out by any client
  accepted     \* history variable: the heads each client ever stored

vars == <<ledger, signatures, history, evidence, accepted>>


LedgerEntries == [log_id: LogIds, epoch: Epochs, root: Roots]

Signatures == [witness: Witnesses, epoch: Epochs, root: Roots]

Observations ==
  [log_id: LogIds, previous_root: Roots, epoch: Epochs, root: Roots]

\* Option::None is no observation.
ASSUME NoneAssumption == None \notin Observations

\* The valid signatures that an observation can carry.
SignersOf(o) ==
  {w \in Witnesses :
     [witness |-> w, epoch |-> o.epoch, root |-> o.root] \in signatures}

\* KtObservation::validate
Validate(o) == VerifySignedEpoch(SignersOf(o))

\* Mutants: the epoch, or the root, is left out of the comparison.
SameLogOnly(o, p) == o.log_id = p.log_id

ConflictsInChainOnly(o, p) ==
  /\ o.log_id = p.log_id /\ o.epoch = p.epoch
  /\ o.previous_root # p.previous_root

\* KtObservation::same_log_epoch and conflicts_with
SameLogEpoch(o, p) == o.log_id = p.log_id /\ o.epoch = p.epoch

ConflictsWith(o, p) ==
  /\ SameLogEpoch(o, p)
  /\ o.previous_root # p.previous_root \/ o.root # p.root

\* Any two sets of witnesses that reach the threshold share a correct one,
\* respectively any witness at all: what Threshold and Faulty must satisfy
\* for the witnesses to exclude, respectively to expose, a split view.
QuorumOverlap ==
  \A A, B \in SUBSET Witnesses :
    (Cardinality(A) >= Threshold /\ Cardinality(B) >= Threshold) =>
      \E w \in A \cap B : w \notin Faulty

QuorumsMeet ==
  \A A, B \in SUBSET Witnesses :
    (Cardinality(A) >= Threshold /\ Cardinality(B) >= Threshold) =>
      A \cap B # {}

\* The witnesses follow one log.
SingleLog == \A l, m \in LogIds : l = m

\* The part of an observation that is remembered in `accepted'.
HeadOf(o) == [log_id |-> o.log_id, epoch |-> o.epoch, root |-> o.root]

-----------------------------------------------------------------------------
Init ==
  /\ ledger = [w \in Witnesses |-> {}]
  /\ signatures = {}
  /\ history = [c \in Clients |-> [log_id |-> None, last |-> None]]
  /\ evidence = {}
  /\ accepted = [c \in Clients |-> {}]

\* Mutant: the ledger records without looking.
RecordAlways(w, h) == ledger' = [ledger EXCEPT ![w] = @ \cup {h}]

\* WitnessSigningLedger::record_or_reject: no entry for this log and epoch,
\* or the very same head.
RecordOrReject(w, h) ==
  /\ \A e \in ledger[w] :
       (e.log_id = h.log_id /\ e.epoch = h.epoch) => e.root = h.root
  /\ ledger' = [ledger EXCEPT ![w] = @ \cup {h}]

\* sign canonical_sign_payload and put the signature on the public channel
Publish(w, h) ==
  signatures' = signatures
                  \cup {[witness |-> w, epoch |-> h.epoch, root |-> h.root]}

\* A correct witness signs a head once its ledger has taken it.
WitnessSign(w, h) ==
  /\ w \notin Faulty
  /\ RecordOrReject(w, h)
  /\ Publish(w, h)
  /\ UNCHANGED <<history, evidence, accepted>>

FaultySign(w, h) ==
  /\ w \in Faulty
  /\ Publish(w, h)
  /\ UNCHANGED <<ledger, history, evidence, accepted>>

\* self.last = Some(observation)
Store(c, o) ==
  /\ history' = [history EXCEPT ![c] = [log_id |-> o.log_id, last |-> o]]
  /\ accepted' = [accepted EXCEPT ![c] = @ \cup {HeadOf(o)}]
  /\ UNCHANGED evidence

\* Mutant: an older head passes if it names the last root as its previous.
ChainedOnly(o, last) ==
  o.epoch # last.epoch /\ o.previous_root = last.root

\* The last branch of observe: a later epoch that continues the chain.
Newer(o, last) == o.epoch > last.epoch /\ o.previous_root = last.root

\* KtObservationHistory::observe.  Every error path leaves the history as it
\* was: a failed validation, another log id, an older epoch, a broken chain.
Observe(c, o) ==
  LET last == history[c].last IN
  /\ Validate(o)
  /\ \/ /\ last = None
        /\ Store(c, o)
     \/ /\ last # None
        /\ o.log_id = history[c].log_id
        /\ o.epoch = last.epoch
        /\ \/ /\ ConflictsWith(o, last)
              /\ evidence' = evidence \cup {<<last, o>>}
              /\ UNCHANGED <<history, accepted>>
           \/ /\ ~ConflictsWith(o, last)
              /\ Store(c, o)
     \/ /\ last # None
        /\ o.log_id = history[c].log_id
        /\ Newer(o, last)
        /\ Store(c, o)
  /\ UNCHANGED <<ledger, signatures>>

\* compare_observations on the last observations of two clients.
Exchange(c, d) ==
  LET first == history[c].last
      second == history[d].last IN
  /\ first # None /\ second # None
  /\ Validate(first) /\ Validate(second)
  /\ ConflictsWith(first, second)
  /\ evidence' = evidence \cup {<<first, second>>}
  /\ UNCHANGED <<ledger, signatures, history, accepted>>

Next ==
  \/ \E w \in Witnesses, h \in LedgerEntries :
       WitnessSign(w, h) \/ FaultySign(w, h)
  \/ \E c \in Clients, o \in Observations : Observe(c, o)
  \/ \E c, d \in Clients : Exchange(c, d)

Spec == Init /\ [][Next]_vars

-----------------------------------------------------------------------------
TypeOK ==
  /\ ledger \in [Witnesses -> SUBSET LedgerEntries]
  /\ signatures \subseteq Signatures
  /\ history \in [Clients -> [log_id: LogIds \cup {None},
                              last: Observations \cup {None}]]
  /\ evidence \subseteq Observations \X Observations
  /\ accepted \in [Clients -> SUBSET LedgerEntries]

\* No two clients ever hold different roots for one epoch of one log: the
\* split view that the witness threshold of verify_signed_epoch and the
\* signing ledger together are meant to exclude.
NoSplitView ==
  \A c, d \in Clients : \A a \in accepted[c], b \in accepted[d] :
    (a.log_id = b.log_id /\ a.epoch = b.epoch) => a.root = b.root

\* observe never lets one client move to another root for an epoch it has
\* already accepted, whatever the witnesses sign.
ClientNeverForks ==
  \A c \in Clients : \A a, b \in accepted[c] :
    (a.log_id = b.log_id /\ a.epoch = b.epoch) => a.root = b.root

\* Evidence about two different roots convicts the right party: some witness
\* signed both, and every witness that did is faulty.
RootEvidenceNamesFaulty ==
  \A e \in evidence :
    e[1].root # e[2].root =>
      LET both == SignersOf(e[1]) \cap SignersOf(e[2])
      IN  both # {} /\ both \subseteq Faulty

\* observation.rs:188: evidence is a proof that the log showed two SIGNED
\* views for one epoch, so some witness signature must cover the difference.
EvidenceShowsTwoSignedViews ==
  \A e \in evidence : e[1].root # e[2].root

\* The witnesses, the operator and the clients together implement the ideal
\* log of OneLog: as far as clients can tell there is only one.
Ideal == INSTANCE OneLog WITH Heads <- LedgerEntries

ImplementsOneLog == Ideal!Spec
=============================================================================
