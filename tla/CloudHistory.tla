---------------------------- MODULE CloudHistory ----------------------------
(***************************************************************************)
(* Cloud history of one chat: entries published at rest, identity changes, *)
(* and concurrent cloud_sync_history calls that drain the entries, fan out *)
(* to the Sealed Servers and open what comes back                          *)
(* (crates/umbrella-client/src/facade/chat_common.rs, transport/stub.rs,   *)
(* transport/cloud_backup.rs).                                             *)
(*                                                                         *)
(* Between two awaits a sync runs alone: from the last share of a dispatch *)
(* to the next dispatch, or to its return, it is one step.  The code holds *)
(* its transport as a trait object, so both implementations are modelled:  *)
(* Http2UnwrapTransport stops at EARLY_RETURN_THRESHOLD shares, and        *)
(* StubUnwrapTransport hands over everything that was staged for it.       *)
(*                                                                         *)
(* Abstractions.  A text is its number, which is also its sent_ts_ms; an   *)
(* identity key is the number of rotations before it.  A worker's share    *)
(* reaching the channel and the coordinator taking it are one step: the    *)
(* channel has room for every worker and keeps the order.                  *)
(***************************************************************************)
EXTENDS CloudUnwrap

CONSTANTS
  Servers,              \* the Sealed Servers
  Faulty,               \* those that may answer with a share that is no use
  EarlyReturn,          \* EARLY_RETURN_THRESHOLD
  Calls,                \* concurrent cloud_sync_history calls
  MaxEntries,           \* bound on published texts
  MaxRotations          \* bound on identity changes

ASSUME HistoryAssumption ==
  /\ IsFiniteSet(Servers) /\ Cardinality(Servers) = WrapTotal
  /\ Faulty \subseteq Servers
  /\ EarlyReturn \in Nat \ {0} /\ MaxEntries \in Nat /\ MaxRotations \in Nat

VARIABLES
  transport,      \* the implementation behind ClientCore::unwrap_transport
  identity,       \* identity key of ClientCore::mls_keystore
  published,      \* number of texts published so far
  history,        \* the postman's at-rest entries of the chat
  call,           \* the running syncs
  shown,          \* texts returned to a caller, in order
  lost,           \* history variable: texts drained by a sync that failed
  last            \* history variable: the unwrap of the step just taken

vars == <<transport, identity, published, history, call, shown, lost, last>>

Texts == 1..MaxEntries
Entries == [text: Texts, under: 0..MaxRotations, intact: BOOLEAN]

Outcomes == {"None", "Ok", "InsufficientUnwrapShares",
             "AllSubsetsFailedUnwrap"}

\* No sync is running.
Idle == [todo |-> <<>>, device |-> 0, out |-> <<>>, working |-> {},
         shares |-> <<>>]

Running(c) == call[c].todo # <<>>

NoUnwrap == [genuine |-> 0, tampered |-> 0, matches |-> FALSE,
             result |-> "None"]

SeqTexts(s) == [i \in DOMAIN s |-> s[i].text]

-----------------------------------------------------------------------------
Init ==
  /\ transport \in {"http2", "stub"}
  /\ identity = 0
  /\ published = 0
  /\ history = <<>>
  /\ call = [c \in Calls |-> Idle]
  /\ shown = <<>>
  /\ lost = {}
  /\ last = NoUnwrap

\* cloud_publish_at_rest: the entry is wrapped for the sender's own current
\* identity key.
CloudPublishAtRest ==
  /\ published < MaxEntries
  /\ published' = published + 1
  /\ history' = Append(history, [text |-> published + 1, under |-> identity,
                                 intact |-> TRUE])
  /\ UNCHANGED <<transport, identity, call, shown, lost>>
  /\ last' = NoUnwrap

\* The stored ciphertext of an entry is damaged.
EntryDamaged(i) ==
  /\ history[i].intact
  /\ history' = [history EXCEPT ![i].intact = FALSE]
  /\ UNCHANGED <<transport, identity, published, call, shown, lost>>
  /\ last' = NoUnwrap

SwapMlsKeystore ==
  /\ identity < MaxRotations
  /\ identity' = identity + 1
  /\ UNCHANGED <<transport, published, history, call, shown, lost>>
  /\ last' = NoUnwrap

\* The state of a sync about to dispatch for the first of its entries.
Dispatching(todo, device, out) ==
  [todo |-> todo, device |-> device, out |-> out, working |-> Servers,
   shares |-> <<>>]

\* Mutant: the drained entries are also kept.
DrainCloudHistory_Peek(since) ==
  history' = history

\* drain_cloud_history: what is newer than since is taken out.
DrainCloudHistory(since) ==
  history' = Kept(history, {e \in Entries : e.text <= since})

SyncStart(c, since) ==
  LET drained == Kept(history, {e \in Entries : e.text > since})
  IN  /\ ~Running(c)
      /\ drained # <<>>
      /\ DrainCloudHistory(since)
      /\ call' = [call EXCEPT ![c] = Dispatching(drained, identity, <<>>)]
      /\ UNCHANGED <<transport, identity, published, shown, lost>>
      /\ last' = NoUnwrap

\* The entry is opened: the sync goes on with the next one, or returns.
EntryOpened(c) ==
  LET s == call[c]
      out == Append(s.out, Head(s.todo).text)
  IN  IF Len(s.todo) > 1
      THEN /\ call' = [call EXCEPT ![c] = Dispatching(Tail(s.todo), s.device, out)]
           /\ UNCHANGED <<shown, lost>>
      ELSE /\ call' = [call EXCEPT ![c] = Idle]
           /\ shown' = shown \o out
           /\ UNCHANGED lost

\* An error returns from the whole sync: the texts already opened and the
\* drained entries go with it.
SyncFails(c) ==
  LET gone == call[c].out \o SeqTexts(call[c].todo)
  IN  /\ call' = [call EXCEPT ![c] = Idle]
      /\ lost' = lost \cup {gone[i] : i \in DOMAIN gone}
      /\ UNCHANGED shown

\* The rest of the loop body once dispatch has returned shares.
AfterDispatch(c, shares) ==
  LET entry == Head(call[c].todo)
      matches == entry.under = call[c].device
      result == UnwrapMessageKey(shares, matches)
  IN  /\ last' = [genuine |-> Count(shares, "genuine"),
                  tampered |-> Count(shares, "tampered"),
                  matches |-> matches, result |-> result]
      /\ IF result = "Ok" /\ entry.intact THEN EntryOpened(c) ELSE SyncFails(c)
      /\ UNCHANGED <<transport, identity, published, history>>

\* Mutant: the coordinator waits for one share more than it needs.
Collected_OneMore(shares, working) ==
  Len(shares) > EarlyReturn \/ working = {}

\* The coordinator stops: enough shares, or no worker is left.
Collected(shares, working) ==
  Len(shares) >= EarlyReturn \/ working = {}

Answers(s) == IF s \in Faulty THEN ShareKinds ELSE {"genuine"}

\* Http2UnwrapTransport: a worker delivers its server's share.
ShareArrives(c, s, kind) ==
  LET shares == Append(call[c].shares, kind)
      working == call[c].working \ {s}
  IN  /\ transport = "http2" /\ Running(c)
      /\ s \in call[c].working
      /\ kind \in Answers(s)
      /\ IF Collected(shares, working)
         THEN AfterDispatch(c, shares)
         ELSE /\ call' = [call EXCEPT ![c].shares = shares,
                                      ![c].working = working]
              /\ last' = NoUnwrap
              /\ UNCHANGED <<transport, identity, published, history, shown,
                             lost>>

\* A worker drops out: no connection, an error status, a malformed share or
\* the witness index of another server.
WorkerDrops(c, s) ==
  LET working == call[c].working \ {s}
  IN  /\ transport = "http2" /\ Running(c)
      /\ s \in call[c].working
      /\ IF Collected(call[c].shares, working)
         THEN AfterDispatch(c, call[c].shares)
         ELSE /\ call' = [call EXCEPT ![c].working = working]
              /\ last' = NoUnwrap
              /\ UNCHANGED <<transport, identity, published, history, shown,
                             lost>>

\* The deadline branch of the select: what has arrived is returned.
DispatchDeadline(c) ==
  /\ transport = "http2" /\ Running(c)
  /\ AfterDispatch(c, call[c].shares)

\* StubUnwrapTransport: the staged shares of the servers, in order.
StubDispatch(c, answers) ==
  /\ transport = "stub" /\ Running(c)
  /\ AfterDispatch(c, answers)

BadShares(answers) == Len(answers) - Count(answers, "genuine")

StagedAnswers ==
  {answers \in UNION {[1..n -> ShareKinds] : n \in 0..Cardinality(Servers)} :
     BadShares(answers) <= Cardinality(Faulty)}

Next ==
  \/ CloudPublishAtRest
  \/ SwapMlsKeystore
  \/ \E i \in DOMAIN history : EntryDamaged(i)
  \/ \E c \in Calls :
       \/ \E since \in 0..MaxEntries : SyncStart(c, since)
       \/ \E s \in Servers :
            \/ \E kind \in ShareKinds : ShareArrives(c, s, kind)
            \/ WorkerDrops(c, s)
       \/ DispatchDeadline(c)
       \/ \E answers \in StagedAnswers : StubDispatch(c, answers)

Spec == Init /\ [][Next]_vars

-----------------------------------------------------------------------------
\* The variables keep their types; a sync runs while some request is open, has
\* never more shares and open requests than there are servers, and stops
\* collecting at the share that lets dispatch return early.
TypeOK ==
  /\ transport \in {"http2", "stub"}
  /\ identity \in 0..MaxRotations
  /\ published \in 0..MaxEntries
  /\ history \in Seq(Entries)
  /\ \A c \in Calls :
       /\ call[c].todo \in Seq(Entries)
       /\ call[c].device \in 0..MaxRotations
       /\ call[c].out \in Seq(Texts)
       /\ call[c].working \subseteq Servers
       /\ call[c].shares \in Seq(ShareKinds)
       /\ Running(c) <=> call[c].working # {}
       /\ Len(call[c].shares) + Cardinality(call[c].working)
            <= Cardinality(Servers)
       /\ Running(c) => Len(call[c].shares) < EarlyReturn
  /\ shown \in Seq(Texts)
  /\ lost \subseteq Texts
  /\ last.result \in Outcomes

\* The bounded search of unwrap_message_key misses nothing: a key comes out
\* exactly when a threshold of the collected shares is genuine and the AAD is
\* the one the key was wrapped under, wherever in the order the bad shares
\* are; and the two errors tell too few usable points from useless ones.
UnwrapExact ==
  last.result # "None" =>
    /\ (last.result = "Ok") <=> (last.genuine >= WrapThreshold /\ last.matches)
    /\ (last.result = "InsufficientUnwrapShares")
         <=> (last.genuine + last.tampered < WrapThreshold)

CallTexts(c) == call[c].out \o SeqTexts(call[c].todo)

Places ==
  [t \in 1..published |->
     Cardinality({i \in DOMAIN history : history[i].text = t})
     + Cardinality({p \in Calls \X Texts :
                      p[2] \in DOMAIN CallTexts(p[1]) /\ CallTexts(p[1])[p[2]] = t})
     + Cardinality({i \in DOMAIN shown : shown[i] = t})
     + (IF t \in lost THEN 1 ELSE 0)]

\* However two syncs, a publication and an identity change interleave, a
\* published text is in exactly one place: at the postman, in one running
\* sync, shown, or lost with a sync that failed.  So no text is shown twice,
\* and none disappears while every sync succeeds.
EveryTextOnce == \A t \in 1..published : Places[t] = 1

\* unwrap.rs:33-36 and 135-138: AllSubsetsFailedUnwrap signals at least a
\* threshold of malicious servers.
AllFailedMeansThreshold ==
  last.result = "AllSubsetsFailedUnwrap" =>
    last.tampered >= WrapThreshold

\* chat_common.rs:1089-1093: a caller whose sync ended without enough shares
\* shows "sync failed, retry": a retry finds the texts of a failed sync.
RetryFindsTexts ==
  \A t \in lost : \E i \in DOMAIN history : history[i].text = t
=============================================================================
