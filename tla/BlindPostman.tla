---------------------------- MODULE BlindPostman ----------------------------
(***************************************************************************)
(* The blind-postman router: parse, duplicate check, rate limit, record    *)
(* (crates/umbrella-server-blind-postman/src/{router,replay,ratelimit}.rs, *)
(* the outcome of parsing from envelope.rs).                               *)
(*                                                                         *)
(* An envelope is its SHA-256 hash together with what parse_mls_envelope   *)
(* says of it: an EnvelopeKind, or one of the two errors it can return.    *)
(* The caller passes now_unix; MaxStepBack says how far that clock may be  *)
(* set back between two calls (0: it is monotone).                         *)
(***************************************************************************)
EXTENDS Naturals, Sequences, FiniteSets

CONSTANTS
  Envelopes,
  ParsedAs,        \* [Envelopes -> Kinds \cup ParseErrors]
  EndpointKinds,   \* the kinds switched on by with_welcomes() and the like
  Senders,
  ReplayWindow,    \* window_secs of the ReplayGuard
  RateWindow,      \* window_secs of the FixedWindow limiter
  PerWindow,
  MaxTrackedSenders,
  MaxTime,         \* bound on the clock
  MaxStepBack,
  MaxDelivered,    \* bound on accepted envelopes
  NoBucket

Kinds ==
  {"PrivateMessage", "PublicMessage", "Welcome", "KeyPackage", "GroupInfo"}

ParseErrors == {"Malformed", "ParserPanic"}

\* FixedWindow::new asserts the last two.
ASSUME PostmanAssumption ==
  /\ ParsedAs \in [Envelopes -> Kinds \cup ParseErrors]
  /\ EndpointKinds \subseteq {"Welcome", "KeyPackage", "GroupInfo"}
  /\ ReplayWindow \in Nat /\ MaxTime \in Nat /\ MaxStepBack \in Nat
  /\ MaxDelivered \in Nat /\ MaxTrackedSenders \in Nat
  /\ IsFiniteSet(Senders)
  /\ RateWindow \in Nat \ {0}
  /\ PerWindow \in Nat \ {0}

ASSUME NoBucketAssumption == NoBucket \notin [start: Nat, count: Nat]

VARIABLES
  now,         \* the clock the caller reads
  active,      \* ReplayGuard.active
  queue,       \* ReplayGuard.queue
  buckets,     \* FixedWindow.buckets; NoBucket is a missing key
  delivered    \* history variable: the accepted envelopes, in order

vars == <<now, active, queue, buckets, delivered>>

Times == 0..MaxTime
Arrivals == [at: Times, envelope: Envelopes]
Buckets == [start: Times, count: 0..PerWindow]
Deliveries == [at: Times, envelope: Envelopes, sender: Senders]

-----------------------------------------------------------------------------
\* parse_mls_envelope returns an envelope and not an error.
Parsed(e) == ParsedAs[e] \notin ParseErrors

\* Router::dispatch up to the replay check: everything that is thrown out
\* before any state is touched.
Parses(e) ==
  /\ Parsed(e)
  /\ ParsedAs[e] \in {"PrivateMessage", "PublicMessage"} \cup EndpointKinds

\* Mutant: an entry is dropped one second early.
CutoffEarly == IF now >= ReplayWindow THEN now - ReplayWindow + 1 ELSE 0

\* now_unix.saturating_sub(window_secs)
Cutoff == IF now >= ReplayWindow THEN now - ReplayWindow ELSE 0

\* evict_expired pops the first k entries: those in front of the first one
\* that is not expired.
Expires(k) ==
  /\ \A j \in 1..k : queue[j].at < Cutoff
  /\ k < Len(queue) => queue[k + 1].at >= Cutoff

Retained(k) == SubSeq(queue, k + 1, Len(queue))

StillActive(k) == active \ {queue[j].envelope : j \in 1..k}

\* evict_expired alone: what is_duplicate does before it answers.
Evict(k) ==
  /\ queue' = Retained(k)
  /\ active' = StillActive(k)

\* ReplayGuard::record after the same eviction; the hash is new here.
Record(e, k) ==
  /\ queue' = Append(Retained(k), [at |-> now, envelope |-> e])
  /\ active' = StillActive(k) \cup {e}

\* The current fixed window.
WindowStart == (now \div RateWindow) * RateWindow

\* Mutant: making room forgets the current window too.
PurgeEverything(s) ==
  LET tracked == {t \in Senders : buckets[t] # NoBucket} IN
  IF s \notin tracked /\ Cardinality(tracked) >= MaxTrackedSenders
  THEN [t \in Senders |-> NoBucket]
  ELSE buckets

\* Buckets left once `allow' has made room for a sender it does not track.
AfterPurge(s) ==
  LET tracked == {t \in Senders : buckets[t] # NoBucket} IN
  IF s \notin tracked /\ Cardinality(tracked) >= MaxTrackedSenders
  THEN [t \in Senders |->
          IF t \in tracked /\ buckets[t].start = WindowStart
          THEN buckets[t] ELSE NoBucket]
  ELSE buckets

TableFull(s) ==
  LET kept == AfterPurge(s) IN
  /\ buckets[s] = NoBucket
  /\ Cardinality({t \in Senders : kept[t] # NoBucket}) >= MaxTrackedSenders

\* Messages the sender has been granted in the current window.
Spent(s) ==
  IF buckets[s] # NoBucket /\ buckets[s].start = WindowStart
  THEN buckets[s].count ELSE 0

\* Mutant: the window starts at the first message instead of at a multiple
\* of its length.
ChargeFromNow(s) ==
  buckets' = [AfterPurge(s) EXCEPT
                ![s] = [start |-> now, count |-> Spent(s) + 1]]

\* The tail of `allow': a bucket of an earlier window starts again at zero.
Charge(s) ==
  buckets' = [AfterPurge(s) EXCEPT
                ![s] = [start |-> WindowStart, count |-> Spent(s) + 1]]

-----------------------------------------------------------------------------
Init ==
  /\ now \in Times
  /\ active = {}
  /\ queue = <<>>
  /\ buckets = [s \in Senders |-> NoBucket]
  /\ delivered = <<>>

ClockMoves ==
  /\ \E t \in Times : t + MaxStepBack >= now /\ t # now /\ now' = t
  /\ UNCHANGED <<active, queue, buckets, delivered>>

\* RejectMalformed, RejectParserPanic or RejectUnsupportedKind.
RejectUnparsed(e) ==
  /\ ~Parses(e)
  /\ UNCHANGED vars

\* is_duplicate answers yes.
RejectReplay(e, k) ==
  /\ Parses(e)
  /\ Expires(k)
  /\ e \in StillActive(k)
  /\ Evict(k)
  /\ UNCHANGED <<now, buckets, delivered>>

\* Mutant: the hash is recorded before the limiter is asked.
RejectRateLimitRecorded(e, s, k) ==
  /\ Parses(e)
  /\ Expires(k)
  /\ e \notin StillActive(k)
  /\ TableFull(s) \/ Spent(s) >= PerWindow
  /\ buckets' = AfterPurge(s)
  /\ Record(e, k)
  /\ UNCHANGED <<now, delivered>>

\* RateLimiter::allow refuses: a table still full after the purge, or a
\* spent quota.
RejectRateLimit(e, s, k) ==
  /\ Parses(e)
  /\ Expires(k)
  /\ e \notin StillActive(k)
  /\ \/ TableFull(s) /\ buckets' = AfterPurge(s)
     \/ Spent(s) >= PerWindow /\ UNCHANGED buckets
  /\ Evict(k)
  /\ UNCHANGED <<now, delivered>>

Accept(e, s, k) ==
  /\ Len(delivered) < MaxDelivered
  /\ Parses(e)
  /\ Expires(k)
  /\ e \notin StillActive(k)
  /\ ~TableFull(s)
  /\ Spent(s) < PerWindow
  /\ Charge(s)
  /\ Record(e, k)
  /\ delivered' =
       Append(delivered, [at |-> now, envelope |-> e, sender |-> s])
  /\ UNCHANGED now

Next ==
  \/ ClockMoves
  \/ \E e \in Envelopes : RejectUnparsed(e)
  \/ \E e \in Envelopes, s \in Senders, k \in 0..Len(queue) :
       \/ RejectReplay(e, k)
       \/ RejectRateLimit(e, s, k)
       \/ Accept(e, s, k)

Spec == Init /\ [][Next]_vars

-----------------------------------------------------------------------------
TypeOK ==
  /\ now \in Times
  /\ active \subseteq Envelopes
  /\ queue \in Seq(Arrivals)
  /\ buckets \in [Senders -> Buckets \cup {NoBucket}]
  /\ delivered \in Seq(Deliveries)

LookupIsQueue ==
  /\ active = {queue[i].envelope : i \in DOMAIN queue}
  /\ \A i, j \in DOMAIN queue :
       queue[i].envelope = queue[j].envelope => i = j

OnlyDeliveredRemembered ==
  \A i \in DOMAIN queue : \E j \in DOMAIN delivered :
    /\ delivered[j].envelope = queue[i].envelope
    /\ delivered[j].at = queue[i].at

\* The lookup set and the eviction queue of ReplayGuard never drift apart and
\* hold a hash at most once, even when the clock steps back; and only what was
\* delivered occupies them: an envelope refused by the limiter or by the parser
\* is not remembered, so its retry can pass.
GuardConsistent == LookupIsQueue /\ OnlyDeliveredRemembered

\* No envelope is handed to delivery twice within the replay window.
NoReplayInWindow ==
  \A i, j \in DOMAIN delivered :
    (i < j /\ delivered[i].envelope = delivered[j].envelope) =>
      delivered[j].at > delivered[i].at + ReplayWindow

DeliveredIn(s, from, to) ==
  {i \in DOMAIN delivered :
     /\ delivered[i].sender = s
     /\ delivered[i].at >= from /\ delivered[i].at < to}

\* Within one fixed window a sender gets at most per_window envelopes
\* through, also when its bucket is purged to make room for others; and the
\* table that remembers this never outgrows its capacity.
LimitsHold ==
  /\ \A s \in Senders, t \in Times :
       t % RateWindow = 0 =>
         Cardinality(DeliveredIn(s, t, t + RateWindow)) <= PerWindow
  /\ Cardinality({s \in Senders : buckets[s] # NoBucket}) <= MaxTrackedSenders

\* The quota counts deliveries and nothing else: neither replays nor
\* refusals are charged, and no delivery goes uncharged.
QuotaChargesDeliveries ==
  \A s \in Senders :
    Spent(s) = Cardinality(DeliveredIn(s, WindowStart, WindowStart + RateWindow))
=============================================================================
