---------------------------- MODULE SframeProofs ----------------------------
(* Proofs about Sframe for any number of members, any cache size and any
   window width.  The theorems on frames assume KidsTellApart: no epoch is
   installed twice, and the epochs that are cached together, with the one
   that leaves the cache, differ in the bits a KID keeps.  The call may go on
   after those bits wrap around. *)
EXTENDS Sframe, Integers, TLAPS

(* Installed epochs are strictly newer, and either the call has fewer epochs
   than a KID can tell apart or CacheSize jumps do not get around. *)
KidsTellApart ==
    \A j \in Jumps : j > 0 /\ (MaxEpoch < EpochMod \/ j * CacheSize < EpochMod)

(* The constants are naturals. *)
LEMMA NatFacts ==
    /\ CacheSize \in Nat /\ CacheSize > 0
    /\ Width \in Nat /\ Width > 0
    /\ EpochMod \in Nat /\ EpochMod > 0
    /\ MaxEpoch \in Nat /\ MaxCounter \in Nat /\ MaxGarbled \in Nat
    /\ NoKey \notin Nat
BY SframeAssumption

-----------------------------------------------------------------------------
(* The replay window by itself. *)

(* check_and_update keeps the shape of the window. *)
LEMMA UpdateType ==
    ASSUME NEW w \in Window, NEW c \in Counter, Accepts(w, c)
    PROVE  Update(w, c) \in Window
<1>. USE NatFacts DEF Window, Counter
<1>1. CASE w.initialized /\ c <= w.highest
  <2>1. w.highest - c \in 0..(Width - 1)
    BY <1>1 DEF Accepts
  <2>. QED
    BY <1>1, <2>1, Zenon DEF Update
<1>2. CASE ~(w.initialized /\ c <= w.highest)
  <2>1. 0 \in 0..(Width - 1)
    OBVIOUS
  <2>2. ShiftBits(w.bits, c - w.highest) \subseteq 0..(Width - 1)
    BY Zenon DEF ShiftBits
  <2>. QED
    BY <1>2, <2>1, <2>2, Zenon DEF Update
<1>. QED
  BY <1>1, <1>2, Zenon

(* A counter that check_and_update let through is refused from then on. *)
LEMMA UpdateRefusesSame ==
    ASSUME NEW w \in Window, NEW c \in Counter, Accepts(w, c)
    PROVE  ~Accepts(Update(w, c), c)
<1>. USE NatFacts DEF Window, Counter
<1>1. CASE w.initialized /\ c <= w.highest
  BY <1>1, Zenon DEF Accepts, Update
<1>2. CASE ~(w.initialized /\ c <= w.highest)
  BY <1>2 DEF Accepts, Update
<1>. QED
  BY <1>1, <1>2, Zenon

(* A refused counter stays refused whatever check_and_update lets through
   next: moving the window loses no bit that is still inside it. *)
LEMMA UpdateKeepsRefusing ==
    ASSUME NEW w \in Window, NEW c \in Counter, NEW d \in Counter,
           Accepts(w, c), ~Accepts(w, d)
    PROVE  ~Accepts(Update(w, c), d)
<1>. USE NatFacts DEF Window, Counter
<1>1. w.initialized /\ d <= w.highest
  BY Zenon DEF Accepts
<1>2. CASE c <= w.highest
  BY <1>1, <1>2, Zenon DEF Accepts, Update
<1>3. CASE c > w.highest
  <2>1. /\ Update(w, c).initialized
        /\ Update(w, c).highest = c
        /\ Update(w, c).bits = {0} \cup ShiftBits(w.bits, c - w.highest)
    BY <1>1, <1>3 DEF Update
  <2>2. d <= c
    BY <1>1, <1>3
  <2>3. SUFFICES ASSUME c - d < Width
                 PROVE  c - d \in ShiftBits(w.bits, c - w.highest)
    BY <2>1, <2>2, Zenon DEF Accepts
  <2>4. w.highest - d < Width
    BY <2>3, <1>1, <1>3
  <2>5. w.highest - d \in w.bits
    BY <2>4, <1>1, Zenon DEF Accepts
  <2>6. /\ c - d >= c - w.highest
        /\ (c - d) - (c - w.highest) = w.highest - d
        /\ c - d \in 0..(Width - 1)
    BY <2>3, <1>1, <1>3
  <2>. QED
    BY <2>5, <2>6, Zenon DEF ShiftBits
<1>. QED
  BY <1>2, <1>3

(* Two epochs at most n jumps apart: their distance cannot reach EpochMod in
   n <= CacheSize jumps, unless the call is too short to wrap at all. *)
Apart(d, e, n) == MaxEpoch < EpochMod \/ (d - e) * CacheSize < n * EpochMod

(* Jumps add up. *)
LEMMA ApartSum ==
    ASSUME NEW d \in Nat, NEW e \in Nat, NEW g \in Nat, NEW m \in Nat, NEW n \in Nat,
           Apart(d, e, m), Apart(e, g, n)
    PROVE  Apart(d, g, m + n)
<1>1. CASE MaxEpoch < EpochMod
  BY <1>1, Zenon DEF Apart
<1>2. CASE ~(MaxEpoch < EpochMod)
  <2>1. (d - g) * CacheSize = (d - e) * CacheSize + (e - g) * CacheSize
    BY NatFacts
  <2>2. (m + n) * EpochMod = m * EpochMod + n * EpochMod
    BY NatFacts
  <2>3. (d - e) * CacheSize < m * EpochMod /\ (e - g) * CacheSize < n * EpochMod
    BY <1>2, Zenon DEF Apart
  <2>4. /\ (d - e) * CacheSize \in Int /\ (e - g) * CacheSize \in Int
        /\ m * EpochMod \in Int /\ n * EpochMod \in Int
    BY NatFacts
  <2>. QED BY <2>1, <2>2, <2>3, <2>4 DEF Apart
<1>. QED BY <1>1, <1>2, Zenon

(* Numbers that leave the same rest are a multiple of the divisor apart. *)
LEMMA SameRest ==
    ASSUME NEW d \in Nat, NEW e \in Nat, d > e, d % EpochMod = e % EpochMod
    PROVE  d - e >= EpochMod
<1>. DEFINE p == d \div EpochMod
            q == e \div EpochMod
            r == d % EpochMod
<1>1. p \in Nat /\ q \in Nat /\ r \in Nat
  BY NatFacts
<1>2. d = EpochMod * p + r /\ e = EpochMod * q + r
  BY NatFacts
<1>. HIDE DEF p, q, r
<1>3. d - e = EpochMod * (p - q)
  BY <1>1, <1>2, NatFacts
<1>4. p - q >= 1
  <2>1. SUFFICES ASSUME q >= p PROVE FALSE
    BY <1>1
  <2>2. EpochMod * (q - p) >= 0 /\ EpochMod * (p - q) = 0 - EpochMod * (q - p)
    BY <1>1, <2>1, NatFacts
  <2>. QED BY <1>1, <1>3, <2>2, NatFacts
<1>5. EpochMod * (p - q) >= EpochMod
  BY <1>1, <1>4, NatFacts
<1>. QED BY <1>3, <1>5, Zenon

(* Epochs few jumps apart have different KIDs. *)
LEMMA ApartDiffer ==
    ASSUME NEW d \in Epoch, NEW e \in Epoch, d > e,
           NEW n \in Nat, n <= CacheSize, Apart(d, e, n)
    PROVE  d % EpochMod # e % EpochMod
<1>0. d \in Nat /\ e \in Nat /\ d <= MaxEpoch
  BY NatFacts DEF Epoch
<1>1. d - e < EpochMod
  <2>1. CASE MaxEpoch < EpochMod
    BY <1>0, <2>1, NatFacts
  <2>2. CASE (d - e) * CacheSize < n * EpochMod
    <3>1. SUFFICES ASSUME d - e >= EpochMod PROVE FALSE
      BY <1>0, NatFacts
    <3>2. (d - e) * CacheSize >= EpochMod * CacheSize
      BY <1>0, <3>1, NatFacts
    <3>3. n * EpochMod <= CacheSize * EpochMod
      BY NatFacts
    <3>4. EpochMod * CacheSize = CacheSize * EpochMod
      BY NatFacts
    <3>5. /\ (d - e) * CacheSize \in Int /\ n * EpochMod \in Int
          /\ CacheSize * EpochMod \in Int
      BY <1>0, NatFacts
    <3>. QED BY <2>2, <3>2, <3>3, <3>4, <3>5
  <2>. QED BY <2>1, <2>2, Zenon DEF Apart
<1>. QED BY <1>0, <1>1, SameRest, NatFacts

-----------------------------------------------------------------------------
(* The inductive invariant, one member at a time. *)

(* Cached epochs are strictly newer from back to front, and near enough for
   their KIDs to differ. *)
CacheOK(cache) ==
    /\ Len(cache) <= CacheSize
    /\ \A i, j \in 1..Len(cache) : i < j =>
          cache[i] > cache[j] /\ Apart(cache[i], cache[j], j - i)

(* A cached per-KID key is of a cached epoch that has the KID. *)
KeysOK(cache, cached) ==
    \A kid \in Kid : cached[kid] # NoKey =>
        /\ cached[kid] % EpochMod = kid[2]
        /\ \E i \in 1..Len(cache) : cache[i] = cached[kid]

(* A frame that was opened is of an epoch no newer than the newest cached
   one, and its window refuses it as long as the epoch is cached. *)
OpeningOK(cache, windows, o) ==
    /\ o.as = o.frame.epoch
    /\ o.frame.key = o.frame.epoch
    /\ Len(cache) > 0
    /\ o.as <= cache[1]
    /\ (\E i \in 1..Len(cache) : cache[i] = o.as) =>
          ~Accepts(windows[<<o.frame.sender, o.as>>], o.frame.counter)

MemberOK(m) ==
    /\ CacheOK(epochs[m])
    /\ KeysOK(epochs[m], keys[m])
    /\ \A o \in opened[m] : OpeningOK(epochs[m], replay[m], o)

SentOK == \A f \in sent : f.key = f.epoch

IndInv == TypeOK /\ SentOK /\ \A m \in Members : MemberOK(m)

(* What advance_epoch does to the cache of a member. *)
LEMMA CacheAfterAdvance ==
    ASSUME NEW cache \in Seq(Epoch), NEW e \in Epoch
    PROVE  LET full == <<e>> \o cache
               left == SubSeq(full, 1, CacheSize)
           IN /\ full \in Seq(Epoch) /\ Len(full) = Len(cache) + 1
              /\ full[1] = e
              /\ \A i \in 1..Len(cache) : full[i + 1] = cache[i]
              /\ Len(full) > CacheSize =>
                    /\ left \in Seq(Epoch) /\ Len(left) = CacheSize
                    /\ \A i \in 1..CacheSize : left[i] = full[i]
<1>. DEFINE full == <<e>> \o cache
            left == SubSeq(full, 1, CacheSize)
<1>1. /\ full \in Seq(Epoch) /\ Len(full) = Len(cache) + 1
      /\ full[1] = e
      /\ \A i \in 1..Len(cache) : full[i + 1] = cache[i]
  OBVIOUS
<1>2. ASSUME Len(full) > CacheSize
      PROVE  /\ left \in Seq(Epoch) /\ Len(left) = CacheSize
             /\ \A i \in 1..CacheSize : left[i] = full[i]
  <2>. HIDE DEF full
  <2>. QED BY <1>1, <1>2, NatFacts
<1>. QED
  BY <1>1, <1>2, Zenon

(* A newer epoch in front, with the oldest dropped or not, keeps the order. *)
LEMMA CacheOKAfterAdvance ==
    ASSUME NEW cache \in Seq(Epoch), CacheOK(cache), NEW e \in Epoch,
           Len(cache) > 0 => e > cache[1] /\ Apart(e, cache[1], 1)
    PROVE  LET full == <<e>> \o cache
               left == SubSeq(full, 1, CacheSize)
           IN /\ \A i, j \in 1..Len(full) : i < j =>
                    full[i] > full[j] /\ Apart(full[i], full[j], j - i)
              /\ Len(full) <= CacheSize => CacheOK(full)
              /\ Len(full) > CacheSize => CacheOK(left)
<1>. DEFINE full == <<e>> \o cache
            left == SubSeq(full, 1, CacheSize)
<1>1. /\ full \in Seq(Epoch) /\ Len(full) = Len(cache) + 1
      /\ full[1] = e
      /\ \A i \in 1..Len(cache) : full[i + 1] = cache[i]
      /\ Len(full) > CacheSize =>
            /\ left \in Seq(Epoch) /\ Len(left) = CacheSize
            /\ \A i \in 1..CacheSize : left[i] = full[i]
  BY CacheAfterAdvance, Zenon
<1>. HIDE DEF full, left
<1>2. ASSUME NEW i \in 1..Len(full), NEW j \in 1..Len(full), i < j
      PROVE  full[i] > full[j] /\ Apart(full[i], full[j], j - i)
  <2>1. j - 1 \in 1..Len(cache) /\ full[j] = cache[j - 1]
    <3>1. j - 1 \in 1..Len(cache)
      BY <1>1, <1>2
    <3>2. full[(j - 1) + 1] = cache[j - 1]
      BY <3>1, <1>1, Zenon
    <3>. QED BY <3>1, <3>2, <1>2
  <2>2. cache[j - 1] < e /\ Apart(e, cache[j - 1], j - 1)
    <3>1. 1 \in 1..Len(cache) /\ cache[1] \in Nat /\ cache[j - 1] \in Nat /\ e \in Nat
      <4>1. Len(cache) \in Nat /\ j - 1 \in Nat
        BY <2>1
      <4>2. 1 \in 1..Len(cache)
        BY <2>1, <4>1
      <4>3. cache[1] \in Epoch /\ cache[j - 1] \in Epoch
        BY <2>1, <4>2
      <4>4. Epoch \subseteq Nat
        BY NatFacts DEF Epoch
      <4>. QED BY <4>2, <4>3, <4>4, Zenon
    <3>2. e > cache[1] /\ Apart(e, cache[1], 1)
      BY <3>1
    <3>3. CASE j - 1 = 1
      BY <3>2, <3>3, Zenon
    <3>4. CASE j - 1 > 1
      <4>1. cache[1] > cache[j - 1] /\ Apart(cache[1], cache[j - 1], (j - 1) - 1)
        BY <2>1, <3>1, <3>4, Zenon DEF CacheOK
      <4>2. (j - 1) - 1 \in Nat /\ 1 + ((j - 1) - 1) = j - 1
        BY <3>4, <2>1
      <4>3. Apart(e, cache[j - 1], 1 + ((j - 1) - 1))
        BY <3>1, <3>2, <4>1, <4>2, ApartSum, Zenon
      <4>. QED BY <4>1, <4>2, <4>3, <3>1, <3>2, SMTT(60)
    <3>. QED BY <3>3, <3>4, <2>1
  <2>3. CASE i = 1
    BY <2>1, <2>2, <2>3, <1>1, Zenon
  <2>4. CASE i > 1
    <3>1. i - 1 \in 1..Len(cache)
      BY <1>1, <2>4, <1>2
    <3>2. full[(i - 1) + 1] = cache[i - 1]
      BY <3>1, <1>1, Zenon
    <3>3. /\ cache[i - 1] > cache[j - 1]
          /\ Apart(cache[i - 1], cache[j - 1], (j - 1) - (i - 1))
      <4>1. i - 1 < j - 1
        BY <1>1, <1>2
      <4>. QED BY <3>1, <2>1, <4>1, Zenon DEF CacheOK
    <3>4. (j - 1) - (i - 1) = j - i /\ (i - 1) + 1 = i
      BY <1>1
    <3>. QED BY <3>2, <3>3, <3>4, <2>1, Zenon
  <2>. QED BY <2>3, <2>4, <1>2
<1>3. Len(full) <= CacheSize => CacheOK(full)
  BY <1>2, Zenon DEF CacheOK
<1>4. ASSUME Len(full) > CacheSize PROVE CacheOK(left)
  <2>1. /\ Len(left) = CacheSize /\ CacheSize <= CacheSize
        /\ \A i \in 1..CacheSize : left[i] = full[i] /\ i \in 1..Len(full)
    BY <1>1, <1>4, NatFacts
  <2>2. ASSUME NEW i \in 1..Len(left), NEW j \in 1..Len(left), i < j
        PROVE  left[i] > left[j] /\ Apart(left[i], left[j], j - i)
    <3>1. /\ i \in 1..Len(full) /\ j \in 1..Len(full)
          /\ left[i] = full[i] /\ left[j] = full[j]
      BY <2>1, <2>2, Zenon
    <3>. QED BY <1>2, <2>2, <3>1, Zenon
  <2>. QED BY <2>1, <2>2, Zenon DEF CacheOK
<1>. QED
  BY <1>2, <1>3, <1>4, Zenon DEF full, left

(* Cached epochs have different KIDs. *)
LEMMA CacheDiffer ==
    ASSUME NEW cache \in Seq(Epoch), CacheOK(cache),
           NEW i \in 1..Len(cache), NEW j \in 1..Len(cache),
           cache[i] % EpochMod = cache[j] % EpochMod
    PROVE  i = j
<1>0. /\ i \in Nat /\ j \in Nat /\ Len(cache) \in Nat /\ Len(cache) <= CacheSize
      /\ cache[i] \in Epoch /\ cache[j] \in Epoch
  BY DEF CacheOK
<1>1. ASSUME i < j PROVE FALSE
  <2>1. cache[i] > cache[j] /\ Apart(cache[i], cache[j], j - i)
    BY <1>1, Zenon DEF CacheOK
  <2>2. j - i \in Nat /\ j - i <= CacheSize
    BY <1>0, <1>1, NatFacts
  <2>. QED BY <1>0, <2>1, <2>2, ApartDiffer, Zenon
<1>2. ASSUME j < i PROVE FALSE
  <2>1. cache[j] > cache[i] /\ Apart(cache[j], cache[i], i - j)
    BY <1>2, Zenon DEF CacheOK
  <2>2. i - j \in Nat /\ i - j <= CacheSize
    BY <1>0, <1>2, NatFacts
  <2>. QED BY <1>0, <2>1, <2>2, ApartDiffer, Zenon
<1>. QED BY <1>0, <1>1, <1>2

-----------------------------------------------------------------------------
(* Type correctness, for every value of the constants. *)

(* compute_kid gives a KID of the sender and the epoch's low bits. *)
LEMMA KidType ==
    ASSUME NEW m \in Members, NEW e \in Epoch
    PROVE  /\ ComputeKid(m, e) \in Kid
           /\ ComputeKid(m, e)[1] = m
           /\ ComputeKid(m, e)[2] = e % EpochMod
<1>1. e % EpochMod \in 0..(EpochMod - 1)
  BY NatFacts DEF Epoch
<1>. QED
  BY <1>1, Zenon DEF ComputeKid, Kid

(* The key used for a KID is of an epoch. *)
LEMMA KeyForType ==
    ASSUME TypeOK, NEW m \in Members, NEW kid \in Kid, NEW e \in Epoch
    PROVE  KeyFor(m, kid, e) \in Epoch
BY Zenon DEF TypeOK, KeyFor

(* Looking up or deriving a key keeps the key cache's type. *)
LEMMA GetOrDeriveType ==
    ASSUME TypeOK, NEW m \in Members, NEW kid \in Kid, NEW e \in Epoch,
           GetOrDerive(m, kid, e)
    PROVE  keys' \in [Members -> [Kid -> Epoch \cup {NoKey}]]
<1>1. KeyFor(m, kid, e) \in Epoch
  BY KeyForType, Zenon
<1>2. [keys[m] EXCEPT ![kid] = KeyFor(m, kid, e)] \in [Kid -> Epoch \cup {NoKey}]
  BY <1>1, Zenon DEF TypeOK
<1>. QED
  BY <1>2, Zenon DEF TypeOK, GetOrDerive

(* So does what decrypt_frame does before it opens the frame. *)
LEMMA BeforeAeadType ==
    ASSUME TypeOK, NEW m \in Members, NEW kid \in Kid, NEW c \in Counter,
           NEW i \in 1..Len(epochs[m]), BeforeAead(m, kid, c, i)
    PROVE  /\ epochs[m][i] \in Epoch
           /\ <<kid[1], epochs[m][i]>> \in Members \X Epoch
           /\ keys' \in [Members -> [Kid -> Epoch \cup {NoKey}]]
           /\ replay' \in [Members -> [Members \X Epoch -> Window]]
<1>. DEFINE se == <<kid[1], epochs[m][i]>>
<1>1. epochs[m][i] \in Epoch
  BY DEF TypeOK
<1>2. se \in Members \X Epoch
  BY <1>1, Zenon DEF Kid
<1>3. replay[m] \in [Members \X Epoch -> Window]
  BY Zenon DEF TypeOK
<1>4. Update(replay[m][se], c) \in Window
  BY <1>2, <1>3, UpdateType, Zenon DEF BeforeAead
<1>5. [replay[m] EXCEPT ![se] = Update(replay[m][se], c)] \in [Members \X Epoch -> Window]
  BY <1>3, <1>4, Zenon
<1>6. replay' \in [Members -> [Members \X Epoch -> Window]]
  BY <1>5, Zenon DEF BeforeAead, TypeOK
<1>7. keys' \in [Members -> [Kid -> Epoch \cup {NoKey}]]
  BY <1>1, GetOrDeriveType, Zenon DEF BeforeAead
<1>. QED
  BY <1>1, <1>2, <1>6, <1>7, Zenon

(* advance_epoch keeps the types. *)
LEMMA AdvanceEpochType ==
    ASSUME TypeOK, NEW m \in Members, NEW e \in Epoch, AdvanceEpoch(m, e)
    PROVE  TypeOK'
<1>. DEFINE full == <<e>> \o epochs[m]
            left == SubSeq(full, 1, CacheSize)
            old == full[Len(full)]
<1>1. epochs[m] \in Seq(Epoch)
  BY Zenon DEF TypeOK
<1>2. /\ full \in Seq(Epoch)
      /\ Len(full) > CacheSize => left \in Seq(Epoch)
  BY <1>1, CacheAfterAdvance, Zenon
<1>3. /\ sent' = sent /\ opened' = opened /\ garbled' = garbled /\ failed' = failed
  BY Zenon DEF AdvanceEpoch
<1>4. CASE Len(full) <= CacheSize
  <2>1. epochs' = [epochs EXCEPT ![m] = full] /\ keys' = keys /\ replay' = replay
    BY <1>4, Zenon DEF AdvanceEpoch
  <2>. HIDE DEF full
  <2>. QED BY <1>2, <1>3, <2>1, Zenon DEF TypeOK
<1>5. CASE ~(Len(full) <= CacheSize)
  <2>1. /\ epochs' = [epochs EXCEPT ![m] = left]
        /\ replay' = [replay EXCEPT ![m] = DropWindows(replay[m], old)]
        /\ keys' = [keys EXCEPT ![m] = DropKeys(keys[m], old, left)]
    BY <1>5, Zenon DEF AdvanceEpoch
  <2>2. left \in Seq(Epoch)
    <3>1. Len(full) > CacheSize
      BY <1>2, <1>5, NatFacts
    <3>. QED BY <3>1, <1>2, Zenon
  <2>. HIDE DEF full, left, old
  <2>3. NewWindow \in Window
    BY NatFacts DEF NewWindow, Window, Counter
  <2>4. DropWindows(replay[m], old) \in [Members \X Epoch -> Window]
    BY <2>3 DEF DropWindows, TypeOK
  <2>5. DropKeys(keys[m], old, left) \in [Kid -> Epoch \cup {NoKey}]
    BY Zenon DEF DropKeys, TypeOK
  <2>. QED BY <1>3, <2>1, <2>2, <2>4, <2>5, Zenon DEF TypeOK
<1>. QED
  BY <1>4, <1>5, Zenon

(* Every step of the contexts keeps the type invariant. *)
LEMMA TypeStep ==
    ASSUME TypeOK, [Next]_vars
    PROVE  TypeOK'
<1>1. ASSUME NEW m \in Members, NEW e \in Epoch, AdvanceEpoch(m, e)
      PROVE  TypeOK'
  BY <1>1, AdvanceEpochType, Zenon
<1>2. ASSUME NEW m \in Senders, NEW c \in Counter, EncryptFrame(m, c)
      PROVE  TypeOK'
  <2>. DEFINE e == epochs[m][1]
              kid == ComputeKid(m, e)
  <2>1. m \in Members
    BY SframeAssumption, Zenon
  <2>2. PICK i \in 1..Len(epochs[m]) :
          /\ GetOrDerive(m, kid, epochs[m][i])
          /\ sent' = sent \cup {[sender |-> m, epoch |-> e, counter |-> c,
                                 key |-> KeyFor(m, kid, epochs[m][i])]}
    BY <1>2, Zenon DEF EncryptFrame
  <2>3. epochs[m] \in Seq(Epoch) /\ epochs[m][i] \in Epoch /\ e \in Epoch
    BY <2>1, <2>2, <1>2 DEF TypeOK
  <2>4. kid \in Kid
    BY <2>1, <2>3, KidType, Zenon
  <2>. HIDE DEF kid, e
  <2>5. keys' \in [Members -> [Kid -> Epoch \cup {NoKey}]]
    BY <2>1, <2>2, <2>3, <2>4, GetOrDeriveType, Zenon
  <2>6. KeyFor(m, kid, epochs[m][i]) \in Epoch
    BY <2>1, <2>3, <2>4, KeyForType, Zenon
  <2>7. sent' \subseteq Frame
    BY <1>2, <2>1, <2>2, <2>3, <2>6 DEF TypeOK, Frame
  <2>. QED BY <1>2, <2>5, <2>7, Zenon DEF TypeOK, EncryptFrame
<1>3. ASSUME NEW m \in Members, NEW f \in sent, DecryptFrame(m, f)
      PROVE  TypeOK'
  <2>. DEFINE kid == ComputeKid(f.sender, f.epoch)
  <2>1. f \in Frame
    BY Zenon DEF TypeOK
  <2>2. f.sender \in Members /\ f.epoch \in Epoch /\ f.counter \in Counter
    BY <2>1, Zenon DEF Frame
  <2>3. kid \in Kid
    BY <2>2, KidType, Zenon
  <2>4. PICK i \in 1..Len(epochs[m]) :
          /\ BeforeAead(m, kid, f.counter, i)
          /\ \/ opened' = opened
             \/ opened' = [opened EXCEPT ![m] = @ \cup {[frame |-> f, as |-> epochs[m][i]]}]
          /\ garbled' = garbled
          /\ failed' \in BOOLEAN
    BY <1>3, Zenon DEF DecryptFrame, TypeOK
  <2>. HIDE DEF kid
  <2>5. /\ epochs[m][i] \in Epoch
        /\ keys' \in [Members -> [Kid -> Epoch \cup {NoKey}]]
        /\ replay' \in [Members -> [Members \X Epoch -> Window]]
    BY <2>2, <2>3, <2>4, BeforeAeadType, Zenon
  <2>6. opened' \in [Members -> SUBSET Opening]
    <3>1. [frame |-> f, as |-> epochs[m][i]] \in Opening
      BY <2>1, <2>5, Zenon DEF Opening
    <3>2. opened[m] \cup {[frame |-> f, as |-> epochs[m][i]]} \in SUBSET Opening
      BY <3>1, Zenon DEF TypeOK
    <3>. QED BY <2>4, <3>2, Zenon DEF TypeOK
  <2>. QED BY <2>4, <2>5, <2>6, Zenon DEF TypeOK, BeforeAead
<1>4. ASSUME NEW m \in Members, NEW kid \in Kid, NEW c \in Counter,
             DecryptGarbled(m, kid, c)
      PROVE  TypeOK'
  <2>1. PICK i \in 1..Len(epochs[m]) : BeforeAead(m, kid, c, i)
    BY <1>4, Zenon DEF DecryptGarbled
  <2>2. /\ keys' \in [Members -> [Kid -> Epoch \cup {NoKey}]]
        /\ replay' \in [Members -> [Members \X Epoch -> Window]]
    BY <2>1, BeforeAeadType, Zenon
  <2>3. garbled' \in 0..MaxGarbled /\ failed' \in BOOLEAN
    BY <1>4, NatFacts DEF DecryptGarbled, TypeOK
  <2>. QED BY <1>4, <2>1, <2>2, <2>3, Zenon DEF TypeOK, BeforeAead, DecryptGarbled
<1>5. CASE UNCHANGED vars
  BY <1>5, Zenon DEF vars, TypeOK
<1>. QED
  BY <1>1, <1>2, <1>3, <1>4, <1>5, Zenon DEF Next

(* The types hold at the start. *)
LEMMA TypeInit == Init => TypeOK
<1>1. NewWindow \in Window
  BY NatFacts DEF NewWindow, Window, Counter
<1>2. SUFFICES ASSUME Init PROVE TypeOK
  BY Zenon
<1>3. epochs \in [Members -> Seq(Epoch)]
  BY <1>2 DEF Init
<1>4. /\ keys \in [Members -> [Kid -> Epoch \cup {NoKey}]]
      /\ replay \in [Members -> [Members \X Epoch -> Window]]
  BY <1>1, <1>2, Zenon DEF Init
<1>5. /\ sent \subseteq Frame
      /\ opened \in [Members -> SUBSET Opening]
      /\ garbled \in 0..MaxGarbled
  BY <1>2, NatFacts DEF Init
<1>6. failed \in BOOLEAN
  BY <1>2, Zenon DEF Init
<1>. QED
  BY <1>3, <1>4, <1>5, <1>6, Zenon DEF TypeOK

(* The contexts stay well typed: windows keep at most Width bits, cached keys
   are of installed epochs, whatever is installed, sent and delivered. *)
THEOREM TypeCorrect == Spec => []TypeOK
<1>. QED
  BY TypeInit, TypeStep, PTL DEF Spec

-----------------------------------------------------------------------------
(* A KID resolves to the one cached epoch that has it, and get_or_derive
   yields the key of that epoch. *)
LEMMA ResolvedKey ==
    ASSUME TypeOK, NEW m \in Members, CacheOK(epochs[m]), KeysOK(epochs[m], keys[m]),
           NEW kid \in Kid, NEW i \in 1..Len(epochs[m]),
           Resolves(epochs[m], kid[2], i)
    PROVE  /\ KeyFor(m, kid, epochs[m][i]) = epochs[m][i]
           /\ \A j \in 1..Len(epochs[m]) : epochs[m][j] % EpochMod = kid[2] => j = i
<1>1. epochs[m] \in Seq(Epoch)
  BY Zenon DEF TypeOK
<1>2. epochs[m][i] % EpochMod = kid[2]
  BY Zenon DEF Resolves
<1>3. \A j \in 1..Len(epochs[m]) : epochs[m][j] % EpochMod = kid[2] => j = i
  BY <1>1, <1>2, CacheDiffer, Zenon
<1>4. CASE keys[m][kid] # NoKey
  <2>1. PICK j \in 1..Len(epochs[m]) : epochs[m][j] = keys[m][kid]
    BY <1>4, Zenon DEF KeysOK
  <2>2. epochs[m][j] % EpochMod = kid[2]
    BY <1>4, <2>1, Zenon DEF KeysOK
  <2>. QED BY <1>3, <1>4, <2>1, <2>2, Zenon DEF KeyFor
<1>5. CASE keys[m][kid] = NoKey
  BY <1>3, <1>5, Zenon DEF KeyFor
<1>. QED
  BY <1>4, <1>5, Zenon

(* get_or_derive keeps the per-KID cache honest. *)
LEMMA GetOrDeriveKeysOK ==
    ASSUME TypeOK, NEW m \in Members, CacheOK(epochs[m]), KeysOK(epochs[m], keys[m]),
           NEW kid \in Kid, NEW i \in 1..Len(epochs[m]),
           Resolves(epochs[m], kid[2], i), GetOrDerive(m, kid, epochs[m][i])
    PROVE  /\ KeysOK(epochs[m], keys'[m])
           /\ \A n \in Members \ {m} : keys'[n] = keys[n]
<1>2. epochs[m][i] % EpochMod = kid[2]
  BY Zenon DEF Resolves
<1>3. keys'[m] = [keys[m] EXCEPT ![kid] = KeyFor(m, kid, epochs[m][i])]
  BY Zenon DEF GetOrDerive, TypeOK
<1>4. keys[m] \in [Kid -> Epoch \cup {NoKey}]
  BY Zenon DEF TypeOK
<1>5. KeyFor(m, kid, epochs[m][i]) = epochs[m][i]
  BY ResolvedKey, Zenon
<1>6. KeysOK(epochs[m], keys'[m])
  BY <1>2, <1>3, <1>4, <1>5 DEF KeysOK
<1>7. \A n \in Members \ {m} : keys'[n] = keys[n]
  BY Zenon DEF GetOrDerive, TypeOK
<1>. QED
  BY <1>6, <1>7, Zenon

(* decrypt_frame up to AEAD keeps what holds of every member. *)
LEMMA BeforeAeadKeeps ==
    ASSUME IndInv, NEW m \in Members, NEW kid \in Kid, NEW c \in Counter,
           NEW i \in 1..Len(epochs[m]), BeforeAead(m, kid, c, i)
    PROVE  \A n \in Members :
              /\ CacheOK(epochs'[n])
              /\ KeysOK(epochs'[n], keys'[n])
              /\ \A o \in opened[n] : OpeningOK(epochs'[n], replay'[n], o)
<1>. DEFINE se == <<kid[1], epochs[m][i]>>
<1>1. epochs' = epochs
  BY Zenon DEF BeforeAead
<1>2. TypeOK /\ \A n \in Members : MemberOK(n)
  BY Zenon DEF IndInv
<1>3. \A n \in Members : KeysOK(epochs[n], keys'[n])
  BY <1>2, GetOrDeriveKeysOK, Zenon DEF MemberOK, BeforeAead
<1>4. ASSUME NEW n \in Members, NEW o \in opened[n]
      PROVE  OpeningOK(epochs[n], replay'[n], o)
  <2>1. OpeningOK(epochs[n], replay[n], o)
    BY <1>2, Zenon DEF MemberOK
  <2>2. CASE n = m
    <3>1. o \in Opening
      BY <1>2, Zenon DEF TypeOK
    <3>2. /\ o.frame.sender \in Members /\ o.as \in Epoch
          /\ o.frame.counter \in Counter
      BY <3>1, Zenon DEF Opening, Frame
    <3>. DEFINE so == <<o.frame.sender, o.as>>
    <3>3. so \in Members \X Epoch
      BY <3>2, Zenon
    <3>4. replay[m] \in [Members \X Epoch -> Window]
      BY <1>2, Zenon DEF TypeOK
    <3>5. replay'[m] = [replay[m] EXCEPT ![se] = Update(replay[m][se], c)]
      BY <1>2, Zenon DEF BeforeAead, TypeOK
    <3>6. Accepts(replay[m][se], c)
      BY Zenon DEF BeforeAead
    <3>. HIDE DEF so, se
    <3>7. ASSUME ~Accepts(replay[m][so], o.frame.counter)
          PROVE  ~Accepts(replay'[m][so], o.frame.counter)
      <4>1. CASE so = se
        <5>1. replay'[m][so] = Update(replay[m][so], c)
          BY <3>3, <3>4, <3>5, <4>1, Zenon
        <5>2. replay[m][so] \in Window
          BY <3>3, <3>4, Zenon
        <5>. QED BY <5>1, <5>2, <3>2, <3>6, <3>7, <4>1, UpdateKeepsRefusing, Zenon
      <4>2. CASE so # se
        BY <3>3, <3>4, <3>5, <3>7, <4>2, Zenon
      <4>. QED BY <4>1, <4>2, Zenon
    <3>. QED BY <2>1, <2>2, <3>7, Zenon DEF OpeningOK, so
  <2>3. CASE n # m
    <3>1. replay'[n] = replay[n]
      BY <1>2, <2>3, Zenon DEF BeforeAead, TypeOK
    <3>. QED BY <2>1, <3>1, Zenon
  <2>. QED BY <2>2, <2>3, Zenon
<1>. QED
  BY <1>1, <1>2, <1>3, <1>4, Zenon DEF MemberOK

(* advance_epoch keeps what holds of the member that installs an epoch. *)
LEMMA AdvanceKeeps ==
    ASSUME IndInv, NEW m \in Members, NEW e \in Epoch,
           Len(epochs[m]) > 0 => e > epochs[m][1] /\ Apart(e, epochs[m][1], 1),
           AdvanceEpoch(m, e)
    PROVE  MemberOK(m)'
<1>. DEFINE full == <<e>> \o epochs[m]
            left == SubSeq(full, 1, CacheSize)
            old == full[Len(full)]
            n == Len(full)
<1>1. /\ epochs[m] \in Seq(Epoch) /\ CacheOK(epochs[m])
      /\ KeysOK(epochs[m], keys[m])
      /\ \A o \in opened[m] : OpeningOK(epochs[m], replay[m], o)
      /\ \A o \in opened[m] : o.as \in Epoch /\ o.frame.sender \in Members
      /\ m \in DOMAIN epochs /\ m \in DOMAIN keys /\ m \in DOMAIN replay
  BY DEF IndInv, TypeOK, MemberOK, Opening, Frame
<1>2. /\ full \in Seq(Epoch) /\ n = Len(epochs[m]) + 1
      /\ full[1] = e
      /\ \A i \in 1..Len(epochs[m]) : full[i + 1] = epochs[m][i]
      /\ n > CacheSize =>
            /\ left \in Seq(Epoch) /\ Len(left) = CacheSize
            /\ \A i \in 1..CacheSize : left[i] = full[i]
  BY <1>1, CacheAfterAdvance, Zenon
<1>3. /\ \A i, j \in 1..n : i < j =>
            full[i] > full[j] /\ Apart(full[i], full[j], j - i)
      /\ n <= CacheSize => CacheOK(full)
      /\ n > CacheSize => CacheOK(left)
  BY <1>1, CacheOKAfterAdvance, Zenon
<1>4. opened' = opened
  BY Zenon DEF AdvanceEpoch
<1>5. /\ n <= CacheSize => /\ epochs' = [epochs EXCEPT ![m] = full]
                           /\ keys' = keys /\ replay' = replay
      /\ ~(n <= CacheSize) =>
            /\ epochs' = [epochs EXCEPT ![m] = left]
            /\ replay' = [replay EXCEPT ![m] = DropWindows(replay[m], old)]
            /\ keys' = [keys EXCEPT ![m] = DropKeys(keys[m], old, left)]
  BY Zenon DEF AdvanceEpoch
<1>6. n \in Nat /\ n >= 1 /\ e \in Nat
  BY <1>1, <1>2, NatFacts DEF Epoch
<1>7. \A j \in 1..n : full[j] \in Epoch
  BY <1>2
<1>. HIDE DEF full, left, old, n
(* An opened frame is older than e; if its epoch is in the new cache it was
   in the old one, and its window refused it. *)
<1>8. ASSUME NEW o \in opened[m], NEW j \in 1..n, full[j] = o.as
      PROVE  ~Accepts(replay[m][<<o.frame.sender, o.as>>], o.frame.counter)
  <2>1. /\ Len(epochs[m]) > 0 /\ o.as <= epochs[m][1]
        /\ (\E i \in 1..Len(epochs[m]) : epochs[m][i] = o.as) =>
              ~Accepts(replay[m][<<o.frame.sender, o.as>>], o.frame.counter)
    BY <1>1, Zenon DEF OpeningOK
  <2>2. epochs[m][1] \in Nat /\ o.as \in Nat
    BY <1>1, <2>1, NatFacts, SMTT(60) DEF Epoch
  <2>3. j # 1
    BY <1>2, <1>6, <1>8, <2>1, <2>2
  <2>4. j - 1 \in 1..Len(epochs[m])
    BY <1>2, <1>6, <2>3
  <2>5. full[(j - 1) + 1] = epochs[m][j - 1]
    BY <1>2, <2>4, Zenon
  <2>6. epochs[m][j - 1] = o.as
    BY <2>4, <2>5, <1>8
  <2>. QED BY <2>1, <2>4, <2>6, Zenon
<1>9. \A o \in opened[m] : o.as <= e
  <2>1. SUFFICES ASSUME NEW o \in opened[m] PROVE o.as <= e
    BY Zenon
  <2>2. Len(epochs[m]) > 0 /\ o.as <= epochs[m][1]
    BY <1>1, Zenon DEF OpeningOK
  <2>3. epochs[m][1] \in Nat /\ o.as \in Nat
    BY <1>1, <2>2, NatFacts DEF Epoch
  <2>. QED BY <2>2, <2>3, <1>6
<1>10. CASE n <= CacheSize
  <2>1. epochs'[m] = full /\ keys'[m] = keys[m] /\ replay'[m] = replay[m]
    BY <1>1, <1>5, <1>10, Zenon
  <2>2. KeysOK(full, keys[m])
    <3>1. SUFFICES ASSUME NEW kid \in Kid, keys[m][kid] # NoKey
                   PROVE  /\ keys[m][kid] % EpochMod = kid[2]
                          /\ \E j \in 1..n : full[j] = keys[m][kid]
      BY Zenon DEF KeysOK, n
    <3>2. PICK i \in 1..Len(epochs[m]) : epochs[m][i] = keys[m][kid]
      BY <1>1, <3>1, Zenon DEF KeysOK
    <3>3. i + 1 \in 1..n /\ full[i + 1] = keys[m][kid]
      BY <1>1, <1>2, <3>2
    <3>4. keys[m][kid] % EpochMod = kid[2]
      BY <1>1, <3>1, Zenon DEF KeysOK
    <3>. QED BY <3>3, <3>4, Zenon
  <2>3. ASSUME NEW o \in opened[m]
        PROVE  OpeningOK(full, replay[m], o)
    <3>1. o.as = o.frame.epoch /\ o.frame.key = o.frame.epoch
      BY <1>1, Zenon DEF OpeningOK
    <3>2. Len(full) > 0 /\ o.as <= full[1]
      BY <1>2, <1>6, <1>9 DEF n
    <3>. QED BY <3>1, <3>2, <1>8, Zenon DEF OpeningOK, n
  <2>. QED BY <1>3, <1>4, <1>10, <2>1, <2>2, <2>3, Zenon DEF MemberOK
<1>11. CASE n > CacheSize
  <2>1. /\ epochs'[m] = left
        /\ keys'[m] = DropKeys(keys[m], old, left)
        /\ replay'[m] = DropWindows(replay[m], old)
    BY <1>1, <1>5, <1>6, <1>11, NatFacts
  <2>2. n = CacheSize + 1 /\ old = full[n] /\ old \in Epoch
    BY <1>1, <1>2, <1>6, <1>7, <1>11, NatFacts DEF CacheOK, n, old
  <2>3. ASSUME NEW j \in 1..CacheSize
        PROVE  /\ j \in 1..n /\ left[j] = full[j] /\ left[j] \in Epoch
               /\ left[j] # old /\ left[j] % EpochMod # old % EpochMod
    <3>1. j \in 1..n /\ n \in 1..n /\ j < n
      BY <1>6, <2>2, NatFacts
    <3>2. /\ left[j] = full[j] /\ full[j] > full[n] /\ full[j] \in Epoch
          /\ Apart(full[j], full[n], n - j)
      BY <1>2, <1>3, <1>7, <1>11, <3>1, Zenon
    <3>3. n - j \in Nat /\ n - j <= CacheSize
      BY <1>6, <2>2, <3>1, NatFacts
    <3>4. full[j] % EpochMod # full[n] % EpochMod
      BY <2>2, <3>2, <3>3, ApartDiffer, Zenon
    <3>. QED BY <3>1, <3>2, <3>4, <2>2, NatFacts, Zenon DEF Epoch
  <2>4. Len(left) = CacheSize
    BY <1>2, <1>11, Zenon
  <2>5. DropKeys(keys[m], old, left) =
          [kid \in Kid |-> IF kid[2] = old % EpochMod THEN NoKey ELSE keys[m][kid]]
    BY <2>3, <2>4, Zenon DEF DropKeys
  <2>6. KeysOK(left, keys'[m])
    <3>1. SUFFICES ASSUME NEW kid \in Kid, keys'[m][kid] # NoKey
                   PROVE  /\ keys'[m][kid] % EpochMod = kid[2]
                          /\ \E j \in 1..Len(left) : left[j] = keys'[m][kid]
      BY Zenon DEF KeysOK
    <3>2. keys'[m][kid] = keys[m][kid] /\ kid[2] # old % EpochMod
      BY <2>1, <2>5, <3>1, Zenon
    <3>3. keys[m][kid] % EpochMod = kid[2]
      BY <1>1, <3>1, <3>2, Zenon DEF KeysOK
    <3>4. PICK i \in 1..Len(epochs[m]) : epochs[m][i] = keys[m][kid]
      BY <1>1, <3>1, <3>2, Zenon DEF KeysOK
    <3>5. i + 1 \in 1..n /\ full[i + 1] = keys[m][kid]
      BY <1>1, <1>2, <3>4
    <3>6. i + 1 # n
      BY <2>2, <3>2, <3>3, <3>5, Zenon
    <3>7. i + 1 \in 1..CacheSize
      BY <2>2, <3>5, <3>6, <1>6, NatFacts
    <3>. QED BY <2>3, <2>4, <3>2, <3>3, <3>5, <3>7, Zenon
  <2>7. ASSUME NEW o \in opened[m]
        PROVE  OpeningOK(left, replay'[m], o)
    <3>1. o.as = o.frame.epoch /\ o.frame.key = o.frame.epoch
      BY <1>1, Zenon DEF OpeningOK
    <3>2. Len(left) > 0 /\ o.as <= left[1]
      <4>1. 1 \in 1..CacheSize
        BY NatFacts
      <4>. QED BY <4>1, <1>2, <1>9, <2>3, <2>4, NatFacts, Zenon
    <3>3. ASSUME NEW j \in 1..Len(left), left[j] = o.as
          PROVE  ~Accepts(replay'[m][<<o.frame.sender, o.as>>], o.frame.counter)
      <4>1. j \in 1..n /\ full[j] = o.as /\ o.as # old
        BY <2>3, <2>4, <3>3, Zenon
      <4>2. <<o.frame.sender, o.as>> \in Members \X Epoch
        BY <1>1, Zenon
      <4>3. replay'[m][<<o.frame.sender, o.as>>] = replay[m][<<o.frame.sender, o.as>>]
        BY <2>1, <4>1, <4>2, Zenon DEF DropWindows
      <4>. QED BY <1>8, <4>1, <4>3, Zenon
    <3>. QED BY <3>1, <3>2, <3>3, Zenon DEF OpeningOK
  <2>. QED BY <1>3, <1>4, <1>11, <2>1, <2>6, <2>7, Zenon DEF MemberOK
<1>. QED
  BY <1>6, <1>10, <1>11, NatFacts

(* The steps of one member leave the others as they are. *)
LEMMA OthersKeep ==
    ASSUME NEW n \in Members, MemberOK(n),
           epochs'[n] = epochs[n], keys'[n] = keys[n],
           replay'[n] = replay[n], opened'[n] = opened[n]
    PROVE  MemberOK(n)'
BY Zenon DEF MemberOK

(* Every step keeps the inductive invariant. *)
LEMMA IndStep ==
    ASSUME KidsTellApart, IndInv, [Next]_vars
    PROVE  IndInv'
<1>1. TypeOK /\ SentOK /\ \A n \in Members : MemberOK(n)
  BY Zenon DEF IndInv
<1>2. TypeOK'
  BY <1>1, TypeStep, Zenon
<1>3. ASSUME NEW m \in Members, NEW e \in Epoch, MayInstall(m, e), AdvanceEpoch(m, e)
      PROVE  IndInv'
  <2>1. Len(epochs[m]) > 0 => e > epochs[m][1] /\ Apart(e, epochs[m][1], 1)
    <3>1. SUFFICES ASSUME Len(epochs[m]) > 0
                   PROVE  e > epochs[m][1] /\ Apart(e, epochs[m][1], 1)
      BY Zenon
    <3>2. epochs[m] \in Seq(Epoch) /\ epochs[m][1] \in Nat /\ epochs[m] # <<>>
      BY <1>1, <3>1, NatFacts DEF TypeOK, Epoch
    <3>3. PICK j \in Jumps : e = epochs[m][1] + j
      BY <1>3, <3>2, Zenon DEF MayInstall
    <3>4. j \in Nat /\ j > 0 /\ (MaxEpoch < EpochMod \/ j * CacheSize < EpochMod)
      BY SframeAssumption, Zenon DEF KidsTellApart
    <3>5. e > epochs[m][1] /\ e - epochs[m][1] = j
      BY <3>2, <3>3, <3>4
    <3>6. 1 * EpochMod = EpochMod
      BY NatFacts
    <3>. QED BY <3>4, <3>5, <3>6, Zenon DEF Apart
  <2>2. MemberOK(m)'
    BY <1>3, <2>1, AdvanceKeeps, Zenon
  <2>3. ASSUME NEW n \in Members, n # m
        PROVE  MemberOK(n)'
    <3>1. /\ epochs'[n] = epochs[n] /\ keys'[n] = keys[n]
          /\ replay'[n] = replay[n] /\ opened'[n] = opened[n]
      BY <1>1, <1>3, <2>3, Zenon DEF AdvanceEpoch, TypeOK
    <3>. QED BY <1>1, <3>1, OthersKeep, Zenon
  <2>4. SentOK'
    BY <1>1, <1>3, Zenon DEF SentOK, AdvanceEpoch
  <2>. QED BY <1>2, <2>2, <2>3, <2>4, Zenon DEF IndInv
<1>4. ASSUME NEW m \in Senders, NEW c \in Counter, EncryptFrame(m, c)
      PROVE  IndInv'
  <2>. DEFINE e == epochs[m][1]
              kid == ComputeKid(m, e)
  <2>1. m \in Members
    BY SframeAssumption, Zenon
  <2>2. PICK i \in 1..Len(epochs[m]) :
          /\ Resolves(epochs[m], kid[2], i)
          /\ GetOrDerive(m, kid, epochs[m][i])
          /\ sent' = sent \cup {[sender |-> m, epoch |-> e, counter |-> c,
                                 key |-> KeyFor(m, kid, epochs[m][i])]}
    BY <1>4, Zenon DEF EncryptFrame
  <2>3. e \in Epoch
    BY <1>1, <2>1, <2>2 DEF TypeOK
  <2>4. kid \in Kid /\ KeyFor(m, kid, epochs[m][i]) = e
    <3>1. kid \in Kid /\ e % EpochMod = kid[2] /\ 1 \in 1..Len(epochs[m])
      BY <2>1, <2>2, <2>3, KidType
    <3>. HIDE DEF kid
    <3>2. /\ KeyFor(m, kid, epochs[m][i]) = epochs[m][i]
          /\ epochs[m][1] % EpochMod = kid[2] => 1 = i
      BY <1>1, <2>1, <2>2, <3>1, ResolvedKey, Zenon DEF MemberOK
    <3>. QED BY <3>1, <3>2, Zenon
  <2>5. /\ epochs' = epochs /\ replay' = replay /\ opened' = opened
    BY <1>4, Zenon DEF EncryptFrame
  <2>. HIDE DEF kid, e
  <2>6. /\ KeysOK(epochs[m], keys'[m])
        /\ \A n \in Members \ {m} : keys'[n] = keys[n]
    BY <1>1, <2>1, <2>2, <2>4, GetOrDeriveKeysOK, Zenon DEF MemberOK
  <2>7. \A n \in Members : MemberOK(n)'
    BY <1>1, <2>1, <2>5, <2>6, Zenon DEF MemberOK
  <2>8. SentOK'
    BY <1>1, <2>2, <2>4 DEF SentOK
  <2>. QED BY <1>2, <2>7, <2>8, Zenon DEF IndInv
<1>5. ASSUME NEW m \in Members, NEW f \in sent, DecryptFrame(m, f)
      PROVE  IndInv'
  <2>. DEFINE kid == ComputeKid(f.sender, f.epoch)
              se(i) == <<f.sender, epochs[m][i]>>
  <2>1. f.sender \in Members /\ f.epoch \in Epoch /\ f.counter \in Counter
    BY <1>1, Zenon DEF TypeOK, Frame
  <2>2. kid \in Kid /\ kid[1] = f.sender
    BY <2>1, KidType, Zenon
  <2>3. PICK i \in 1..Len(epochs[m]) :
          /\ BeforeAead(m, kid, f.counter, i)
          /\ \/ opened' = opened
             \/ /\ opened' = [opened EXCEPT ![m] = @ \cup {[frame |-> f, as |-> epochs[m][i]]}]
                /\ KeyFor(m, kid, epochs[m][i]) = f.key
    BY <1>5, Zenon DEF DecryptFrame
  <2>4. KeyFor(m, kid, epochs[m][i]) = epochs[m][i] /\ f.key = f.epoch
    BY <1>1, <2>2, <2>3, ResolvedKey, Zenon DEF MemberOK, BeforeAead, SentOK
  <2>. HIDE DEF kid
  <2>5. \A n \in Members :
          /\ CacheOK(epochs'[n])
          /\ KeysOK(epochs'[n], keys'[n])
          /\ \A o \in opened[n] : OpeningOK(epochs'[n], replay'[n], o)
    BY <2>1, <2>2, <2>3, BeforeAeadKeeps, Zenon
  <2>6. ASSUME epochs[m][i] = f.epoch
        PROVE  OpeningOK(epochs'[m], replay'[m], [frame |-> f, as |-> epochs[m][i]])
    <3>1. epochs' = epochs /\ Accepts(replay[m][se(i)], f.counter)
      BY <2>2, <2>3, Zenon DEF BeforeAead
    <3>2. f.key = f.epoch
      BY <1>1, Zenon DEF SentOK
    <3>3. replay[m] \in [Members \X Epoch -> Window] /\ se(i) \in Members \X Epoch
      BY <1>1, <2>1, <2>6, Zenon DEF TypeOK
    <3>4. replay'[m][se(i)] = Update(replay[m][se(i)], f.counter)
      BY <1>1, <2>2, <2>3, <3>3, Zenon DEF BeforeAead, TypeOK
    <3>5. ~Accepts(replay'[m][se(i)], f.counter)
      BY <2>1, <3>1, <3>3, <3>4, UpdateRefusesSame, Zenon
    <3>6. Len(epochs[m]) > 0 /\ epochs[m][i] <= epochs[m][1]
      <4>1. epochs[m] \in Seq(Epoch) /\ CacheOK(epochs[m])
        BY <1>1, Zenon DEF TypeOK, MemberOK
      <4>2. 1 \in 1..Len(epochs[m]) /\ epochs[m][1] \in Nat /\ epochs[m][i] \in Nat
        BY <4>1, NatFacts, SMTT(60) DEF Epoch
      <4>3. CASE i = 1
        BY <4>2, <4>3
      <4>4. CASE i > 1
        BY <4>1, <4>2, <4>4 DEF CacheOK
      <4>. QED BY <4>2, <4>3, <4>4
    <3>. QED BY <2>6, <3>1, <3>2, <3>5, <3>6, Zenon DEF OpeningOK
  <2>7. \A n \in Members : MemberOK(n)'
    BY <1>1, <2>3, <2>4, <2>5, <2>6, ZenonT(60) DEF MemberOK, TypeOK
  <2>8. SentOK'
    BY <1>1, <2>3, Zenon DEF SentOK, BeforeAead
  <2>. QED BY <1>2, <2>7, <2>8, Zenon DEF IndInv
<1>6. ASSUME NEW m \in Members, NEW kid \in Kid, NEW c \in Counter,
             DecryptGarbled(m, kid, c)
      PROVE  IndInv'
  <2>1. PICK i \in 1..Len(epochs[m]) : BeforeAead(m, kid, c, i)
    BY <1>6, Zenon DEF DecryptGarbled
  <2>2. \A n \in Members :
          /\ CacheOK(epochs'[n])
          /\ KeysOK(epochs'[n], keys'[n])
          /\ \A o \in opened[n] : OpeningOK(epochs'[n], replay'[n], o)
    BY <2>1, BeforeAeadKeeps, Zenon
  <2>3. opened' = opened
    BY <1>6, Zenon DEF DecryptGarbled
  <2>4. \A n \in Members : MemberOK(n)'
    BY <2>2, <2>3, Zenon DEF MemberOK
  <2>5. SentOK'
    BY <1>1, <2>1, Zenon DEF SentOK, BeforeAead
  <2>. QED BY <1>2, <2>4, <2>5, Zenon DEF IndInv
<1>7. CASE UNCHANGED vars
  BY <1>1, <1>2, <1>7, Zenon DEF vars, IndInv, SentOK, MemberOK
<1>. QED
  BY <1>3, <1>4, <1>5, <1>6, <1>7, Zenon DEF Next

(* The inductive invariant holds at the start. *)
LEMMA IndInit == Init => IndInv
<1>1. SUFFICES ASSUME Init PROVE IndInv
  BY Zenon
<1>2. TypeOK
  BY <1>1, TypeInit, Zenon
<1>3. SentOK
  BY <1>1, Zenon DEF Init, SentOK
<1>4. ASSUME NEW m \in Members PROVE MemberOK(m)
  BY <1>1, NatFacts DEF Init, MemberOK, CacheOK, KeysOK
<1>. QED
  BY <1>2, <1>3, <1>4, Zenon DEF IndInv

(* Every step of the contexts keeps the inductive invariant: cached epochs
   are apart, cached keys are of them, and windows refuse what was opened. *)
THEOREM Inductive ==
    ASSUME KidsTellApart
    PROVE  Spec => []IndInv
<1>. QED
  BY IndInit, IndStep, PTL DEF Spec

(* decrypt_frame never returns a frame twice, whatever the network repeats,
   reorders or garbles and whenever epochs are installed and evicted. *)
THEOREM NoReplayHolds ==
    ASSUME KidsTellApart
    PROVE  Spec => []NoReplay
<1>1. IndInv => NoReplay
  <2>1. SUFFICES ASSUME IndInv, NEW m \in Members, NEW o \in opened[m],
                        Opens(m, o.frame)
                 PROVE  FALSE
    BY Zenon DEF NoReplay
  <2>2. o.frame.sender \in Members /\ o.frame.epoch \in Epoch
    BY <2>1 DEF IndInv, TypeOK, Opening, Frame
  <2>3. PICK i \in 1..Len(epochs[m]) :
          /\ Resolves(epochs[m], ComputeKid(o.frame.sender, o.frame.epoch)[2], i)
          /\ Accepts(replay[m][<<o.frame.sender, epochs[m][i]>>], o.frame.counter)
          /\ KeyFor(m, ComputeKid(o.frame.sender, o.frame.epoch), epochs[m][i]) = o.frame.key
    BY <2>1, Zenon DEF Opens
  <2>4. epochs[m][i] = o.frame.key
    BY <2>1, <2>2, <2>3, KidType, ResolvedKey DEF IndInv, MemberOK
  <2>5. OpeningOK(epochs[m], replay[m], o)
    BY <2>1, Zenon DEF IndInv, MemberOK
  <2>. QED BY <2>3, <2>4, <2>5, Zenon DEF OpeningOK
<1>. QED
  BY <1>1, Inductive, PTL

(* The epoch reported with an opened frame is the sender's, and frames are
   sealed with the key of the epoch they are sent in. *)
THEOREM EpochsAgreeHolds ==
    ASSUME KidsTellApart
    PROVE  Spec => []EpochsAgree
<1>1. IndInv => EpochsAgree
  BY Zenon DEF IndInv, EpochsAgree, MemberOK, OpeningOK, SentOK
<1>. QED
  BY <1>1, Inductive, PTL

(* advance_epoch leaves no per-KID key of an epoch it evicted. *)
THEOREM KeysDieWithEpochHolds ==
    ASSUME KidsTellApart
    PROVE  Spec => []KeysDieWithEpoch
<1>1. IndInv => KeysDieWithEpoch
  BY Zenon DEF IndInv, KeysDieWithEpoch, MemberOK, KeysOK
<1>. QED
  BY <1>1, Inductive, PTL
-----------------------------------------------------------------------------
(* The other half of the replay window: what it refuses was opened. *)

(* A frame of sender s and epoch e with counter c is among the openings os. *)
Seen(os, s, e, c) ==
    \E o \in os : o.frame.sender = s /\ o.frame.epoch = e /\ o.frame.counter = c

(* The highest counter and every bit of a window stand for opened frames. *)
WindowFrom(w, os, s, e) ==
    w.initialized =>
        /\ Seen(os, s, e, w.highest)
        /\ \A d \in w.bits : d <= w.highest /\ Seen(os, s, e, w.highest - d)

WindowsInv ==
    ~failed => \A m, s \in Members : \A e \in Epoch :
                  WindowFrom(replay[m][<<s, e>>], opened[m], s, e)

(* Moving a window for a frame that is then opened. *)
LEMMA UpdateFrom ==
    ASSUME NEW w \in Window, NEW c \in Counter, NEW os, NEW more, os \subseteq more,
           NEW s, NEW e, WindowFrom(w, os, s, e), Seen(more, s, e, c)
    PROVE  WindowFrom(Update(w, c), more, s, e)
<1>1. /\ w.highest \in Nat /\ c \in Nat /\ w.initialized \in BOOLEAN
      /\ \A d \in w.bits : d \in Nat
  BY NatFacts DEF Window, Counter
<1>2. \A k : Seen(os, s, e, k) => Seen(more, s, e, k)
  BY Zenon DEF Seen
<1>3. CASE w.initialized /\ c <= w.highest
  <2>1. /\ Update(w, c).highest = w.highest
        /\ Update(w, c).bits = w.bits \cup {w.highest - c}
    BY <1>3, Zenon DEF Update
  <2>2. w.highest - (w.highest - c) = c /\ w.highest - c <= w.highest
    BY <1>1, <1>3
  <2>3. /\ Seen(more, s, e, w.highest)
        /\ \A d \in w.bits : d <= w.highest /\ Seen(more, s, e, w.highest - d)
    BY <1>2, <1>3, Zenon DEF WindowFrom
  <2>. QED BY <2>1, <2>2, <2>3, Zenon DEF WindowFrom
<1>4. CASE w.initialized /\ ~(c <= w.highest)
  <2>. DEFINE shift == c - w.highest
  <2>1. /\ Update(w, c).highest = c
        /\ Update(w, c).bits = {0} \cup ShiftBits(w.bits, shift)
    BY <1>4, Zenon DEF Update
  <2>2. shift \in Nat /\ w.highest + shift = c
    BY <1>1, <1>4
  <2>. HIDE DEF shift
  <2>3. ASSUME NEW d \in ShiftBits(w.bits, shift)
        PROVE  d <= c /\ Seen(more, s, e, c - d)
    <3>1. d \in Nat /\ d >= shift /\ d - shift \in w.bits
      BY NatFacts DEF ShiftBits
    <3>2. d - shift <= w.highest /\ Seen(more, s, e, w.highest - (d - shift))
      BY <1>2, <1>4, <3>1, Zenon DEF WindowFrom
    <3>3. w.highest - (d - shift) = c - d /\ d <= c
      BY <1>1, <2>2, <3>1, <3>2
    <3>. QED BY <3>2, <3>3, Zenon
  <2>4. c - 0 = c /\ 0 <= c
    BY <1>1
  <2>. QED BY <2>1, <2>3, <2>4, Zenon DEF WindowFrom
<1>5. CASE ~w.initialized
  <2>1. Update(w, c).highest = c /\ Update(w, c).bits = {0}
    BY <1>5, Zenon DEF Update
  <2>2. c - 0 = c /\ 0 <= c
    BY <1>1
  <2>. QED BY <2>1, <2>2, Zenon DEF WindowFrom
<1>. QED
  BY <1>1, <1>3, <1>4, <1>5, Zenon

(* decrypt_frame for a frame that opens is the only step that moves a window
   while nothing has failed. *)
LEMMA StepWindowsInv ==
    ASSUME KidsTellApart, IndInv, WindowsInv, [Next]_vars
    PROVE  WindowsInv'
<1>1. TypeOK /\ SentOK /\ \A n \in Members : MemberOK(n)
  BY Zenon DEF IndInv
<1>2. SUFFICES ASSUME ~failed', NEW n \in Members, NEW s \in Members, NEW e \in Epoch
               PROVE  WindowFrom(replay'[n][<<s, e>>], opened'[n], s, e)
  BY Zenon DEF WindowsInv
<1>3. <<s, e>> \in Members \X Epoch /\ replay[n] \in [Members \X Epoch -> Window]
  BY <1>1, Zenon DEF TypeOK
<1>4. ~failed => WindowFrom(replay[n][<<s, e>>], opened[n], s, e)
  BY Zenon DEF WindowsInv
<1>5. ASSUME NEW m \in Members, NEW d \in Epoch, AdvanceEpoch(m, d)
      PROVE  WindowFrom(replay'[n][<<s, e>>], opened'[n], s, e)
  <2>1. failed' = failed /\ opened' = opened
    BY <1>5, Zenon DEF AdvanceEpoch
  <2>2. \/ replay' = replay
        \/ \E old : replay' = [replay EXCEPT ![m] = DropWindows(replay[m], old)]
    BY <1>5, Zenon DEF AdvanceEpoch
  <2>3. CASE replay' = replay
    BY <1>2, <1>4, <2>1, <2>3, Zenon
  <2>4. CASE \E old : replay' = [replay EXCEPT ![m] = DropWindows(replay[m], old)]
    <3>1. PICK old : replay' = [replay EXCEPT ![m] = DropWindows(replay[m], old)]
      BY <2>4, Zenon
    <3>2. CASE n # m
      BY <1>1, <1>2, <1>4, <2>1, <3>1, <3>2, Zenon DEF TypeOK
    <3>3. CASE n = m
      <4>1. replay'[n] = DropWindows(replay[n], old)
        BY <1>1, <3>1, <3>3, Zenon DEF TypeOK
      <4>2. replay'[n][<<s, e>>] = IF e = old THEN NewWindow ELSE replay[n][<<s, e>>]
        BY <1>3, <4>1, Zenon DEF DropWindows
      <4>3. WindowFrom(NewWindow, opened[n], s, e)
        BY Zenon DEF WindowFrom, NewWindow
      <4>. QED BY <1>2, <1>4, <2>1, <4>2, <4>3, Zenon
    <3>. QED BY <3>2, <3>3, Zenon
  <2>. QED BY <2>2, <2>3, <2>4, Zenon
<1>6. ASSUME NEW m \in Senders, NEW c \in Counter, EncryptFrame(m, c)
      PROVE  WindowFrom(replay'[n][<<s, e>>], opened'[n], s, e)
  BY <1>2, <1>4, <1>6, Zenon DEF EncryptFrame
<1>7. ASSUME NEW m \in Members, NEW f \in sent, DecryptFrame(m, f)
      PROVE  WindowFrom(replay'[n][<<s, e>>], opened'[n], s, e)
  <2>. DEFINE kid == ComputeKid(f.sender, f.epoch)
              se(i) == <<f.sender, epochs[m][i]>>
  <2>1. /\ f.sender \in Members /\ f.epoch \in Epoch /\ f.counter \in Counter
        /\ f.key = f.epoch
    BY <1>1, Zenon DEF TypeOK, Frame, SentOK
  <2>2. kid \in Kid /\ kid[1] = f.sender
    BY <2>1, KidType, Zenon
  <2>3. PICK i \in 1..Len(epochs[m]) :
          /\ BeforeAead(m, kid, f.counter, i)
          /\ opened' = [opened EXCEPT ![m] = @ \cup {[frame |-> f, as |-> epochs[m][i]]}]
          /\ KeyFor(m, kid, epochs[m][i]) = f.key
          /\ failed' = failed
    BY <1>2, <1>7, Zenon DEF DecryptFrame
  <2>4. epochs[m][i] = f.epoch
    BY <1>1, <2>1, <2>2, <2>3, ResolvedKey DEF MemberOK, BeforeAead
  <2>. HIDE DEF kid
  <2>5. replay' = [replay EXCEPT ![m][se(i)] = Update(replay[m][se(i)], f.counter)]
    BY <2>2, <2>3, Zenon DEF BeforeAead
  <2>6. opened[n] \subseteq opened'[n]
    BY <1>1, <2>3, Zenon DEF TypeOK
  <2>7. CASE n = m /\ <<s, e>> = se(i)
    <3>1. replay'[n][<<s, e>>] = Update(replay[n][<<s, e>>], f.counter)
      BY <1>1, <1>3, <2>5, <2>7, Zenon DEF TypeOK
    <3>2. [frame |-> f, as |-> epochs[m][i]] \in opened'[n]
      BY <1>1, <2>3, <2>7, Zenon DEF TypeOK
    <3>3. s = f.sender /\ e = f.epoch
      BY <2>4, <2>7, Zenon
    <3>4. Seen(opened'[n], s, e, f.counter)
      BY <3>2, <3>3, Zenon DEF Seen
    <3>5. replay[n][<<s, e>>] \in Window
      BY <1>3, Zenon
    <3>. QED BY <1>2, <1>4, <2>1, <2>3, <2>6, <3>1, <3>4, <3>5, UpdateFrom, Zenon
  <2>8. CASE ~(n = m /\ <<s, e>> = se(i))
    <3>1. replay'[n][<<s, e>>] = replay[n][<<s, e>>]
      BY <1>1, <1>3, <2>5, <2>8, Zenon DEF TypeOK
    <3>2. WindowFrom(replay[n][<<s, e>>], opened[n], s, e)
      BY <1>2, <1>4, <2>3, Zenon
    <3>. QED BY <2>6, <3>1, <3>2, Zenon DEF WindowFrom, Seen
  <2>. QED BY <2>7, <2>8, Zenon
<1>8. ASSUME NEW m \in Members, NEW kid \in Kid, NEW c \in Counter,
             DecryptGarbled(m, kid, c)
      PROVE  WindowFrom(replay'[n][<<s, e>>], opened'[n], s, e)
  BY <1>2, <1>8, Zenon DEF DecryptGarbled
<1>9. CASE UNCHANGED vars
  BY <1>2, <1>4, <1>9, Zenon DEF vars
<1>. QED
  BY <1>5, <1>6, <1>7, <1>8, <1>9, Zenon DEF Next

(* At the start no window has seen a frame. *)
LEMMA InitWindowsInv == Init => WindowsInv
BY DEF Init, WindowsInv, WindowFrom, NewWindow

(* The replay window refuses no frame that it should accept: while nothing
   that passed a window failed authentication, decrypt_frame opens every
   frame of a cached epoch that was not opened yet and is not too late. *)
THEOREM FreshFramesOpenHolds ==
    ASSUME KidsTellApart
    PROVE  Spec => []FreshFramesOpen
<1>1. ASSUME IndInv, WindowsInv
      PROVE  FreshFramesOpen
  <2>1. SUFFICES ASSUME ~failed, NEW m \in Members, NEW f \in sent,
                        NEW i \in 1..Len(epochs[m]), epochs[m][i] = f.epoch,
                        [frame |-> f, as |-> f.epoch] \notin opened[m],
                        \A o \in opened[m] :
                           o.frame.sender = f.sender /\ o.frame.epoch = f.epoch =>
                              o.frame.counter < f.counter + Width
                 PROVE  Opens(m, f)
    BY Zenon DEF FreshFramesOpen
  <2>. DEFINE kid == ComputeKid(f.sender, f.epoch)
              w == replay[m][<<f.sender, f.epoch>>]
  <2>2. /\ f \in Frame /\ f.key = f.epoch /\ f.counter \in Nat
        /\ f.sender \in Members /\ f.epoch \in Epoch
    BY <1>1, NatFacts DEF IndInv, TypeOK, SentOK, Frame, Counter
  <2>3. kid \in Kid /\ kid[1] = f.sender /\ kid[2] = f.epoch % EpochMod
    BY <2>2, KidType, Zenon DEF ComputeKid
  <2>4. TypeOK /\ CacheOK(epochs[m]) /\ KeysOK(epochs[m], keys[m])
    BY <1>1, Zenon DEF IndInv, MemberOK
  <2>. HIDE DEF kid
  <2>5. Resolves(epochs[m], kid[2], i)
    <3>1. epochs[m] \in Seq(Epoch)
      BY <2>4, Zenon DEF TypeOK
    <3>2. ASSUME NEW j \in 1..(i - 1), epochs[m][j] % EpochMod = kid[2]
          PROVE  FALSE
      <4>1. j \in 1..Len(epochs[m]) /\ j # i
        BY <3>1
      <4>2. epochs[m][j] % EpochMod = epochs[m][i] % EpochMod
        BY <2>1, <2>3, <3>2, Zenon
      <4>. QED BY <2>4, <3>1, <4>1, <4>2, CacheDiffer, Zenon
    <3>. QED BY <2>1, <2>3, <3>2, Zenon DEF Resolves
  <2>6. KeyFor(m, kid, epochs[m][i]) = f.key
    BY <2>1, <2>2, <2>3, <2>4, <2>5, ResolvedKey
  <2>7. WindowFrom(w, opened[m], f.sender, f.epoch) /\ w \in Window
    BY <1>1, <2>1, <2>2, <2>4, Zenon DEF WindowsInv, TypeOK
  <2>. HIDE DEF w
  <2>8. ~Seen(opened[m], f.sender, f.epoch, f.counter)
    <3>1. SUFFICES ASSUME NEW o \in opened[m], o.frame.sender = f.sender,
                          o.frame.epoch = f.epoch, o.frame.counter = f.counter
                   PROVE  FALSE
      BY Zenon DEF Seen
    <3>2. o \in Opening /\ o.frame \in Frame
      BY <2>4 DEF TypeOK, Opening
    <3>3. o.as = o.frame.epoch /\ o.frame.key = o.frame.epoch
      BY <1>1, Zenon DEF IndInv, MemberOK, OpeningOK
    <3>4. o.frame = f
      BY <2>2, <3>1, <3>2, <3>3 DEF Frame
    <3>5. o = [frame |-> f, as |-> f.epoch]
      BY <3>2, <3>3, <3>4, Zenon DEF Opening
    <3>. QED BY <2>1, <3>5, Zenon
  <2>9. Accepts(w, f.counter)
    <3>1. SUFFICES ASSUME w.initialized, f.counter <= w.highest
                   PROVE  w.highest - f.counter < Width /\ w.highest - f.counter \notin w.bits
      BY Zenon DEF Accepts
    <3>2. w.highest \in Nat
      BY <2>7, NatFacts DEF Window, Counter
    <3>3. w.highest < f.counter + Width
      BY <2>1, <2>7, <3>1, Zenon DEF WindowFrom, Seen
    <3>4. ASSUME w.highest - f.counter \in w.bits PROVE FALSE
      <4>1. Seen(opened[m], f.sender, f.epoch, w.highest - (w.highest - f.counter))
        BY <2>7, <3>1, <3>4, Zenon DEF WindowFrom
      <4>2. w.highest - (w.highest - f.counter) = f.counter
        BY <2>2, <3>2
      <4>. QED BY <2>8, <4>1, <4>2, Zenon
    <3>. QED BY <2>2, <3>2, <3>3, <3>4, NatFacts
  <2>. QED BY <2>1, <2>3, <2>5, <2>6, <2>9, Zenon DEF Opens, kid, w
<1>. QED
  BY <1>1, InitWindowsInv, StepWindowsInv, IndInit, IndStep, PTL DEF Spec
=============================================================================
