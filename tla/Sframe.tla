------------------------------- MODULE Sframe -------------------------------
(***************************************************************************)
(* SFrame contexts of the members of one group call: the cache of epoch    *)
(* base keys, the per-KID keys derived from them, and the replay windows,  *)
(* over a network that loses, repeats, reorders and garbles frames.        *)
(* (calls/src/sframe/frame.rs, calls/src/sframe/replay.rs)                 *)
(*                                                                         *)
(* A key is represented by the epoch whose base key it was derived from;   *)
(* AEAD opening succeeds iff that is the key the frame was sealed with.    *)
(***************************************************************************)
EXTENDS Naturals, Sequences, FiniteSets

CONSTANTS
    Members,    \* leaves of the group
    Senders,    \* the members that send media
    CacheSize,  \* EPOCH_CACHE_SIZE
    Width,      \* REPLAY_WINDOW_WIDTH
    EpochMod,   \* 2^16: what a KID keeps of an epoch
    Jumps,      \* how far an installed epoch may be ahead of the newest one
    MaxEpoch,   \* bound: MLS epochs of the call
    MaxCounter, \* bound: frame counters
    MaxSent,    \* bound: frames sealed
    MaxGarbled, \* bound: frames that the network garbles
    NoKey       \* no per-KID key cached

ASSUME SframeAssumption ==
    /\ Senders \subseteq Members
    /\ CacheSize \in Nat \ {0} /\ Width \in Nat \ {0} /\ EpochMod \in Nat \ {0}
    /\ Jumps \subseteq Nat
    /\ MaxEpoch \in Nat /\ MaxCounter \in Nat
    /\ MaxSent \in Nat /\ MaxGarbled \in Nat
    /\ NoKey \notin Nat

VARIABLES
    epochs,   \* member -> cached epochs, newest first
    keys,     \* member -> KID -> epoch the cached key was derived from
    replay,   \* member -> <<sender, epoch>> -> replay window
    sent,     \* frames sealed so far
    opened,   \* member -> frames opened, with the epoch reported for each
    garbled,  \* frames delivered garbled so far
    failed    \* some frame that failed authentication has moved a window

vars == <<epochs, keys, replay, sent, opened, garbled, failed>>

Epoch == 0..MaxEpoch
Counter == 0..MaxCounter

(* KIDs as the pair that compute_kid packs and parse_kid unpacks. *)
Kid == Members \X (0..(EpochMod - 1))
ComputeKid(sender, epoch) == <<sender, epoch % EpochMod>>

Frame == [sender : Members, epoch : Epoch, counter : Counter, key : Epoch]
Opening == [frame : Frame, as : Epoch]

-----------------------------------------------------------------------------
(* ReplayWindow: a window that is absent from the map and one that is not
   initialized behave alike.  bits holds the distances d for which bit d of
   the bitmap is set. *)
Window == [initialized : BOOLEAN, highest : Counter, bits : SUBSET (0..(Width - 1))]
NewWindow == [initialized |-> FALSE, highest |-> 0, bits |-> {}]

Accepts(w, c) ==
    w.initialized /\ c <= w.highest =>
        /\ w.highest - c < Width
        /\ w.highest - c \notin w.bits

\* Mutant: shifting by one too few.
ShiftBitsOneShort(bits, shift) ==
    {d \in 0..(Width - 1) : d + 1 >= shift /\ d + 1 - shift \in bits}

ShiftBits(bits, shift) == {d \in 0..(Width - 1) : d >= shift /\ d - shift \in bits}
Update(w, c) ==
    IF w.initialized /\ c <= w.highest
    THEN [initialized |-> TRUE, highest |-> w.highest,
          bits |-> w.bits \cup {w.highest - c}]
    ELSE [initialized |-> TRUE, highest |-> c,
          bits |-> {0} \cup (IF w.initialized
                             THEN ShiftBits(w.bits, c - w.highest) ELSE {})]

-----------------------------------------------------------------------------
(* The first cached epoch, from the newest, with the low bits e16. *)
Resolves(cache, e16, i) ==
    /\ i \in 1..Len(cache)
    /\ cache[i] % EpochMod = e16
    /\ \A j \in 1..(i - 1) : cache[j] % EpochMod # e16

(* get_or_derive: a cached key is used as it is, a missing one is derived
   from the epoch the KID resolves to. *)
KeyFor(m, kid, epoch) == IF keys[m][kid] # NoKey THEN keys[m][kid] ELSE epoch
GetOrDerive(m, kid, epoch) ==
    keys' = [keys EXCEPT ![m][kid] = KeyFor(m, kid, epoch)]

Init ==
    /\ epochs = [m \in Members |-> <<>>]
    /\ keys = [m \in Members |-> [kid \in Kid |-> NoKey]]
    /\ replay = [m \in Members |-> [se \in Members \X Epoch |-> NewWindow]]
    /\ sent = {}
    /\ opened = [m \in Members |-> {}]
    /\ garbled = 0
    /\ failed = FALSE

\* Mutants: eviction forgets every window, or keeps the derived keys.
DropWindowsAll(windows, old) == [se \in Members \X Epoch |-> NewWindow]
DropKeysNever(cached, old, left) == cached

(* Windows and per-KID keys after the epoch `old` left the cache and `left`
   are the epochs that stay.  KIDs that a remaining epoch shares are kept. *)
DropWindows(windows, old) ==
    [se \in Members \X Epoch |-> IF se[2] = old THEN NewWindow ELSE windows[se]]
DropKeys(cached, old, left) ==
    IF \E i \in 1..Len(left) : left[i] % EpochMod = old % EpochMod
    THEN cached
    ELSE [kid \in Kid |-> IF kid[2] = old % EpochMod THEN NoKey ELSE cached[kid]]

(* CallSession::install_sframe_epoch -> SframeContext::advance_epoch. *)
AdvanceEpoch(m, e) ==
    LET cache == <<e>> \o epochs[m]
        left == SubSeq(cache, 1, CacheSize)
        old == cache[Len(cache)]
    IN /\ IF Len(cache) <= CacheSize
          THEN /\ epochs' = [epochs EXCEPT ![m] = cache]
               /\ UNCHANGED <<keys, replay>>
          ELSE /\ epochs' = [epochs EXCEPT ![m] = left]
               /\ replay' = [replay EXCEPT ![m] = DropWindows(@, old)]
               /\ keys' = [keys EXCEPT ![m] = DropKeys(@, old, left)]
       /\ UNCHANGED <<sent, opened, garbled, failed>>

(* The MLS group hands epochs to the call in its own order; Jumps says how
   epochs follow one another. *)
MayInstall(m, e) ==
    epochs[m] # <<>> => \E j \in Jumps : e = epochs[m][1] + j

(* encrypt_frame: seals under the newest epoch.  The caller keeps counters
   of one sender and epoch increasing. *)
EncryptFrame(m, c) ==
    /\ Cardinality(sent) < MaxSent
    /\ epochs[m] # <<>>
    /\ \A f \in sent : f.sender = m /\ f.epoch = epochs[m][1] => f.counter < c
    /\ LET e == epochs[m][1]
           kid == ComputeKid(m, e)
       IN \E i \in 1..Len(epochs[m]) :
            /\ Resolves(epochs[m], kid[2], i)
            /\ GetOrDerive(m, kid, epochs[m][i])
            /\ sent' = sent \cup {[sender |-> m, epoch |-> e, counter |-> c,
                                   key |-> KeyFor(m, kid, epochs[m][i])]}
    /\ UNCHANGED <<epochs, replay, opened, garbled, failed>>

(* decrypt_frame up to AEAD: find the epoch, check and move the replay
   window, get the key.  Refused frames change nothing. *)
BeforeAead(m, kid, c, i) ==
    LET se == <<kid[1], epochs[m][i]>>
    IN /\ Resolves(epochs[m], kid[2], i)
       /\ Accepts(replay[m][se], c)
       /\ replay' = [replay EXCEPT ![m][se] = Update(replay[m][se], c)]
       /\ GetOrDerive(m, kid, epochs[m][i])
       /\ UNCHANGED <<epochs, sent>>

DecryptFrame(m, f) ==
    LET kid == ComputeKid(f.sender, f.epoch)
    IN \E i \in 1..Len(epochs[m]) :
        /\ BeforeAead(m, kid, f.counter, i)
        /\ IF KeyFor(m, kid, epochs[m][i]) = f.key
           THEN /\ opened' = [opened EXCEPT ![m] = @ \cup {[frame |-> f, as |-> epochs[m][i]]}]
                /\ UNCHANGED failed
           ELSE /\ failed' = TRUE
                /\ UNCHANGED opened
        /\ UNCHANGED garbled

(* The same on a frame that the network garbled: AEAD refuses it, after the
   window has moved. *)
DecryptGarbled(m, kid, c) ==
    /\ garbled < MaxGarbled
    /\ \E i \in 1..Len(epochs[m]) : BeforeAead(m, kid, c, i)
    /\ garbled' = garbled + 1
    /\ failed' = TRUE
    /\ UNCHANGED opened

Next ==
    \/ \E m \in Members, e \in Epoch : MayInstall(m, e) /\ AdvanceEpoch(m, e)
    \/ \E m \in Senders, c \in Counter : EncryptFrame(m, c)
    \/ \E m \in Members : \E f \in sent : f.sender # m /\ DecryptFrame(m, f)
    \/ \E m \in Members, kid \in Kid, c \in Counter :
          kid[1] \in Senders \ {m} /\ DecryptGarbled(m, kid, c)

Spec == Init /\ [][Next]_vars

-----------------------------------------------------------------------------
TypeOK ==
    /\ epochs \in [Members -> Seq(Epoch)]
    /\ keys \in [Members -> [Kid -> Epoch \cup {NoKey}]]
    /\ replay \in [Members -> [Members \X Epoch -> Window]]
    /\ sent \subseteq Frame
    /\ opened \in [Members -> SUBSET Opening]
    /\ garbled \in 0..MaxGarbled
    /\ failed \in BOOLEAN

(* decrypt_frame would return the plaintext of f to m now. *)
Opens(m, f) ==
    LET kid == ComputeKid(f.sender, f.epoch)
    IN \E i \in 1..Len(epochs[m]) :
        /\ Resolves(epochs[m], kid[2], i)
        /\ Accepts(replay[m][<<f.sender, epochs[m][i]>>], f.counter)
        /\ KeyFor(m, kid, epochs[m][i]) = f.key

(* A frame that decrypt_frame returned once is never returned again, however
   often and late the network repeats it: eviction of its epoch, windows
   moved by garbled frames and shifts beyond the window included. *)
NoReplay == \A m \in Members : \A o \in opened[m] : ~Opens(m, o.frame)

(* The epoch that decrypt_frame reports, recovered from 16 bits, is the one
   the sender was in, and encrypt_frame seals with the key of that epoch,
   although both sides look keys up by the truncated epoch. *)
EpochsAgree ==
    /\ \A m \in Members : \A o \in opened[m] : o.as = o.frame.epoch
    /\ \A f \in sent : f.key = f.epoch

(* encrypt_frame seals with the key of the sender's current epoch, also when
   its KID was in use for an earlier epoch. *)
SealsUnderCurrentEpoch == \A f \in sent : f.key = f.epoch

(* When advance_epoch evicts an epoch its per-KID keys go with it: no cached
   key was derived from an epoch that is no longer cached. *)
KeysDieWithEpoch ==
    \A m \in Members : \A kid \in Kid :
        keys[m][kid] # NoKey =>
            \E i \in 1..Len(epochs[m]) : epochs[m][i] = keys[m][kid]

(* As long as every frame that passed the window authenticated, the window
   refuses nothing it should accept: a frame not opened yet, of a cached
   epoch and at most Width - 1 behind the newest opened frame of its sender
   and epoch, can be opened. *)
FreshFramesOpen ==
    ~failed =>
        \A m \in Members : \A f \in sent :
            /\ f.sender # m
            /\ \E i \in 1..Len(epochs[m]) : epochs[m][i] = f.epoch
            /\ [frame |-> f, as |-> f.epoch] \notin opened[m]
            /\ \A o \in opened[m] :
                  o.frame.sender = f.sender /\ o.frame.epoch = f.epoch =>
                      o.frame.counter < f.counter + Width
            => Opens(m, f)
=============================================================================
