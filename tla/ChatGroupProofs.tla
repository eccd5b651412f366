-------------------------- MODULE ChatGroupProofs --------------------------
(* Proofs about ChatGroup, for any devices and bounds.                      *)
(*                                                                          *)
(* An author never falls behind the commits it made (AheadInv), which gives *)
(* every ratcheted text an epoch of its own.  A device that opened a text   *)
(* is past it for good (ShownInv).  While no commit crossed another one the *)
(* unread messages of each device form a chain that starts at its own state *)
(* and ends where the chains of the other devices end (SerialInv).          *)
EXTENDS ChatGroup, TLAPS

-----------------------------------------------------------------------------
(* Types.                                                                   *)

History == Seq(Devices \X Devices)
Envelope == [kind : {"raw", "v2", "v3"}, from : Devices, parent : History,
             hist : History, mac : History]
Live == [live : {TRUE}, hist : History, opened : SUBSET Envelopes]
Waiting == [live : {TRUE}, hist : History]
Messages == [id : Envelopes, again : BOOLEAN]
Showings == [id : Envelopes, as : {"text", "bytes"}]

(* The form of what is on the wire: a v3 bundle carries the commit it is    *)
(* encrypted after.                                                         *)
WellFormed(e) ==
    /\ e.kind = "v3" => e.hist = Append(e.parent, <<e.from, e.from>>) /\ e.mac = e.hist
    /\ e.kind = "v2" => e.hist = e.parent

TypeInv ==
    /\ secret \in BOOLEAN /\ crossed \in BOOLEAN
    /\ group \in [Devices -> {NoGroup} \cup Live]
    /\ welcome \in [Devices -> {NoWelcome} \cup Waiting]
    /\ \A m \in Devices : ~(Member(m) /\ welcome[m].live)
    /\ ratchet \subseteq Devices /\ bare \subseteq Devices
    /\ \A m \in ratchet : Member(m)
    /\ envs \in Seq(Envelope) /\ Len(envs) <= MaxSends
    /\ \A i \in 1..Len(envs) : WellFormed(envs[i])
    /\ unsent \subseteq 1..Len(envs)
    /\ stream \in [Devices -> Seq(Messages)]
    /\ \A m \in Devices : \A i \in 1..Len(stream[m]) : stream[m][i].id \in 1..Len(envs)
    /\ shown \in [Devices -> SUBSET Showings]
    /\ \A m \in Devices : \A d \in shown[m] : d.id \in 1..Len(envs)
    /\ delivered \subseteq (1..Len(envs)) \X Devices

-----------------------------------------------------------------------------
(* The invariants.                                                          *)

(* The author of each commit of h has merged at least as many commits.      *)
Ahead(gs, h) ==
    \A k \in 1..Len(h) : gs[h[k][1]].live /\ Len(gs[h[k][1]].hist) >= k

AheadInv ==
    /\ \A m \in Devices : Member(m) => Ahead(group, group[m].hist)
    /\ \A m \in Devices : welcome[m].live => Ahead(group, welcome[m].hist)
    /\ \A i \in 1..Len(envs) : envs[i].kind # "raw" => Ahead(group, envs[i].hist)

(* m cannot open envelope id any more.                                      *)
Past(m, id) ==
    /\ Member(m)
    /\ Len(group[m].hist) >= Len(envs[id].hist)
    /\ group[m].hist = envs[id].hist => id \in group[m].opened

ShownInv ==
    \A m \in Devices : \A d \in shown[m] :
        d.as = "text" /\ envs[d.id].kind # "raw" => Past(m, d.id)

(* What the relay passed on left the sender and went to invited devices,    *)
(* once to each but for repetitions.                                        *)
PostInv ==
    /\ \A m \in Devices : \A i \in 1..Len(stream[m]) : <<stream[m][i].id, m>> \in delivered
    /\ \A m \in Devices : \A id \in 1..Len(envs) :
          <<id, m>> \in delivered => id \notin unsent /\ Invited(m)
    /\ \A m \in Devices : \A i, j \in 1..Len(stream[m]) :
          ~stream[m][i].again /\ ~stream[m][j].again /\ stream[m][i].id = stream[m][j].id
             => i = j
    /\ \A m \in Devices : Member(m) =>
          \A id \in group[m].opened : <<id, m>> \in delivered

(* A device in state cur that reads the messages of q comes to message i in *)
(* state h: that of the last unread message before it, if there is one.     *)
Unread(E, f) == ~f.again /\ E[f.id].kind # "raw"

At(E, q, cur, i, h) ==
    \/ h = cur /\ \A j \in 1..(i - 1) : ~Unread(E, q[j])
    \/ \E j \in 1..(i - 1) :
          /\ Unread(E, q[j]) /\ h = E[q[j].id].hist
          /\ \A k \in (j + 1)..(i - 1) : ~Unread(E, q[k])

Chain(E, q, cur) ==
    \A i \in 1..Len(q) : Unread(E, q[i]) => At(E, q, cur, i, E[q[i].id].parent)

End(E, q, cur, h) == At(E, q, cur, Len(q) + 1, h)

Cur(m) == IF Member(m) THEN group[m].hist ELSE welcome[m].hist

Encrypted(id) == envs[id].kind # "raw"

Quiet(p) == \A i \in 1..Len(stream[p]) : ~Unread(envs, stream[p][i])

Pending(m, id) == \E i \in 1..Len(stream[m]) : stream[m][i] = Message(id, FALSE)

InStep == \A m \in Devices : Invited(m) => Chain(envs, stream[m], Cur(m))

OneUnsent == \A i, j \in unsent : Encrypted(i) /\ Encrypted(j) => i = j

(* All chains end in state h; the sender of the one envelope that is        *)
(* encrypted and not sent is ahead of it by that envelope.                  *)
Ends(h) ==
    /\ \A id \in unsent : Encrypted(id) =>
          /\ envs[id].parent = h
          /\ Member(envs[id].from) /\ group[envs[id].from].hist = envs[id].hist
          /\ Quiet(envs[id].from)
    /\ \A p \in Devices : Invited(p) =>
          \/ End(envs, stream[p], Cur(p), h)
          \/ \E id \in unsent : Encrypted(id) /\ envs[id].from = p

OneEnd == \E h : Ends(h)

(* Each message a device was sent is done with or still to be read, a copy  *)
(* of it comes after it, and no key of an unread message is used up.        *)
Accounted ==
    \A m \in Devices : \A id \in 1..Len(envs) :
        Encrypted(id) /\ <<id, m>> \in delivered => Past(m, id) \/ Pending(m, id)

CopiesFollow ==
    \A m \in Devices : \A i \in 1..Len(stream[m]) :
        Encrypted(stream[m][i].id) /\ stream[m][i].again =>
           \/ Past(m, stream[m][i].id)
           \/ \E j \in 1..(i - 1) : stream[m][j] = Message(stream[m][i].id, FALSE)

UnreadUnopened ==
    \A m \in Devices : Member(m) => \A id \in group[m].opened : ~Pending(m, id)

SerialInv ==
    ~crossed => /\ InStep /\ OneUnsent /\ OneEnd
                /\ Accounted /\ CopiesFollow /\ UnreadUnopened

-----------------------------------------------------------------------------
(* What decryption does to a group.                                         *)

(* One more commit: the history grows by it and keeps the others.           *)
LEMMA AppendType ==
    ASSUME NEW h \in History, NEW a \in Devices, NEW b \in Devices
    PROVE  /\ Append(h, <<a, b>>) \in History
           /\ Len(h) \in Nat /\ Len(Append(h, <<a, b>>)) = Len(h) + 1
           /\ Append(h, <<a, b>>)[Len(h) + 1] = <<a, b>>
           /\ \A k \in 1..Len(h) : Append(h, <<a, b>>)[k] = h[k]
<1>1. <<a, b>> \in Devices \X Devices
  BY Zenon
<1>. QED
  BY <1>1 DEF History

(* The three outcomes for the group: left as it was, one more message key   *)
(* used, or the commit of the bundle merged and its text opened.            *)
Untouched(g, after) == after = g

OpenedV2(g, e, id, after) ==
    /\ e.kind = "v2" /\ g.hist = e.hist /\ id \notin g.opened
    /\ after = [live |-> TRUE, hist |-> e.hist, opened |-> g.opened \cup {id}]

OpenedV3(g, e, id, after) ==
    /\ e.kind = "v3" /\ g.hist = e.parent
    /\ after = [live |-> TRUE, hist |-> e.hist, opened |-> {id}]

(* Decryption has no other outcome for the group than these three.          *)
LEMMA DecryptEffect ==
    ASSUME NEW g \in Live, NEW e \in Envelope, WellFormed(e), NEW id
    PROVE  /\ \/ Untouched(g, AfterDecrypt(g, e, id))
              \/ OpenedV2(g, e, id, AfterDecrypt(g, e, id))
              \/ OpenedV3(g, e, id, AfterDecrypt(g, e, id))
           /\ e.kind # "raw" =>
                (Decrypted(g, e, id) = "text" <=>
                    \/ OpenedV2(g, e, id, AfterDecrypt(g, e, id))
                    \/ OpenedV3(g, e, id, AfterDecrypt(g, e, id)))
           /\ Decrypted(g, e, id) \in {"text", "bytes", "dropped"}
           /\ e.kind = "raw" => Untouched(g, AfterDecrypt(g, e, id))
           /\ e.kind = "v2" /\ ~(g.hist = e.hist /\ id \notin g.opened) =>
                Untouched(g, AfterDecrypt(g, e, id))
           /\ e.kind = "v3" /\ g.hist # e.parent => Untouched(g, AfterDecrypt(g, e, id))
           /\ e.kind = "v2" /\ g.hist = e.hist /\ id \notin g.opened =>
                OpenedV2(g, e, id, AfterDecrypt(g, e, id))
           /\ e.kind = "v3" /\ g.hist = e.parent =>
                OpenedV3(g, e, id, AfterDecrypt(g, e, id))
<1>. DEFINE after == AfterDecrypt(g, e, id)
<1>0. e.kind \in {"raw", "v2", "v3"} /\ e.from \in Devices /\ e.parent \in History
  BY Zenon DEF Envelope
<1>1. CASE e.kind = "raw"
  <2>1. after = g /\ Decrypted(g, e, id) = "text"
    BY <1>1, Zenon DEF AfterDecrypt, Decrypted
  <2>. QED BY <1>1, <2>1, Zenon DEF Untouched, OpenedV2, OpenedV3
<1>2. CASE e.kind = "v2"
  <2>1. after = ProcessApplication(g, e.hist, id)
    BY <1>2, Zenon DEF AfterDecrypt
  <2>2. Decrypted(g, e, id) = IF ApplicationOpens(g, e.hist, id) THEN "text" ELSE "bytes"
    BY <1>2, Zenon DEF Decrypted
  <2>3. CASE ApplicationOpens(g, e.hist, id)
    <3>1. g.hist = e.hist /\ id \notin g.opened
      BY <2>3, Zenon DEF ApplicationOpens
    <3>2. after = [g EXCEPT !.opened = @ \cup {id}]
      BY <2>1, <2>3, Zenon DEF ProcessApplication
    <3>3. after = [live |-> TRUE, hist |-> e.hist, opened |-> g.opened \cup {id}]
      BY <3>1, <3>2, Zenon DEF Live
    <3>. QED BY <1>2, <2>2, <2>3, <3>1, <3>3, Zenon DEF OpenedV2
  <2>4. CASE ~ApplicationOpens(g, e.hist, id)
    <3>1. after = g
      BY <2>1, <2>4, Zenon DEF ProcessApplication
    <3>2. ~(g.hist = e.hist /\ id \notin g.opened)
      BY <2>4, Zenon DEF ApplicationOpens
    <3>. QED BY <1>2, <2>2, <2>4, <3>1, <3>2, Zenon DEF Untouched, OpenedV2, OpenedV3
  <2>. QED BY <2>3, <2>4, Zenon
<1>3. CASE e.kind = "v3"
  <2>1. e.hist = Append(e.parent, <<e.from, e.from>>) /\ e.mac = e.hist
    BY <1>3, Zenon DEF WellFormed
  <2>2. after = AfterV3(g, e, id)
    BY <1>3, Zenon DEF AfterDecrypt
  <2>3. Decrypted(g, e, id) = IF OpensV3(g, e, id) THEN "text" ELSE "dropped"
    BY <1>3, Zenon DEF Decrypted
  <2>4. CASE g.hist = e.parent
    <3>1. AfterCommit(g, e) = [live |-> TRUE, hist |-> e.hist, opened |-> {}]
      BY <2>1, <2>4, Zenon DEF AfterCommit, ProcessCommit, CommitApplies, ForceRekey, GroupAt
    <3>. DEFINE c == AfterCommit(g, e)
    <3>2. ApplicationOpens(c, e.hist, id) /\ c.hist = e.hist
      BY <3>1 DEF ApplicationOpens
    <3>3. after = [c EXCEPT !.opened = @ \cup {id}]
      BY <2>2, <2>4, <3>2, Zenon DEF AfterV3, CommitApplies, ProcessApplication
    <3>4. after = [live |-> TRUE, hist |-> e.hist, opened |-> {id}]
      <4>1. {} \cup {id} = {id}
        BY Zenon
      <4>. HIDE DEF after, c
      <4>2. c = [live |-> TRUE, hist |-> e.hist, opened |-> {}]
        BY <3>1, Zenon DEF c
      <4>. QED BY <3>3, <4>1, <4>2, Zenon
    <3>5. OpensV3(g, e, id)
      BY <2>1, <2>4, <3>2, Zenon DEF OpensV3, CommitApplies
    <3>6. OpenedV3(g, e, id, after) /\ Decrypted(g, e, id) = "text"
      BY <1>3, <2>3, <2>4, <3>4, <3>5, Zenon DEF OpenedV3
    <3>. QED BY <1>3, <2>4, <3>6, Zenon
  <2>5. CASE g.hist # e.parent
    <3>1. after = g /\ ~OpensV3(g, e, id)
      BY <2>2, <2>5, Zenon DEF AfterV3, OpensV3, CommitApplies
    <3>. QED BY <1>3, <2>3, <2>5, <3>1, Zenon DEF Untouched, OpenedV2, OpenedV3
  <2>. QED BY <2>4, <2>5, Zenon
<1>. QED
  BY <1>0, <1>1, <1>2, <1>3, Zenon

(* A group after a merge or an opening is a group.                          *)
LEMMA DecryptLive ==
    ASSUME NEW g \in Live, NEW e \in Envelope, WellFormed(e), NEW id \in Envelopes
    PROVE  AfterDecrypt(g, e, id) \in Live
<1>1. e.hist \in History /\ g.opened \cup {id} \in SUBSET Envelopes /\ {id} \in SUBSET Envelopes
  BY Zenon DEF Envelope, Live
<1>2. CASE Untouched(g, AfterDecrypt(g, e, id))
  BY <1>2, Zenon DEF Untouched
<1>3. CASE OpenedV2(g, e, id, AfterDecrypt(g, e, id))
  BY <1>1, <1>3 DEF OpenedV2, Live
<1>4. CASE OpenedV3(g, e, id, AfterDecrypt(g, e, id))
  BY <1>1, <1>4 DEF OpenedV3, Live
<1>. QED
  BY <1>2, <1>3, <1>4, DecryptEffect, Zenon

-----------------------------------------------------------------------------
(* Type correctness.                                                        *)

(* A device is in the group or has no state of it; a Welcome waiting for it *)
(* is typed.                                                                *)
LEMMA MemberLive ==
    ASSUME TypeInv, NEW m \in Devices
    PROVE  /\ Member(m) => group[m] \in Live
           /\ ~Member(m) => group[m] = NoGroup
           /\ welcome[m].live => welcome[m] \in Waiting
           /\ group[m] \in Live => Member(m)
<1>1. group[m] \in {NoGroup} \cup Live /\ welcome[m] \in {NoWelcome} \cup Waiting
  BY Zenon DEF TypeInv
<1>2. ~NoGroup.live /\ ~NoWelcome.live
  BY Zenon DEF NoGroup, NoWelcome
<1>3. \A g \in Live : g.live
  BY Zenon DEF Live
<1>. QED
  BY <1>1, <1>2, <1>3, Zenon DEF Member

(* The history of a group state is a history and its used keys are of       *)
(* envelopes.                                                               *)
LEMMA MemberHist ==
    ASSUME TypeInv, NEW m \in Devices, Member(m)
    PROVE  /\ group[m].hist \in History /\ Len(group[m].hist) \in Nat
           /\ group[m].opened \subseteq Envelopes
<1>1. group[m].hist \in History /\ group[m].opened \subseteq Envelopes
  BY MemberLive, Zenon DEF Live
<1>2. \A h \in History : Len(h) \in Nat
  BY DEF History
<1>. QED
  BY <1>1, <1>2, Zenon

(* A fresh group state and a Welcome are typed.                             *)
LEMMA GroupAtLive ==
    ASSUME NEW h \in History
    PROVE  GroupAt(h) \in Live /\ WelcomeAt(h) \in Waiting
BY Zenon DEF GroupAt, Live, WelcomeAt, Waiting

(* What a send puts on the wire, and the sender's group after it.           *)
LEMMA EncryptType ==
    ASSUME TypeInv, NEW m \in Devices
    PROVE  /\ Encrypt(m) \in Envelope /\ WellFormed(Encrypt(m)) /\ Encrypt(m).from = m
           /\ GroupAfterEncrypt(m) \in {NoGroup} \cup Live
           /\ Encrypt(m).kind # "raw" =>
                /\ Member(m) /\ Encrypt(m).parent = group[m].hist
                /\ GroupAfterEncrypt(m).live
                /\ GroupAfterEncrypt(m).hist = Encrypt(m).hist
           /\ Encrypt(m).kind = "v3" =>
                GroupAfterEncrypt(m) = GroupAt(Append(group[m].hist, <<m, m>>))
           /\ Encrypt(m).kind # "v3" => GroupAfterEncrypt(m) = group[m]
<1>1. << >> \in History
  BY DEF History
<1>2. CASE ~Member(m)
  <2>1. Encrypt(m) = Raw(m) /\ GroupAfterEncrypt(m) = group[m]
    BY <1>2, Zenon DEF Encrypt, GroupAfterEncrypt
  <2>2. /\ Raw(m) \in Envelope /\ WellFormed(Raw(m)) /\ Raw(m).from = m
        /\ Raw(m).kind = "raw"
    BY <1>1, Zenon DEF Raw, Envelope, WellFormed
  <2>3. group[m] \in {NoGroup} \cup Live
    BY Zenon DEF TypeInv
  <2>. QED BY <2>1, <2>2, <2>3, Zenon
<1>3. CASE Member(m) /\ ~Ratchets(m)
  <2>1. group[m] \in Live /\ group[m].live
    BY <1>3, MemberLive, Zenon DEF Member
  <2>2. Encrypt(m) = EncryptApplication(group[m], m) /\ GroupAfterEncrypt(m) = group[m]
    BY <1>3, Zenon DEF Encrypt, GroupAfterEncrypt
  <2>. DEFINE e == EncryptApplication(group[m], m)
  <2>3. /\ e.kind = "v2" /\ e.from = m /\ e.parent = group[m].hist
        /\ e.hist = group[m].hist
    BY Zenon DEF EncryptApplication
  <2>4. e \in Envelope /\ WellFormed(e)
    BY <1>1, <2>1, Zenon DEF EncryptApplication, Envelope, WellFormed, Live
  <2>. HIDE DEF e
  <2>. QED BY <1>3, <2>1, <2>2, <2>3, <2>4, Zenon DEF e
<1>4. CASE Member(m) /\ Ratchets(m)
  <2>1. group[m] \in Live /\ group[m].hist \in History
    BY <1>4, MemberLive, Zenon DEF Live
  <2>. DEFINE h == Append(group[m].hist, <<m, m>>)
  <2>2. h \in History /\ GroupAt(h) \in Live /\ GroupAt(h).hist = h /\ GroupAt(h).live
    BY <2>1, AppendType, GroupAtLive, Zenon DEF GroupAt
  <2>3. ForceRekey(group[m], m) = GroupAt(h)
    BY Zenon DEF ForceRekey
  <2>4. /\ Encrypt(m) = [kind |-> "v3", from |-> m, parent |-> group[m].hist,
                         hist |-> h, mac |-> h]
        /\ GroupAfterEncrypt(m) = GroupAt(h)
    <3>. HIDE DEF h
    <3>1. EncryptWithRekeyAuthenticated(group[m], m) =
            [kind |-> "v3", from |-> m, parent |-> group[m].hist, hist |-> h, mac |-> h]
      BY <2>2, <2>3, Zenon DEF EncryptWithRekeyAuthenticated
    <3>. QED BY <1>4, <2>3, <3>1, Zenon DEF Encrypt, GroupAfterEncrypt
  <2>5. PICK p \in History, k \in History :
           p = group[m].hist /\ k = h /\ k = Append(p, <<m, m>>)
    BY <2>1, <2>2, Zenon
  <2>. HIDE DEF h
  <2>6. PICK e : e = [kind |-> "v3", from |-> m, parent |-> p, hist |-> k, mac |-> k]
    BY Zenon
  <2>7. /\ e.kind = "v3" /\ e.from = m /\ e.parent = p /\ e.hist = k
        /\ e \in Envelope /\ WellFormed(e)
    <3>1. e.kind = "v3" /\ e.from = m /\ e.parent = p /\ e.hist = k /\ e.mac = k
      BY <2>6, Zenon
    <3>2. e \in Envelope
      BY <2>6, Zenon DEF Envelope
    <3>. QED BY <2>5, <3>1, <3>2, Zenon DEF WellFormed
  <2>8. Encrypt(m) = e
    BY <2>4, <2>5, <2>6, Zenon
  <2>. QED BY <1>4, <2>2, <2>4, <2>5, <2>7, <2>8, Zenon DEF h
<1>. QED
  BY <1>2, <1>3, <1>4, Zenon

(* The types hold at the start.                                             *)
LEMMA TypeInit == Init => TypeInv
<1>1. SUFFICES ASSUME Init PROVE TypeInv
  BY Zenon
<1>2. ~NoGroup.live /\ ~NoWelcome.live
  BY Zenon DEF NoGroup, NoWelcome
<1>3. \A m \in Devices : ~Member(m) /\ ~welcome[m].live
  BY <1>1, <1>2, Zenon DEF Init, Member
<1>4. envs \in Seq(Envelope) /\ Len(envs) = 0 /\ 0 <= MaxSends
  BY <1>1, ChatAssumption DEF Init
<1>5. stream \in [Devices -> Seq(Messages)]
  BY <1>1 DEF Init
<1>6. shown \in [Devices -> SUBSET Showings]
  BY <1>1, Zenon DEF Init
<1>7. /\ group \in [Devices -> {NoGroup} \cup Live]
      /\ welcome \in [Devices -> {NoWelcome} \cup Waiting]
  BY <1>1, Zenon DEF Init
<1>8. /\ \A m \in Devices : \A i \in 1..Len(stream[m]) : stream[m][i].id \in 1..Len(envs)
      /\ \A m \in Devices : \A d \in shown[m] : d.id \in 1..Len(envs)
      /\ \A i \in 1..Len(envs) : WellFormed(envs[i])
  BY <1>1, <1>4 DEF Init
<1>. QED
  BY <1>1, <1>3, <1>4, <1>5, <1>6, <1>7, <1>8, Zenon DEF Init, TypeInv

(* What a change of one device's group, of its Welcome or of its stream     *)
(* does to the types.                                                       *)
LEMMA TypeGroup ==
    ASSUME TypeInv, NEW m \in Devices, NEW g \in Live,
           group' = [group EXCEPT ![m] = g], ~welcome'[m].live,
           \A p \in Devices : welcome'[p].live => ~Member(p)
    PROVE  /\ group' \in [Devices -> {NoGroup} \cup Live]
           /\ \A p \in Devices : ~(Member(p)' /\ welcome'[p].live)
           /\ \A p \in ratchet : Member(p)'
<1>1. /\ group \in [Devices -> {NoGroup} \cup Live]
      /\ ratchet \subseteq Devices /\ \A p \in ratchet : Member(p)
  BY Zenon DEF TypeInv
<1>2. group'[m] = g /\ g.live
  BY <1>1, Zenon DEF Live
<1>3. \A p \in Devices \ {m} : group'[p] = group[p]
  BY <1>1, Zenon
<1>4. \A p \in Devices : ~(Member(p)' /\ welcome'[p].live)
  BY <1>3, Zenon DEF Member
<1>5. \A p \in ratchet : Member(p)'
  BY <1>1, <1>2, <1>3, Zenon DEF Member
<1>. QED
  BY <1>1, <1>4, <1>5, Zenon

(* What is in a stream are messages about envelopes that exist.             *)
LEMMA StreamType ==
    ASSUME TypeInv, NEW m \in Devices
    PROVE  /\ stream[m] \in Seq(Messages) /\ Len(stream[m]) \in Nat
           /\ \A i \in 1..Len(stream[m]) :
                 /\ stream[m][i].id \in 1..Len(envs) /\ stream[m][i].again \in BOOLEAN
                 /\ stream[m][i] \in Messages
<1>1. stream[m] \in Seq(Messages)
  BY Zenon DEF TypeInv
<1>2. ASSUME NEW i \in 1..Len(stream[m])
      PROVE  stream[m][i].id \in 1..Len(envs) /\ stream[m][i] \in Messages
  BY <1>1 DEF TypeInv
<1>3. \A f \in Messages : f.again \in BOOLEAN
  BY Zenon DEF Messages
<1>4. Len(stream[m]) \in Nat
  BY <1>1
<1>. QED
  BY <1>1, <1>2, <1>3, <1>4, Zenon

(* Envelopes are typed and well formed, and there are no more than          *)
(* MaxSends.                                                                *)
LEMMA EnvType ==
    ASSUME TypeInv
    PROVE  /\ Len(envs) \in Nat /\ 1..Len(envs) \subseteq Envelopes
           /\ \A i \in 1..Len(envs) :
                 /\ envs[i] \in Envelope /\ WellFormed(envs[i])
                 /\ envs[i].hist \in History /\ envs[i].parent \in History
                 /\ envs[i].from \in Devices /\ Len(envs[i].hist) \in Nat
                 /\ Len(envs[i].parent) \in Nat
<1>1. envs \in Seq(Envelope) /\ Len(envs) <= MaxSends
  BY Zenon DEF TypeInv
<1>0. Len(envs) \in Nat
  BY <1>1
<1>2. \A i \in 1..Len(envs) : envs[i] \in Envelope /\ WellFormed(envs[i])
  BY <1>1 DEF TypeInv
<1>3. 1..Len(envs) \subseteq Envelopes
  BY <1>0, <1>1, ChatAssumption DEF Envelopes
<1>4. \A h \in History : Len(h) \in Nat
  BY DEF History
<1>. QED
  BY <1>0, <1>2, <1>3, <1>4, Zenon DEF Envelope

(* A sequence that is not empty, by its head and its tail.                  *)
LEMMA HeadTail ==
    ASSUME NEW S, NEW q \in Seq(S), q # << >>
    PROVE  /\ 1 \in 1..Len(q) /\ Head(q) = q[1] /\ Tail(q) \in Seq(S)
           /\ Len(Tail(q)) = Len(q) - 1
           /\ \A i \in 1..Len(Tail(q)) : i + 1 \in 1..Len(q) /\ Tail(q)[i] = q[i + 1]
<1>1. Len(q) \in Nat /\ Len(q) > 0 /\ Head(q) = q[1]
  OBVIOUS
<1>2. /\ Tail(q) \in Seq(S) /\ Len(Tail(q)) = Len(q) - 1
      /\ \A i \in 1..Len(Tail(q)) : Tail(q)[i] = q[i + 1]
  OBVIOUS
<1>3. \A i \in 1..Len(Tail(q)) : i + 1 \in 1..Len(q)
  BY <1>1, <1>2
<1>. QED
  BY <1>1, <1>2, <1>3

(* A sequence with one more entry.                                          *)
LEMMA AppendSeq ==
    ASSUME NEW S, NEW q \in Seq(S), NEW x \in S
    PROVE  /\ Append(q, x) \in Seq(S) /\ Len(Append(q, x)) = Len(q) + 1
           /\ \A i \in 1..Len(q) : Append(q, x)[i] = q[i]
           /\ Append(q, x)[Len(q) + 1] = x
OBVIOUS

(* The same for streams.                                                    *)
LEMMA AppendMessage ==
    ASSUME NEW q \in Seq(Messages), NEW f \in Messages
    PROVE  /\ Append(q, f) \in Seq(Messages) /\ Len(Append(q, f)) = Len(q) + 1
           /\ \A i \in 1..Len(q) : Append(q, f)[i] = q[i]
           /\ Append(q, f)[Len(q) + 1] = f
BY AppendSeq

(* The part of the types that steps leaving the groups alone keep.          *)
LEMMA TypeSameGroup ==
    ASSUME TypeInv, group' = group, welcome' = welcome
    PROVE  /\ group' \in [Devices -> {NoGroup} \cup Live]
           /\ welcome' \in [Devices -> {NoWelcome} \cup Waiting]
           /\ \A p \in Devices : ~(Member(p)' /\ welcome'[p].live)
           /\ \A p \in ratchet : Member(p)'
BY Zenon DEF TypeInv, Member

(* send_text's encryption keeps the types.                                  *)
LEMMA TypeSendEncrypt ==
    ASSUME TypeInv, NEW m \in Devices, SendEncrypt(m)
    PROVE  TypeInv'
<1>1. /\ Encrypt(m) \in Envelope /\ WellFormed(Encrypt(m))
      /\ GroupAfterEncrypt(m) \in {NoGroup} \cup Live
      /\ Encrypt(m).kind # "v3" => GroupAfterEncrypt(m) = group[m]
      /\ Encrypt(m).kind = "v3" => Member(m) /\ GroupAfterEncrypt(m) \in Live
  <2>1. /\ Encrypt(m) \in Envelope /\ WellFormed(Encrypt(m))
        /\ GroupAfterEncrypt(m) \in {NoGroup} \cup Live
        /\ Encrypt(m).kind # "v3" => GroupAfterEncrypt(m) = group[m]
        /\ Encrypt(m).kind = "v3" => Member(m) /\ GroupAfterEncrypt(m).live
    BY EncryptType, Zenon
  <2>2. ~NoGroup.live
    BY Zenon DEF NoGroup
  <2>. QED BY <2>1, <2>2, Zenon
<1>2. /\ envs' = Append(envs, Encrypt(m)) /\ Len(envs) < MaxSends
      /\ group' = [group EXCEPT ![m] = GroupAfterEncrypt(m)]
      /\ unsent' = unsent \cup {Len(envs) + 1}
      /\ crossed' \in BOOLEAN
      /\ UNCHANGED <<secret, ratchet, welcome, bare, stream, shown, delivered>>
  BY Zenon DEF SendEncrypt, membership
<1>3. envs \in Seq(Envelope) /\ Len(envs) \in Nat
  BY EnvType, Zenon DEF TypeInv
<1>4. /\ envs' \in Seq(Envelope) /\ Len(envs') = Len(envs) + 1
      /\ \A i \in 1..Len(envs) : envs'[i] = envs[i]
      /\ envs'[Len(envs) + 1] = Encrypt(m)
  BY <1>1, <1>2, <1>3, AppendSeq
<1>5. Len(envs') <= MaxSends /\ 1..Len(envs) \subseteq 1..Len(envs')
  BY <1>2, <1>3, <1>4, ChatAssumption
<1>6. \A i \in 1..Len(envs') : WellFormed(envs'[i])
  <2>1. \A i \in 1..Len(envs') : i \in 1..Len(envs) \/ i = Len(envs) + 1
    BY <1>3, <1>4
  <2>. QED BY <1>1, <1>4, <2>1, EnvType, Zenon
<1>7. /\ group' \in [Devices -> {NoGroup} \cup Live]
      /\ \A p \in Devices : ~(Member(p)' /\ welcome'[p].live)
      /\ \A p \in ratchet : Member(p)'
  <2>1. CASE Encrypt(m).kind # "v3"
    <3>1. group' = group
      BY <1>1, <1>2, <2>1, Zenon DEF TypeInv
    <3>. QED BY <1>2, <3>1, TypeSameGroup, Zenon
  <2>2. CASE Encrypt(m).kind = "v3"
    <3>1. \A p \in Devices : welcome'[p].live => ~Member(p)
      BY <1>2, Zenon DEF TypeInv
    <3>. QED BY <1>1, <1>2, <2>2, <3>1, TypeGroup, Zenon
  <2>. QED BY <2>1, <2>2, Zenon
<1>8. unsent' \subseteq 1..Len(envs')
  <2>1. unsent \subseteq 1..Len(envs)
    BY Zenon DEF TypeInv
  <2>2. Len(envs) + 1 \in 1..Len(envs')
    BY <1>3, <1>4
  <2>. QED BY <1>2, <1>5, <2>1, <2>2, Zenon
<1>9. /\ stream' \in [Devices -> Seq(Messages)]
      /\ \A p \in Devices : \A i \in 1..Len(stream'[p]) : stream'[p][i].id \in 1..Len(envs')
      /\ shown' \in [Devices -> SUBSET Showings]
      /\ \A p \in Devices : \A d \in shown'[p] : d.id \in 1..Len(envs')
      /\ delivered' \subseteq (1..Len(envs')) \X Devices
  BY <1>2, <1>5, Zenon DEF TypeInv
<1>. QED
  BY <1>2, <1>4, <1>5, <1>6, <1>7, <1>8, <1>9, Zenon DEF TypeInv

(* fetch_mls_inbox keeps the types.                                         *)
LEMMA TypeFetchReceive ==
    ASSUME TypeInv, NEW m \in Devices, FetchReceive(m)
    PROVE  TypeInv'
<1>. DEFINE f == Head(stream[m])
            e == envs[f.id]
            outcome == IF m \in bare THEN Undecrypted(e) ELSE Decrypted(group[m], e, f.id)
<1>1. /\ m \in bare \/ Member(m)
      /\ stream[m] # << >>
      /\ shown' = IF outcome = "dropped" THEN shown
                  ELSE [shown EXCEPT ![m] = @ \cup {[id |-> f.id, as |-> outcome]}]
      /\ group' = IF m \in bare THEN group
                  ELSE [group EXCEPT ![m] = AfterDecrypt(group[m], e, f.id)]
      /\ stream' = [stream EXCEPT ![m] = Tail(@)]
      /\ crossed' \in BOOLEAN
      /\ UNCHANGED <<secret, ratchet, welcome, bare, envs, unsent, delivered>>
  BY Zenon DEF FetchReceive, membership
<1>2. /\ stream[m] \in Seq(Messages)
      /\ \A i \in 1..Len(stream[m]) : stream[m][i].id \in 1..Len(envs)
  BY StreamType, Zenon
<1>3. /\ 1 \in 1..Len(stream[m]) /\ f = stream[m][1] /\ Tail(stream[m]) \in Seq(Messages)
      /\ \A i \in 1..Len(Tail(stream[m])) : Tail(stream[m])[i].id \in 1..Len(envs)
  BY <1>1, <1>2, HeadTail, SMTT(60)
<1>4. f.id \in 1..Len(envs) /\ f.id \in Envelopes /\ e \in Envelope /\ WellFormed(e)
  BY <1>2, <1>3, EnvType, Zenon
<1>. HIDE DEF f, e
<1>5. /\ stream' \in [Devices -> Seq(Messages)]
      /\ \A p \in Devices : \A i \in 1..Len(stream'[p]) : stream'[p][i].id \in 1..Len(envs')
  <2>1. stream \in [Devices -> Seq(Messages)]
    BY Zenon DEF TypeInv
  <2>2. stream' \in [Devices -> Seq(Messages)] /\ stream'[m] = Tail(stream[m])
    BY <1>1, <1>3, <2>1, Zenon
  <2>3. \A p \in Devices \ {m} : stream'[p] = stream[p]
    BY <1>1, <2>1, Zenon
  <2>. QED BY <1>1, <1>3, <2>2, <2>3, StreamType, Zenon
<1>6. outcome \in {"text", "bytes", "dropped"}
  <2>1. CASE m \in bare
    BY <2>1, Zenon DEF Undecrypted
  <2>2. CASE m \notin bare
    BY <1>1, <1>4, <2>2, MemberLive, DecryptEffect, Zenon
  <2>. QED BY <2>1, <2>2, Zenon
<1>. HIDE DEF outcome
<1>7. /\ shown' \in [Devices -> SUBSET Showings]
      /\ \A p \in Devices : \A d \in shown'[p] : d.id \in 1..Len(envs')
  <2>1. /\ shown \in [Devices -> SUBSET Showings]
        /\ \A p \in Devices : \A d \in shown[p] : d.id \in 1..Len(envs)
    BY Zenon DEF TypeInv
  <2>2. CASE outcome = "dropped"
    BY <1>1, <2>1, <2>2, Zenon
  <2>3. CASE outcome # "dropped"
    <3>. DEFINE d == [id |-> f.id, as |-> outcome]
    <3>1. d \in Showings /\ d.id \in 1..Len(envs)
      BY <1>4, <1>6, <2>3, Zenon DEF Showings
    <3>. HIDE DEF d
    <3>2. shown' = [shown EXCEPT ![m] = @ \cup {d}]
      BY <1>1, <2>3, Zenon DEF d
    <3>. QED BY <1>1, <2>1, <3>1, <3>2
  <2>. QED BY <2>2, <2>3, Zenon
<1>8. /\ group' \in [Devices -> {NoGroup} \cup Live]
      /\ \A p \in Devices : ~(Member(p)' /\ welcome'[p].live)
      /\ \A p \in ratchet : Member(p)'
  <2>1. CASE m \in bare
    <3>1. group' = group
      BY <1>1, <2>1, Zenon
    <3>. QED BY <1>1, <3>1, TypeSameGroup, Zenon
  <2>2. CASE m \notin bare
    <3>1. AfterDecrypt(group[m], e, f.id) \in Live
      BY <1>1, <1>4, <2>2, MemberLive, DecryptLive, Zenon
    <3>2. /\ \A p \in Devices : welcome'[p].live => ~Member(p)
          /\ Member(m)
      BY <1>1, <2>2, Zenon DEF TypeInv
    <3>. QED BY <1>1, <2>2, <3>1, <3>2, TypeGroup, Zenon
  <2>. QED BY <2>1, <2>2, Zenon
<1>. QED
  BY <1>1, <1>5, <1>7, <1>8, Zenon DEF TypeInv

(* The relay's fan-out keeps the types.                                     *)
LEMMA TypeRelay ==
    ASSUME TypeInv, NEW id \in 1..Len(envs), SendRelayed(id)
    PROVE  TypeInv'
<1>1. /\ unsent' = unsent \ {id}
      /\ stream' = [p \in Devices |-> IF p \in Recipients(id)
                      THEN Append(stream[p], Message(id, FALSE)) ELSE stream[p]]
      /\ delivered' = delivered \cup ({id} \X Recipients(id))
      /\ UNCHANGED <<secret, ratchet, welcome, bare, group, envs, shown, crossed>>
  BY Zenon DEF SendRelayed, membership
<1>2. Message(id, FALSE) \in Messages /\ Message(id, FALSE).id = id
  BY EnvType, Zenon DEF Message, Messages
<1>3. Recipients(id) \subseteq Devices
  BY Zenon DEF Recipients
<1>4. ASSUME NEW p \in Devices
      PROVE  /\ stream'[p] \in Seq(Messages)
             /\ \A i \in 1..Len(stream'[p]) : stream'[p][i].id \in 1..Len(envs)
  <2>. DEFINE q == Append(stream[p], Message(id, FALSE))
  <2>1. /\ stream[p] \in Seq(Messages) /\ Len(stream[p]) \in Nat
        /\ \A i \in 1..Len(stream[p]) : stream[p][i].id \in 1..Len(envs)
    BY StreamType, Zenon
  <2>2. /\ q \in Seq(Messages) /\ Len(q) = Len(stream[p]) + 1
        /\ \A i \in 1..Len(stream[p]) : q[i] = stream[p][i]
        /\ q[Len(stream[p]) + 1] = Message(id, FALSE)
    BY <1>2, <2>1, AppendMessage, Zenon
  <2>. HIDE DEF q
  <2>3. \A i \in 1..Len(q) : i \in 1..Len(stream[p]) \/ i = Len(stream[p]) + 1
    BY <2>1, <2>2
  <2>4. \A i \in 1..Len(q) : q[i].id \in 1..Len(envs)
    BY <1>2, <2>1, <2>2, <2>3, Zenon
  <2>5. stream'[p] = IF p \in Recipients(id) THEN q ELSE stream[p]
    BY <1>1, Zenon DEF q
  <2>. QED BY <2>1, <2>2, <2>4, <2>5, Zenon
<1>5. stream' \in [Devices -> Seq(Messages)]
  <2>1. DOMAIN stream' = Devices /\ stream' = [p \in Devices |-> stream'[p]]
    BY <1>1, Zenon
  <2>. QED BY <1>4, <2>1, Zenon
<1>6. delivered' \subseteq (1..Len(envs)) \X Devices /\ unsent' \subseteq 1..Len(envs)
  BY <1>1, <1>3, Zenon DEF TypeInv
<1>7. /\ group' \in [Devices -> {NoGroup} \cup Live]
      /\ welcome' \in [Devices -> {NoWelcome} \cup Waiting]
      /\ \A p \in Devices : ~(Member(p)' /\ welcome'[p].live)
      /\ \A p \in ratchet : Member(p)'
  BY <1>1, TypeSameGroup, Zenon
<1>. QED
  BY <1>1, <1>4, <1>5, <1>6, <1>7, Zenon DEF TypeInv

(* Every step keeps the types.                                              *)
LEMMA TypeStep ==
    ASSUME TypeInv, [Next]_vars
    PROVE  TypeInv'
<1>1. ASSUME NEW m \in Devices, CreateMlsGroup(m)
      PROVE  TypeInv'
  <2>1. /\ group' = [group EXCEPT ![m] = GroupAt(<< >>)]
        /\ \A p \in Devices : ~welcome[p].live
        /\ UNCHANGED <<secret, ratchet, welcome, bare, envs, unsent, stream, shown,
                       delivered, crossed>>
    BY <1>1, Zenon DEF CreateMlsGroup, CreatePrivate, membership, Invited
  <2>2. GroupAt(<< >>) \in Live
    <3>1. << >> \in History
      BY DEF History
    <3>. QED BY <3>1, GroupAtLive, Zenon
  <2>3. /\ group' \in [Devices -> {NoGroup} \cup Live]
        /\ \A p \in Devices : ~(Member(p)' /\ welcome'[p].live)
        /\ \A p \in ratchet : Member(p)'
    BY <2>1, <2>2, TypeGroup, Zenon
  <2>. QED BY <2>1, <2>3, Zenon DEF TypeInv
<1>2. ASSUME NEW m \in Devices, OpenMlsGroupFromWelcome(m)
      PROVE  TypeInv'
  <2>1. /\ welcome[m].live
        /\ group' = [group EXCEPT ![m] = GroupAt(welcome[m].hist)]
        /\ welcome' = [welcome EXCEPT ![m] = NoWelcome]
        /\ UNCHANGED <<secret, ratchet, bare, envs, unsent, stream, shown, delivered, crossed>>
    BY <1>2, Zenon DEF OpenMlsGroupFromWelcome, JoinFromWelcome
  <2>2. GroupAt(welcome[m].hist) \in Live
    BY <2>1, MemberLive, GroupAtLive, Zenon DEF Waiting
  <2>3. ~NoWelcome.live
    BY Zenon DEF NoWelcome
  <2>4. /\ welcome' \in [Devices -> {NoWelcome} \cup Waiting]
        /\ ~welcome'[m].live
        /\ \A p \in Devices : welcome'[p].live => ~Member(p)
    BY <2>1, <2>3, Zenon DEF TypeInv
  <2>5. /\ group' \in [Devices -> {NoGroup} \cup Live]
        /\ \A p \in Devices : ~(Member(p)' /\ welcome'[p].live)
        /\ \A p \in ratchet : Member(p)'
    BY <2>1, <2>2, <2>4, TypeGroup, Zenon
  <2>. QED BY <2>1, <2>4, <2>5, Zenon DEF TypeInv
<1>3. ASSUME NEW m \in Devices, RegisterRatchet(m)
      PROVE  TypeInv'
  BY <1>3, Zenon DEF RegisterRatchet, TypeInv, Member
<1>4. ASSUME NEW m \in Devices, NEW p \in Devices, MlsAddMember(m, p)
      PROVE  TypeInv'
  <2>. DEFINE h == Append(group[m].hist, <<m, p>>)
  <2>1. /\ Member(m) /\ ~Invited(p)
        /\ group' = [group EXCEPT ![m] = GroupAt(h)]
        /\ welcome' = [welcome EXCEPT ![p] = WelcomeAt(GroupAt(h).hist)]
        /\ crossed' \in BOOLEAN
        /\ UNCHANGED <<secret, ratchet, bare, envs, unsent, stream, shown, delivered>>
    BY <1>4, Zenon DEF MlsAddMember, AddMembers
  <2>2. h \in History /\ GroupAt(h).hist = h
    BY <2>1, MemberLive, AppendType, Zenon DEF Live, GroupAt
  <2>3. GroupAt(h) \in Live /\ WelcomeAt(h) \in Waiting
    BY <2>2, GroupAtLive, Zenon
  <2>. HIDE DEF h
  <2>4. ~Member(p) /\ p # m
    BY <2>1, Zenon DEF Invited
  <2>5. /\ welcome' \in [Devices -> {NoWelcome} \cup Waiting]
        /\ ~welcome'[m].live
        /\ \A q \in Devices : welcome'[q].live => ~Member(q)
    <3>1. /\ welcome \in [Devices -> {NoWelcome} \cup Waiting]
          /\ \A q \in Devices : ~(Member(q) /\ welcome[q].live)
      BY Zenon DEF TypeInv
    <3>2. /\ welcome' \in [Devices -> {NoWelcome} \cup Waiting]
          /\ \A q \in Devices \ {p} : welcome'[q] = welcome[q]
      BY <2>1, <2>2, <2>3, <3>1, Zenon
    <3>. QED BY <2>1, <2>4, <3>1, <3>2, Zenon
  <2>6. /\ group' \in [Devices -> {NoGroup} \cup Live]
        /\ \A q \in Devices : ~(Member(q)' /\ welcome'[q].live)
        /\ \A q \in ratchet : Member(q)'
    BY <2>1, <2>3, <2>5, TypeGroup, Zenon
  <2>. QED BY <2>1, <2>5, <2>6, Zenon DEF TypeInv
<1>5. ASSUME NEW m \in Devices, BareFetchStart(m) \/ BareFetchEnds(m)
      PROVE  TypeInv'
  <2>1. /\ bare' \subseteq Devices
        /\ UNCHANGED <<secret, ratchet, welcome, group, envs, unsent, stream, shown,
                       delivered, crossed>>
    BY <1>5, Zenon DEF BareFetchStart, BareFetchEnds, TypeInv
  <2>. QED BY <2>1, Zenon DEF TypeInv, Member
<1>6. ASSUME NEW m \in Devices, ConnectionLost(m)
      PROVE  TypeInv'
  <2>1. /\ stream' = [stream EXCEPT ![m] = << >>]
        /\ crossed' \in BOOLEAN
        /\ UNCHANGED <<secret, ratchet, welcome, bare, group, envs, unsent, shown, delivered>>
    BY <1>6, Zenon DEF ConnectionLost, membership
  <2>2. /\ stream \in [Devices -> Seq(Messages)]
        /\ \A p \in Devices : \A i \in 1..Len(stream[p]) : stream[p][i].id \in 1..Len(envs)
    BY Zenon DEF TypeInv
  <2>3. << >> \in Seq(Messages) /\ Len(<< >>) = 0
    OBVIOUS
  <2>4. /\ stream' \in [Devices -> Seq(Messages)]
        /\ \A p \in Devices : \A i \in 1..Len(stream'[p]) : stream'[p][i].id \in 1..Len(envs')
    <3>1. stream' \in [Devices -> Seq(Messages)] /\ Len(stream'[m]) = 0
      BY <2>1, <2>2, <2>3, Zenon
    <3>2. \A p \in Devices \ {m} : stream'[p] = stream[p]
      BY <2>1, <2>2, Zenon
    <3>. QED BY <2>1, <2>2, <3>1, <3>2
  <2>5. /\ group' \in [Devices -> {NoGroup} \cup Live]
        /\ welcome' \in [Devices -> {NoWelcome} \cup Waiting]
        /\ \A p \in Devices : ~(Member(p)' /\ welcome'[p].live)
        /\ \A p \in ratchet : Member(p)'
    BY <2>1, TypeSameGroup, Zenon
  <2>. QED BY <2>1, <2>4, <2>5, Zenon DEF TypeInv
<1>7. ASSUME NEW id \in 1..Len(envs), SendFails(id)
      PROVE  TypeInv'
  <2>1. /\ unsent' \subseteq unsent
        /\ crossed' \in BOOLEAN
        /\ UNCHANGED <<secret, ratchet, welcome, bare, group, envs, stream, shown, delivered>>
    BY <1>7, Zenon DEF SendFails, membership
  <2>. QED BY <2>1, Zenon DEF TypeInv, Member
<1>8. ASSUME NEW id \in 1..Len(envs), NEW m \in Devices, Redeliver(id, m)
      PROVE  TypeInv'
  <2>. DEFINE q == Append(stream[m], Message(id, TRUE))
  <2>1. /\ stream' = [stream EXCEPT ![m] = q]
        /\ UNCHANGED <<secret, ratchet, welcome, bare, group, envs, unsent, shown, delivered,
                       crossed>>
    BY <1>8, Zenon DEF Redeliver, membership
  <2>2. Message(id, TRUE) \in Messages /\ Message(id, TRUE).id = id
    BY EnvType, Zenon DEF Message, Messages
  <2>3. /\ stream \in [Devices -> Seq(Messages)] /\ stream[m] \in Seq(Messages)
        /\ Len(stream[m]) \in Nat
        /\ \A p \in Devices : \A i \in 1..Len(stream[p]) : stream[p][i].id \in 1..Len(envs)
    BY StreamType, Zenon DEF TypeInv
  <2>4. /\ q \in Seq(Messages) /\ Len(q) = Len(stream[m]) + 1
        /\ \A i \in 1..Len(stream[m]) : q[i] = stream[m][i]
        /\ q[Len(stream[m]) + 1] = Message(id, TRUE)
    BY <2>2, <2>3, AppendMessage, Zenon
  <2>. HIDE DEF q
  <2>5. \A i \in 1..Len(q) : i \in 1..Len(stream[m]) \/ i = Len(stream[m]) + 1
    BY <2>3, <2>4
  <2>6. \A i \in 1..Len(q) : q[i].id \in 1..Len(envs)
    BY <2>2, <2>3, <2>4, <2>5, Zenon
  <2>7. stream' \in [Devices -> Seq(Messages)] /\ stream'[m] = q
    BY <2>1, <2>3, <2>4, Zenon
  <2>8. \A p \in Devices \ {m} : stream'[p] = stream[p]
    BY <2>1, <2>3, Zenon
  <2>9. \A p \in Devices : \A i \in 1..Len(stream'[p]) : stream'[p][i].id \in 1..Len(envs')
    BY <2>1, <2>3, <2>6, <2>7, <2>8, Zenon
  <2>10. /\ group' \in [Devices -> {NoGroup} \cup Live]
         /\ welcome' \in [Devices -> {NoWelcome} \cup Waiting]
         /\ \A p \in Devices : ~(Member(p)' /\ welcome'[p].live)
         /\ \A p \in ratchet : Member(p)'
    BY <2>1, TypeSameGroup, Zenon
  <2>. QED BY <2>1, <2>7, <2>9, <2>10, Zenon DEF TypeInv
<1>9. ASSUME UNCHANGED vars
      PROVE  TypeInv'
  BY <1>9, Zenon DEF vars, membership, TypeInv, Member
<1>10. DOMAIN envs = 1..Len(envs)
  BY DEF TypeInv
<1>. QED
  BY <1>1, <1>2, <1>3, <1>4, <1>5, <1>6, <1>7, <1>8, <1>9, <1>10,
     TypeSendEncrypt, TypeFetchReceive, TypeRelay, Zenon DEF Next

(* The types of the model, for any devices and bounds.                      *)
THEOREM TypeCorrect == Spec => []TypeOK
<1>1. ASSUME TypeInv PROVE TypeOK
  <2>1. ASSUME NEW m \in Devices
        PROVE  /\ Member(m) => group[m].opened \subseteq Envelopes
               /\ ~(Member(m) /\ welcome[m].live)
               /\ stream[m] \in Seq([id : Envelopes, again : BOOLEAN])
               /\ shown[m] \subseteq [id : Envelopes, as : {"text", "bytes"}]
    <3>1. Member(m) => group[m].opened \subseteq Envelopes
      BY <1>1, MemberLive, Zenon DEF Live
    <3>2. stream[m] \in Seq([id : Envelopes, again : BOOLEAN])
      BY <1>1, StreamType, Zenon DEF Messages
    <3>3. shown[m] \subseteq [id : Envelopes, as : {"text", "bytes"}]
      BY <1>1, Zenon DEF TypeInv, Showings
    <3>. QED BY <1>1, <3>1, <3>2, <3>3, Zenon DEF TypeInv
  <2>2. DOMAIN envs = 1..Len(envs) /\ unsent \subseteq 1..Len(envs)
    BY <1>1 DEF TypeInv
  <2>3. delivered \subseteq Envelopes \X Devices
    BY <1>1, EnvType, Zenon DEF TypeInv
  <2>. QED BY <1>1, <2>1, <2>2, <2>3, Zenon DEF TypeOK, TypeInv
<1>. QED
  BY <1>1, TypeInit, TypeStep, PTL DEF Spec

-----------------------------------------------------------------------------
(* How groups, Welcomes and envelopes change, whatever the step.            *)

GroupMove(p) ==
    \/ group'[p] = group[p]
    \/ /\ Member(p) /\ Member(p)' /\ group'[p].hist = group[p].hist
       /\ group[p].opened \subseteq group'[p].opened
    \/ ~Member(p) /\ Member(p)' /\ group'[p].hist = << >>
    \/ ~Member(p) /\ Member(p)' /\ welcome[p].live /\ group'[p].hist = welcome[p].hist
    \/ /\ Member(p) /\ Member(p)'
       /\ \E q \in Devices : group'[p].hist = Append(group[p].hist, <<p, q>>)
    \/ /\ Member(p) /\ Member(p)'
       /\ \E i \in 1..Len(envs) :
             /\ envs[i].kind = "v3"
             /\ group[p].hist = envs[i].parent /\ group'[p].hist = envs[i].hist

WelcomeMove(p) ==
    welcome'[p].live =>
        \/ welcome'[p] = welcome[p]
        \/ \E m \in Devices : Member(m)' /\ welcome'[p].hist = group'[m].hist

EnvMove ==
    \/ envs' = envs
    \/ \E m \in Devices :
          /\ envs' = Append(envs, Encrypt(m))
          /\ Encrypt(m).kind # "raw" =>
                Member(m)' /\ Encrypt(m).hist = group'[m].hist

(* What does not change moves in the allowed way.                           *)
LEMMA StillMoves ==
    /\ envs' = envs => EnvMove
    /\ \A p \in Devices : group'[p] = group[p] => GroupMove(p)
    /\ \A p \in Devices : welcome'[p] = welcome[p] => WelcomeMove(p)
BY Zenon DEF EnvMove, GroupMove, WelcomeMove

(* Every step moves groups, Welcomes and envelopes in these ways only.      *)
LEMMA Moves ==
    ASSUME TypeInv, [Next]_vars
    PROVE  EnvMove /\ \A p \in Devices : GroupMove(p) /\ WelcomeMove(p)
<1>0. group \in [Devices -> {NoGroup} \cup Live] /\ DOMAIN welcome = Devices
  BY Zenon DEF TypeInv
<1>1. ASSUME NEW m \in Devices, CreateMlsGroup(m)
      PROVE  EnvMove /\ \A p \in Devices : GroupMove(p) /\ WelcomeMove(p)
  <2>1. /\ group' = [group EXCEPT ![m] = GroupAt(<< >>)] /\ ~Member(m)
        /\ welcome' = welcome /\ envs' = envs
    BY <1>1, Zenon DEF CreateMlsGroup, CreatePrivate, membership, Invited
  <2>2. group'[m] = GroupAt(<< >>) /\ \A p \in Devices \ {m} : group'[p] = group[p]
    BY <1>0, <2>1, Zenon
  <2>3. Member(m)' /\ group'[m].hist = << >>
    BY <2>2 DEF Member, GroupAt
  <2>. QED BY <2>1, <2>2, <2>3, Zenon DEF EnvMove, GroupMove, WelcomeMove
<1>2. ASSUME NEW m \in Devices, OpenMlsGroupFromWelcome(m)
      PROVE  EnvMove /\ \A p \in Devices : GroupMove(p) /\ WelcomeMove(p)
  <2>1. /\ welcome[m].live /\ ~Member(m)
        /\ group' = [group EXCEPT ![m] = GroupAt(welcome[m].hist)]
        /\ welcome' = [welcome EXCEPT ![m] = NoWelcome]
        /\ envs' = envs
    BY <1>2, Zenon DEF OpenMlsGroupFromWelcome, JoinFromWelcome, TypeInv
  <2>2. /\ group'[m] = GroupAt(welcome[m].hist)
        /\ \A p \in Devices \ {m} : group'[p] = group[p] /\ welcome'[p] = welcome[p]
        /\ welcome'[m] = NoWelcome
    BY <1>0, <2>1, Zenon
  <2>3. Member(m)' /\ group'[m].hist = welcome[m].hist /\ ~NoWelcome.live
    BY <2>2 DEF Member, GroupAt, NoWelcome
  <2>4. GroupMove(m) /\ WelcomeMove(m)
    BY <2>1, <2>2, <2>3, Zenon DEF GroupMove, WelcomeMove
  <2>. QED BY <2>1, <2>2, <2>4, StillMoves, Zenon
<1>3. ASSUME NEW m \in Devices, NEW p \in Devices, MlsAddMember(m, p)
      PROVE  EnvMove /\ \A q \in Devices : GroupMove(q) /\ WelcomeMove(q)
  <2>. DEFINE h == Append(group[m].hist, <<m, p>>)
  <2>1. /\ Member(m)
        /\ group' = [group EXCEPT ![m] = GroupAt(h)]
        /\ welcome' = [welcome EXCEPT ![p] = WelcomeAt(GroupAt(h).hist)]
        /\ envs' = envs
    BY <1>3, Zenon DEF MlsAddMember, AddMembers
  <2>2. /\ group'[m] = GroupAt(h)
        /\ \A q \in Devices \ {m} : group'[q] = group[q]
        /\ welcome'[p] = WelcomeAt(GroupAt(h).hist)
        /\ \A q \in Devices \ {p} : welcome'[q] = welcome[q]
    BY <1>0, <2>1, Zenon
  <2>. HIDE DEF h
  <2>3. Member(m)' /\ group'[m].hist = h /\ welcome'[p].hist = h
    BY <2>2 DEF Member, GroupAt, WelcomeAt
  <2>4. \A q \in Devices : GroupMove(q)
    <3>1. GroupMove(m)
      BY <2>1, <2>3, Zenon DEF GroupMove, h
    <3>. QED BY <2>2, <3>1, StillMoves, Zenon
  <2>5. \A q \in Devices : WelcomeMove(q)
    <3>1. WelcomeMove(p)
      BY <2>3, Zenon DEF WelcomeMove
    <3>. QED BY <2>2, <3>1, StillMoves, Zenon
  <2>. QED BY <2>1, <2>4, <2>5, Zenon DEF EnvMove
<1>4. ASSUME NEW m \in Devices, SendEncrypt(m)
      PROVE  EnvMove /\ \A p \in Devices : GroupMove(p) /\ WelcomeMove(p)
  <2>1. /\ group' = [group EXCEPT ![m] = GroupAfterEncrypt(m)]
        /\ envs' = Append(envs, Encrypt(m))
        /\ welcome' = welcome
    BY <1>4, Zenon DEF SendEncrypt, membership
  <2>2. group'[m] = GroupAfterEncrypt(m) /\ \A q \in Devices \ {m} : group'[q] = group[q]
    BY <1>0, <2>1, Zenon
  <2>3. /\ Encrypt(m).kind # "raw" =>
             Member(m) /\ Member(m)' /\ group'[m].hist = Encrypt(m).hist
        /\ Encrypt(m).kind = "v3" => group'[m] = GroupAt(Append(group[m].hist, <<m, m>>))
        /\ Encrypt(m).kind # "v3" => group'[m] = group[m]
    BY <2>2, EncryptType, Zenon DEF Member
  <2>4. GroupMove(m)
    <3>1. CASE Encrypt(m).kind # "v3"
      BY <2>3, <3>1, Zenon DEF GroupMove
    <3>2. CASE Encrypt(m).kind = "v3"
      <4>1. PICK h : h = Append(group[m].hist, <<m, m>>)
        BY Zenon
      <4>2. GroupAt(h).hist = h
        BY Zenon DEF GroupAt
      <4>3. group'[m].hist = Append(group[m].hist, <<m, m>>) /\ Member(m) /\ Member(m)'
        BY <2>3, <3>2, <4>1, <4>2, Zenon
      <4>. QED BY <4>3, Zenon DEF GroupMove
    <3>. QED BY <3>1, <3>2, Zenon
  <2>5. EnvMove
    BY <2>1, <2>3, Zenon DEF EnvMove
  <2>. QED BY <2>1, <2>2, <2>4, <2>5, StillMoves, Zenon
<1>5. ASSUME NEW m \in Devices, FetchReceive(m)
      PROVE  EnvMove /\ \A p \in Devices : GroupMove(p) /\ WelcomeMove(p)
  <2>. DEFINE f == Head(stream[m])
              e == envs[f.id]
              after == AfterDecrypt(group[m], e, f.id)
  <2>1. /\ m \in bare \/ Member(m)
        /\ stream[m] # << >>
        /\ group' = IF m \in bare THEN group ELSE [group EXCEPT ![m] = after]
        /\ welcome' = welcome /\ envs' = envs
    BY <1>5, Zenon DEF FetchReceive, membership
  <2>2. f.id \in 1..Len(envs) /\ e \in Envelope /\ WellFormed(e)
    BY <2>1, StreamType, HeadTail, EnvType
  <2>. HIDE DEF f, e, after
  <2>3. CASE m \in bare
    BY <2>1, <2>3, Zenon DEF EnvMove, GroupMove, WelcomeMove
  <2>4. CASE m \notin bare
    <3>1. /\ group'[m] = after /\ group[m] \in Live /\ Member(m)
          /\ \A p \in Devices \ {m} : group'[p] = group[p]
      BY <1>0, <2>1, <2>4, MemberLive, Zenon
    <3>2. GroupMove(m)
      <4>1. CASE Untouched(group[m], after)
        BY <3>1, <4>1, Zenon DEF GroupMove, Untouched
      <4>2. CASE OpenedV2(group[m], e, f.id, after)
        <5>1. /\ group'[m].live /\ group'[m].hist = group[m].hist
              /\ group[m].opened \subseteq group'[m].opened
          BY <3>1, <4>2 DEF OpenedV2
        <5>. QED BY <3>1, <5>1, Zenon DEF GroupMove, Member
      <4>3. CASE OpenedV3(group[m], e, f.id, after)
        <5>1. /\ group'[m].live /\ group'[m].hist = e.hist
              /\ e.kind = "v3" /\ group[m].hist = e.parent
          BY <3>1, <4>3 DEF OpenedV3
        <5>. QED BY <2>2, <3>1, <5>1, Zenon DEF GroupMove, Member, e
      <4>. QED BY <2>2, <3>1, <4>1, <4>2, <4>3, DecryptEffect, Zenon DEF after
    <3>. QED BY <2>1, <3>1, <3>2, StillMoves, Zenon
  <2>. QED BY <2>3, <2>4, Zenon
<1>6. ASSUME UNCHANGED <<group, welcome, envs>>
      PROVE  EnvMove /\ \A p \in Devices : GroupMove(p) /\ WelcomeMove(p)
  BY <1>6, Zenon DEF EnvMove, GroupMove, WelcomeMove
<1>7. ASSUME NEW m \in Devices,
             \/ RegisterRatchet(m) \/ BareFetchStart(m) \/ BareFetchEnds(m)
             \/ ConnectionLost(m)
      PROVE  UNCHANGED <<group, welcome, envs>>
  BY <1>7, Zenon DEF RegisterRatchet, BareFetchStart, BareFetchEnds, ConnectionLost, membership
<1>8. ASSUME NEW id, SendRelayed(id) \/ SendFails(id)
      PROVE  UNCHANGED <<group, welcome, envs>>
  BY <1>8, Zenon DEF SendRelayed, SendFails, membership
<1>9. ASSUME NEW id, NEW m, Redeliver(id, m)
      PROVE  UNCHANGED <<group, welcome, envs>>
  BY <1>9, Zenon DEF Redeliver, membership
<1>10. ASSUME UNCHANGED vars
       PROVE  UNCHANGED <<group, welcome, envs>>
  BY <1>10, Zenon DEF vars, membership
<1>. QED
  BY <1>1, <1>2, <1>3, <1>4, <1>5, <1>6, <1>7, <1>8, <1>9, <1>10, Zenon DEF Next

(* A device in the group stays in it, and only moves on.                    *)
Forward(p) ==
    Member(p) =>
        /\ Member(p)'
        /\ Len(group[p].hist) <= Len(group'[p].hist)
        /\ Len(group'[p].hist) = Len(group[p].hist) =>
              /\ group'[p].hist = group[p].hist
              /\ group[p].opened \subseteq group'[p].opened

EnvsGrow ==
    /\ Len(envs) <= Len(envs')
    /\ \A i \in 1..Len(envs) : envs'[i] = envs[i] /\ i \in 1..Len(envs')

(* A device in the group never leaves it or goes back.                      *)
LEMMA StepForward ==
    ASSUME TypeInv, [Next]_vars, NEW p \in Devices
    PROVE  Forward(p)
<1>1. SUFFICES ASSUME Member(p) PROVE Forward(p)
  BY Zenon DEF Forward
<1>2. group[p].hist \in History /\ Len(group[p].hist) \in Nat
  BY <1>1, MemberHist, Zenon
<1>3. GroupMove(p)
  BY Moves, Zenon
<1>4. CASE group'[p] = group[p]
  BY <1>1, <1>2, <1>4 DEF Forward, Member
<1>5. CASE /\ Member(p)' /\ group'[p].hist = group[p].hist
           /\ group[p].opened \subseteq group'[p].opened
  BY <1>2, <1>5 DEF Forward
<1>6. CASE Member(p)' /\ \E q \in Devices : group'[p].hist = Append(group[p].hist, <<p, q>>)
  <2>1. PICK h \in History, q \in Devices :
           h = group[p].hist /\ group'[p].hist = Append(h, <<p, q>>)
    BY <1>2, <1>6, Zenon
  <2>2. Len(Append(h, <<p, q>>)) = Len(h) + 1
    BY AppendType, Zenon
  <2>3. Len(group'[p].hist) = Len(group[p].hist) + 1
    BY <2>1, <2>2, Zenon
  <2>. QED BY <1>2, <1>6, <2>3, SMTT(60) DEF Forward
<1>7. CASE /\ Member(p)'
           /\ \E i \in 1..Len(envs) :
                /\ envs[i].kind = "v3"
                /\ group[p].hist = envs[i].parent /\ group'[p].hist = envs[i].hist
  <2>1. PICK i \in 1..Len(envs) :
           /\ envs[i].kind = "v3"
           /\ group[p].hist = envs[i].parent /\ group'[p].hist = envs[i].hist
    BY <1>7, Zenon
  <2>2. /\ envs[i].hist = Append(envs[i].parent, <<envs[i].from, envs[i].from>>)
        /\ envs[i].from \in Devices
    BY <2>1, EnvType, Zenon DEF WellFormed
  <2>3. PICK h \in History, a \in Devices : h = envs[i].parent /\ a = envs[i].from
    BY <1>2, <2>1, <2>2, Zenon
  <2>4. Len(Append(h, <<a, a>>)) = Len(h) + 1
    BY AppendType, Zenon
  <2>5. Len(group'[p].hist) = Len(group[p].hist) + 1
    BY <2>1, <2>2, <2>3, <2>4, Zenon
  <2>. QED BY <1>2, <1>7, <2>5 DEF Forward
<1>. QED
  BY <1>1, <1>3, <1>4, <1>5, <1>6, <1>7, Zenon DEF GroupMove

(* Envelopes are never taken back or changed.                               *)
LEMMA StepEnvs ==
    ASSUME TypeInv, [Next]_vars
    PROVE  EnvsGrow
<1>1. envs \in Seq(Envelope) /\ Len(envs) \in Nat
  BY EnvType, Zenon DEF TypeInv
<1>2. CASE envs' = envs
  BY <1>1, <1>2 DEF EnvsGrow
<1>3. ASSUME NEW m \in Devices, envs' = Append(envs, Encrypt(m))
      PROVE  EnvsGrow
  <2>1. /\ Len(envs') = Len(envs) + 1
        /\ \A i \in 1..Len(envs) : envs'[i] = envs[i]
    BY <1>1, <1>3, AppendSeq, EncryptType
  <2>2. \A i \in 1..Len(envs) : i \in 1..Len(envs')
    BY <1>1, <2>1
  <2>. QED BY <1>1, <2>1, <2>2 DEF EnvsGrow
<1>. QED
  BY <1>2, <1>3, Moves, Zenon DEF EnvMove

-----------------------------------------------------------------------------
(* Authors stay ahead of their commits.                                     *)

(* Authors that only move on stay ahead of a history they were ahead of.    *)
LEMMA AheadStays ==
    ASSUME TypeInv, TypeInv', NEW h \in History, Ahead(group, h),
           \A p \in Devices : Forward(p)
    PROVE  Ahead(group', h)
<1>1. SUFFICES ASSUME NEW k \in 1..Len(h)
               PROVE  group'[h[k][1]].live /\ Len(group'[h[k][1]].hist) >= k
  BY Zenon DEF Ahead
<1>2. h[k] \in Devices \X Devices
  BY DEF History
<1>3. PICK a \in Devices : a = h[k][1]
  BY <1>2, Zenon
<1>4. Member(a) /\ Len(group[a].hist) >= k
  BY <1>3, Zenon DEF Ahead, Member
<1>5. Member(a)' /\ Len(group'[a].hist) >= Len(group[a].hist)
  BY <1>4, Zenon DEF Forward
<1>6. Len(group[a].hist) \in Nat
  BY <1>4, MemberHist, Zenon
<1>7. Len(group'[a].hist) \in Nat
  <2>1. group'[a] \in {NoGroup} \cup Live /\ ~NoGroup.live
    BY Zenon DEF TypeInv, NoGroup
  <2>2. group'[a] \in Live
    BY <1>5, <2>1, Zenon DEF Member
  <2>. QED BY <2>2 DEF Live, History
<1>. QED
  BY <1>3, <1>4, <1>5, <1>6, <1>7 DEF Member

(* An author that has merged its new commit is ahead of it too.             *)
LEMMA AheadAppend ==
    ASSUME NEW h \in History, NEW a \in Devices, NEW b \in Devices,
           Ahead(group', h), Member(a)', Len(group'[a].hist) >= Len(h) + 1
    PROVE  Ahead(group', Append(h, <<a, b>>))
<1>. DEFINE g == Append(h, <<a, b>>)
<1>1. /\ Len(h) \in Nat /\ Len(g) = Len(h) + 1 /\ g[Len(h) + 1] = <<a, b>>
      /\ \A k \in 1..Len(h) : g[k] = h[k]
  BY AppendType, Zenon
<1>. HIDE DEF g
<1>2. SUFFICES ASSUME NEW k \in 1..Len(g)
               PROVE  group'[g[k][1]].live /\ Len(group'[g[k][1]].hist) >= k
  BY Zenon DEF Ahead, g
<1>3. CASE k \in 1..Len(h)
  BY <1>1, <1>3, Zenon DEF Ahead
<1>4. CASE k = Len(h) + 1
  BY <1>1, <1>4 DEF Member
<1>. QED
  BY <1>1, <1>3, <1>4

(* Every step keeps authors ahead of their commits.                         *)
LEMMA AheadStep ==
    ASSUME TypeInv, TypeInv', AheadInv, [Next]_vars
    PROVE  AheadInv'
<1>1. \A p \in Devices : Forward(p)
  BY StepForward, Zenon
<1>2. ASSUME NEW p \in Devices, Member(p)'
      PROVE  Ahead(group', group'[p].hist)
  <2>1. Member(p) => /\ group[p].hist \in History /\ Ahead(group, group[p].hist)
                     /\ Ahead(group', group[p].hist)
    <3>1. Member(p) => group[p].hist \in History /\ Ahead(group, group[p].hist)
      BY MemberLive, Zenon DEF Live, AheadInv
    <3>. QED BY <1>1, <3>1, AheadStays, Zenon
  <2>2. CASE group'[p] = group[p]
    BY <1>2, <2>1, <2>2, Zenon DEF Member
  <2>3. CASE Member(p) /\ group'[p].hist = group[p].hist
    BY <2>1, <2>3, Zenon
  <2>4. CASE group'[p].hist = << >>
    BY <2>4 DEF Ahead
  <2>5. CASE welcome[p].live /\ group'[p].hist = welcome[p].hist
    <3>1. welcome[p].hist \in History /\ Ahead(group, welcome[p].hist)
      BY <2>5, MemberLive, Zenon DEF Waiting, AheadInv
    <3>. QED BY <1>1, <2>5, <3>1, AheadStays, Zenon
  <2>6. CASE Member(p) /\ \E q \in Devices : group'[p].hist = Append(group[p].hist, <<p, q>>)
    <3>1. PICK q \in Devices : group'[p].hist = Append(group[p].hist, <<p, q>>)
      BY <2>6, Zenon
    <3>2. PICK h \in History :
             /\ h = group[p].hist /\ group'[p].hist = Append(h, <<p, q>>)
             /\ Ahead(group', h)
      BY <2>1, <2>6, <3>1, Zenon
    <3>3. Len(Append(h, <<p, q>>)) = Len(h) + 1 /\ Len(h) + 1 \in Nat
      BY AppendType, Zenon
    <3>4. Len(group'[p].hist) >= Len(h) + 1
      <4>1. Len(group'[p].hist) = Len(h) + 1
        BY <3>2, <3>3, Zenon
      <4>. QED BY <3>3, <4>1
    <3>5. Ahead(group', Append(h, <<p, q>>))
      BY <1>2, <3>2, <3>4, AheadAppend, Zenon
    <3>. QED BY <3>2, <3>5, Zenon
  <2>7. CASE \E i \in 1..Len(envs) : envs[i].kind = "v3" /\ group'[p].hist = envs[i].hist
    <3>1. PICK i \in 1..Len(envs) : envs[i].kind = "v3" /\ group'[p].hist = envs[i].hist
      BY <2>7, Zenon
    <3>2. envs[i].hist \in History /\ Ahead(group, envs[i].hist)
      BY <3>1, EnvType, Zenon DEF AheadInv
    <3>. QED BY <1>1, <3>1, <3>2, AheadStays, Zenon
  <2>. QED BY <2>2, <2>3, <2>4, <2>5, <2>6, <2>7, Moves, Zenon DEF GroupMove
<1>3. ASSUME NEW p \in Devices, welcome'[p].live
      PROVE  Ahead(group', welcome'[p].hist)
  <2>1. CASE welcome'[p] = welcome[p]
    <3>1. welcome[p].hist \in History /\ Ahead(group, welcome[p].hist)
      BY <1>3, <2>1, MemberLive, Zenon DEF Waiting, AheadInv
    <3>. QED BY <1>1, <2>1, <3>1, AheadStays, Zenon
  <2>2. CASE \E m \in Devices : Member(m)' /\ welcome'[p].hist = group'[m].hist
    BY <1>2, <2>2, Zenon
  <2>. QED BY <1>3, <2>1, <2>2, Moves, Zenon DEF WelcomeMove
<1>4. ASSUME NEW i \in 1..Len(envs'), envs'[i].kind # "raw"
      PROVE  Ahead(group', envs'[i].hist)
  <2>1. CASE i \in 1..Len(envs)
    <3>1. envs'[i] = envs[i]
      BY <2>1, StepEnvs, Zenon DEF EnvsGrow
    <3>2. envs[i].hist \in History /\ Ahead(group, envs[i].hist)
      BY <1>4, <2>1, <3>1, EnvType, Zenon DEF AheadInv
    <3>. QED BY <1>1, <3>1, <3>2, AheadStays, Zenon
  <2>2. CASE i \notin 1..Len(envs)
    <3>1. PICK m \in Devices :
             /\ envs' = Append(envs, Encrypt(m))
             /\ Encrypt(m).kind # "raw" => Member(m)' /\ Encrypt(m).hist = group'[m].hist
      BY <1>4, <2>2, Moves, Zenon DEF EnvMove
    <3>2. envs \in Seq(Envelope) /\ Len(envs) \in Nat /\ Encrypt(m) \in Envelope
      BY EnvType, EncryptType, Zenon DEF TypeInv
    <3>3. i = Len(envs) + 1 /\ envs'[i] = Encrypt(m)
      BY <1>4, <2>2, <3>1, <3>2, AppendSeq
    <3>. QED BY <1>2, <1>4, <3>1, <3>3, Zenon
  <2>. QED BY <2>1, <2>2, Zenon
<1>. QED
  BY <1>2, <1>3, <1>4, Zenon DEF AheadInv

(* At the start there are no commits.                                       *)
LEMMA AheadInit == Init => AheadInv
<1>1. SUFFICES ASSUME Init PROVE AheadInv
  BY Zenon
<1>2. ~NoGroup.live /\ ~NoWelcome.live
  BY Zenon DEF NoGroup, NoWelcome
<1>. QED
  BY <1>1, <1>2 DEF Init, AheadInv, Member

(* Whoever sent with the ratchet has its ratchet state registered.          *)
RatchetInv ==
    \A i \in 1..Len(envs) : envs[i].kind = "v3" => ~secret /\ envs[i].from \in ratchet

(* A registered ratchet state stays.                                        *)
LEMMA RatchetStays ==
    ASSUME [Next]_vars
    PROVE  secret' = secret /\ ratchet \subseteq ratchet'
<1>1. ASSUME NEW m \in Devices, RegisterRatchet(m)
      PROVE  secret' = secret /\ ratchet \subseteq ratchet'
  BY <1>1 DEF RegisterRatchet
<1>2. ASSUME NEW m \in Devices,
             \/ CreateMlsGroup(m) \/ OpenMlsGroupFromWelcome(m) \/ SendEncrypt(m)
             \/ BareFetchStart(m) \/ BareFetchEnds(m) \/ FetchReceive(m)
             \/ ConnectionLost(m)
      PROVE  secret' = secret /\ ratchet' = ratchet
  BY <1>2, Zenon DEF CreateMlsGroup, OpenMlsGroupFromWelcome, SendEncrypt, BareFetchStart,
       BareFetchEnds, FetchReceive, ConnectionLost, membership
<1>3. ASSUME NEW m \in Devices, NEW p \in Devices, MlsAddMember(m, p)
      PROVE  secret' = secret /\ ratchet' = ratchet
  BY <1>3, Zenon DEF MlsAddMember
<1>4. ASSUME NEW id \in DOMAIN envs, SendRelayed(id) \/ SendFails(id)
      PROVE  secret' = secret /\ ratchet' = ratchet
  BY <1>4, Zenon DEF SendRelayed, SendFails, membership
<1>5. ASSUME NEW id \in DOMAIN envs, NEW m \in Devices, Redeliver(id, m)
      PROVE  secret' = secret /\ ratchet' = ratchet
  BY <1>5, Zenon DEF Redeliver, membership
<1>6. ASSUME UNCHANGED vars PROVE secret' = secret /\ ratchet' = ratchet
  BY <1>6, Zenon DEF vars, membership
<1>7. secret' = secret /\ (ratchet' = ratchet \/ ratchet \subseteq ratchet')
  BY <1>1, <1>2, <1>3, <1>4, <1>5, <1>6, Zenon DEF Next
<1>. QED BY <1>7

(* What a device sends shows whether its ratchet state is registered.       *)
LEMMA KindOfText ==
    ASSUME NEW m \in Devices
    PROVE  /\ Encrypt(m).kind = "v3" => Ratchets(m)
           /\ Encrypt(m).kind = "v2" => ~Ratchets(m)
BY DEF Encrypt, Raw, EncryptApplication, EncryptWithRekeyAuthenticated

(* Only a sender with a registered ratchet state writes v3.                 *)
LEMMA RatchetStep ==
    ASSUME TypeInv, RatchetInv, [Next]_vars
    PROVE  RatchetInv'
<1>1. secret' = secret /\ ratchet \subseteq ratchet'
  BY RatchetStays, Zenon
<1>2. SUFFICES ASSUME NEW i \in 1..Len(envs'), envs'[i].kind = "v3"
               PROVE  ~secret /\ envs'[i].from \in ratchet
  BY <1>1, Zenon DEF RatchetInv
<1>3. CASE i \in 1..Len(envs)
  <2>1. envs'[i] = envs[i]
    BY <1>3, StepEnvs, Zenon DEF EnvsGrow
  <2>. QED BY <1>2, <1>3, <2>1, Zenon DEF RatchetInv
<1>4. CASE i \notin 1..Len(envs)
  <2>1. PICK m \in Devices : envs' = Append(envs, Encrypt(m))
    BY <1>2, <1>4, Moves, Zenon DEF EnvMove
  <2>2. envs \in Seq(Envelope) /\ Len(envs) \in Nat /\ Encrypt(m) \in Envelope
    BY EnvType, EncryptType, Zenon DEF TypeInv
  <2>3. envs'[i] = Encrypt(m)
    BY <1>2, <1>4, <2>1, <2>2, AppendSeq
  <2>4. Ratchets(m) /\ Encrypt(m).from = m
    BY <1>2, <2>3, KindOfText, EncryptType, Zenon
  <2>. QED BY <2>3, <2>4, Zenon DEF Ratchets
<1>. QED BY <1>3, <1>4, Zenon

(* encrypt_with_rekey gives every text it encrypts a new epoch: a device    *)
(* that rekeys has never committed from its present state before, and       *)
(* nobody else commits in its name.  A plain text in that epoch is of       *)
(* another device, because a registered ratchet state stays registered.     *)
THEOREM EpochPerTextHolds == Spec => []EpochPerText
<1>. DEFINE Inv == TypeInv /\ AheadInv /\ RatchetInv /\ EpochPerText
<1>1. ASSUME Init PROVE Inv
  <2>1. DOMAIN envs = {}
    BY <1>1 DEF Init
  <2>2. 1..Len(envs) = {}
    BY <1>1 DEF Init
  <2>. QED BY <1>1, <2>1, <2>2, TypeInit, AheadInit, Zenon DEF EpochPerText, RatchetInv
<1>2. ASSUME Inv, [Next]_vars PROVE Inv'
  <2>1. TypeInv'
    BY <1>2, TypeStep, Zenon
  <2>2. AheadInv'
    BY <1>2, <2>1, AheadStep, Zenon
  <2>3. DOMAIN envs = 1..Len(envs) /\ DOMAIN envs' = 1..Len(envs')
    BY <1>2, <2>1 DEF TypeInv
  <2>r. RatchetInv'
    BY <1>2, RatchetStep, Zenon
  <2>4. SUFFICES ASSUME NEW i \in 1..Len(envs'), NEW j \in 1..Len(envs'), i < j,
                        envs'[i].kind \in {"v2", "v3"}, envs'[j].kind \in {"v2", "v3"},
                        envs'[i].hist = envs'[j].hist
                 PROVE  /\ envs'[j].kind = "v2"
                        /\ envs'[i].kind = "v3" => envs'[i].from # envs'[j].from
    BY <2>1, <2>2, <2>3, <2>r, Zenon DEF EpochPerText
  <2>5. CASE j \in 1..Len(envs)
    <3>1. i \in 1..Len(envs)
      BY <1>2, <2>4, <2>5, EnvType
    <3>2. envs'[i] = envs[i] /\ envs'[j] = envs[j]
      BY <1>2, <2>5, <3>1, StepEnvs, Zenon DEF EnvsGrow
    <3>. QED BY <1>2, <2>3, <2>4, <2>5, <3>1, <3>2, Zenon DEF EpochPerText
  <2>6. CASE j \notin 1..Len(envs)
    <3>1. PICK m \in Devices : envs' = Append(envs, Encrypt(m))
      BY <1>2, <2>4, <2>6, Moves, Zenon DEF EnvMove
    <3>2. envs \in Seq(Envelope) /\ Len(envs) \in Nat /\ Encrypt(m) \in Envelope
      BY <1>2, EnvType, EncryptType, Zenon DEF TypeInv
    <3>3. j = Len(envs) + 1 /\ envs'[j] = Encrypt(m) /\ i \in 1..Len(envs)
      BY <2>4, <2>6, <3>1, <3>2, AppendSeq
    <3>k. envs[i].kind # "raw" /\ Encrypt(m).kind # "raw"
      <4>1. envs'[i] = envs[i]
        BY <1>2, <3>3, StepEnvs, Zenon DEF EnvsGrow
      <4>. QED BY <2>4, <3>3, <4>1
    <3>4. envs'[i] = envs[i] /\ Ahead(group, envs[i].hist)
      BY <1>2, <3>k, <3>3, StepEnvs, Zenon DEF EnvsGrow, AheadInv
    <3>v2. CASE Encrypt(m).kind = "v2"
      <4>1. ~Ratchets(m) /\ Encrypt(m).from = m
        BY <1>2, <3>v2, KindOfText, EncryptType, Zenon
      <4>2. envs[i].kind = "v3" => ~secret /\ envs[i].from \in ratchet
        BY <1>2, <3>3, Zenon DEF RatchetInv
      <4>. QED BY <3>3, <3>4, <3>v2, <4>1, <4>2, Zenon DEF Ratchets
    <3>v3. CASE Encrypt(m).kind = "v3"
      <4>1. /\ Member(m)
            /\ GroupAfterEncrypt(m) = GroupAt(Append(group[m].hist, <<m, m>>))
            /\ GroupAfterEncrypt(m).hist = Encrypt(m).hist
        BY <1>2, <3>k, <3>v3, EncryptType
      <4>2. PICK h \in History : h = group[m].hist /\ Encrypt(m).hist = Append(h, <<m, m>>)
        <5>1. PICK h \in History : h = group[m].hist
          BY <1>2, <4>1, MemberHist, Zenon
        <5>2. GroupAt(Append(h, <<m, m>>)).hist = Append(h, <<m, m>>)
          BY Zenon DEF GroupAt
        <5>. QED BY <4>1, <5>1, <5>2, Zenon
      <4>3. envs[i].hist = Append(h, <<m, m>>)
        BY <2>4, <3>3, <3>4, <4>2, Zenon
      <4>4. PICK k : k = Len(h) + 1
        BY Zenon
      <4>5. /\ k \in 1..Len(Append(h, <<m, m>>)) /\ Append(h, <<m, m>>)[k] = <<m, m>>
            /\ ~(Len(h) >= k)
        BY <4>4, AppendType
      <4>6. Len(group[envs[i].hist[k][1]].hist) >= k
        BY <3>4, <4>3, <4>5, Zenon DEF Ahead
      <4>7. envs[i].hist[k][1] = m
        BY <4>3, <4>5
      <4>. QED BY <4>2, <4>5, <4>6, <4>7, Zenon
    <3>. QED BY <2>4, <3>3, <3>v2, <3>v3
  <2>. QED BY <2>5, <2>6, Zenon
<1>. QED
  BY <1>1, <1>2, PTL DEF Spec

-----------------------------------------------------------------------------
(* What a device opened stays opened.                                       *)

(* A device that is past an envelope stays past it.                         *)
LEMMA PastStays ==
    ASSUME TypeInv, TypeInv', [Next]_vars, NEW m \in Devices, NEW id \in 1..Len(envs),
           Past(m, id)
    PROVE  Past(m, id)'
<1>1. Member(m) /\ Forward(m) /\ envs'[id] = envs[id]
  BY StepForward, StepEnvs, Zenon DEF Past, EnvsGrow
<1>2. /\ Member(m)'
      /\ Len(group[m].hist) <= Len(group'[m].hist)
      /\ Len(group'[m].hist) = Len(group[m].hist) =>
              /\ group'[m].hist = group[m].hist
              /\ group[m].opened \subseteq group'[m].opened
  BY <1>1, Zenon DEF Forward
<1>3. Len(group[m].hist) \in Nat /\ Len(envs[id].hist) \in Nat
  BY <1>1, MemberHist, EnvType, Zenon
<1>4. (Len(group[m].hist) \in Nat)'
  <2>1. group'[m] \in {NoGroup} \cup Live /\ ~NoGroup.live
    BY Zenon DEF TypeInv, NoGroup
  <2>2. group'[m] \in Live
    BY <1>2, <2>1, Zenon DEF Member
  <2>. QED BY <2>2 DEF Live, History
<1>5. Len(group[m].hist) >= Len(envs[id].hist)
  BY Zenon DEF Past
<1>6. CASE Len(group'[m].hist) = Len(group[m].hist)
  BY <1>1, <1>2, <1>3, <1>4, <1>5, <1>6, Zenon DEF Past
<1>7. CASE Len(group'[m].hist) > Len(group[m].hist)
  <2>1. PICK i \in Nat, j \in Nat, k \in Nat :
           i = Len(group'[m].hist) /\ j = Len(group[m].hist) /\ k = Len(envs[id].hist)
    BY <1>3, <1>4, Zenon
  <2>2. i > j /\ j >= k
    BY <1>5, <1>7, <2>1, Zenon
  <2>3. i >= k /\ i # k
    BY <2>2
  <2>4. group'[m].hist # envs'[id].hist /\ Len(group'[m].hist) >= Len(envs'[id].hist)
    BY <1>1, <2>1, <2>3, Zenon
  <2>. QED BY <1>2, <2>4, Zenon DEF Past
<1>. QED
  BY <1>2, <1>3, <1>4, <1>6, <1>7

(* Past is what it says: decryption fails and leaves the group alone.       *)
LEMMA PastCloses ==
    ASSUME TypeInv, NEW m \in Devices, NEW id \in 1..Len(envs),
           envs[id].kind # "raw", Past(m, id)
    PROVE  /\ Decrypted(group[m], envs[id], id) # "text"
           /\ AfterDecrypt(group[m], envs[id], id) = group[m]
<1>. DEFINE e == envs[id]
            g == group[m]
<1>1. /\ g \in Live /\ g.hist \in History /\ e \in Envelope /\ WellFormed(e)
      /\ Len(g.hist) \in Nat /\ Len(e.hist) \in Nat /\ e.parent \in History
      /\ e.from \in Devices
  BY MemberLive, MemberHist, EnvType, Zenon DEF Past
<1>2. Len(g.hist) >= Len(e.hist) /\ (g.hist = e.hist => id \in g.opened)
  BY Zenon DEF Past
<1>3. e.kind \in {"v2", "v3"}
  BY <1>1, Zenon DEF Envelope
<1>. HIDE DEF g, e
<1>4. CASE e.kind = "v2"
  <2>1. ~OpenedV2(g, e, id, AfterDecrypt(g, e, id)) /\ ~OpenedV3(g, e, id, AfterDecrypt(g, e, id))
    BY <1>2, <1>4, Zenon DEF OpenedV2, OpenedV3
  <2>2. Untouched(g, AfterDecrypt(g, e, id)) /\ Decrypted(g, e, id) # "text"
    BY <1>1, <1>4, <2>1, DecryptEffect, Zenon
  <2>. QED BY <2>2, Zenon DEF Untouched, g, e
<1>5. CASE e.kind = "v3"
  <2>1. Len(e.hist) = Len(e.parent) + 1 /\ Len(e.parent) \in Nat
    BY <1>1, <1>5, AppendType DEF WellFormed
  <2>2. g.hist # e.parent
    BY <1>1, <1>2, <2>1
  <2>3. ~OpenedV2(g, e, id, AfterDecrypt(g, e, id)) /\ ~OpenedV3(g, e, id, AfterDecrypt(g, e, id))
    BY <1>5, <2>2, Zenon DEF OpenedV2, OpenedV3
  <2>4. Untouched(g, AfterDecrypt(g, e, id)) /\ Decrypted(g, e, id) # "text"
    BY <1>1, <1>5, <2>3, DecryptEffect, Zenon
  <2>. QED BY <2>4, Zenon DEF Untouched, g, e
<1>. QED
  BY <1>3, <1>4, <1>5, Zenon

(* The turn of the fetch loop in other words.                               *)
LEMMA FetchFacts ==
    ASSUME TypeInv, NEW m \in Devices, FetchReceive(m)
    PROVE  LET f == stream[m][1]
               e == envs[f.id]
               outcome == IF m \in bare THEN Undecrypted(e) ELSE Decrypted(group[m], e, f.id)
           IN  /\ m \in bare \/ Member(m)
               /\ stream[m] # << >> /\ 1 \in 1..Len(stream[m]) /\ Head(stream[m]) = f
               /\ f \in Messages /\ f.id \in 1..Len(envs) /\ f.again \in BOOLEAN
               /\ e \in Envelope /\ WellFormed(e)
               /\ shown' = IF outcome = "dropped" THEN shown
                           ELSE [shown EXCEPT ![m] = @ \cup {[id |-> f.id, as |-> outcome]}]
               /\ m \in bare => group' = group
               /\ m \notin bare =>
                     /\ group[m] \in Live
                     /\ group' = [group EXCEPT ![m] = AfterDecrypt(group[m], e, f.id)]
                     /\ group'[m] = AfterDecrypt(group[m], e, f.id)
               /\ \A p \in Devices \ {m} : group'[p] = group[p] /\ stream'[p] = stream[p]
               /\ stream'[m] = Tail(stream[m])
               /\ crossed' = (crossed \/ (IsUnread(f) /\ m \in bare))
               /\ UNCHANGED <<secret, ratchet, welcome, bare, envs, unsent, delivered>>
<1>. DEFINE f == Head(stream[m])
            e == envs[f.id]
            outcome == IF m \in bare THEN Undecrypted(e) ELSE Decrypted(group[m], e, f.id)
<1>1. /\ m \in bare \/ Member(m)
      /\ stream[m] # << >>
      /\ shown' = IF outcome = "dropped" THEN shown
                  ELSE [shown EXCEPT ![m] = @ \cup {[id |-> f.id, as |-> outcome]}]
      /\ group' = IF m \in bare THEN group
                  ELSE [group EXCEPT ![m] = AfterDecrypt(group[m], e, f.id)]
      /\ stream' = [stream EXCEPT ![m] = Tail(@)]
      /\ crossed' = (crossed \/ (IsUnread(f) /\ m \in bare))
      /\ UNCHANGED <<secret, ratchet, welcome, bare, envs, unsent, delivered>>
  BY Zenon DEF FetchReceive, membership
<1>2. /\ 1 \in 1..Len(stream[m]) /\ f = stream[m][1]
      /\ f \in Messages /\ f.id \in 1..Len(envs) /\ f.again \in BOOLEAN
  BY <1>1, StreamType, HeadTail, Zenon
<1>3. e \in Envelope /\ WellFormed(e)
  BY <1>2, EnvType, Zenon
<1>4. DOMAIN group = Devices /\ DOMAIN stream = Devices
  BY Zenon DEF TypeInv
<1>5. m \notin bare => group[m] \in Live
  BY <1>1, MemberLive, Zenon
<1>. HIDE DEF f, e, outcome
<1>6. /\ m \in bare => group' = group
      /\ m \notin bare =>
            /\ group' = [group EXCEPT ![m] = AfterDecrypt(group[m], e, f.id)]
            /\ group'[m] = AfterDecrypt(group[m], e, f.id)
      /\ \A p \in Devices \ {m} : group'[p] = group[p] /\ stream'[p] = stream[p]
      /\ stream'[m] = Tail(stream[m])
  BY <1>1, <1>4, Zenon
<1>. QED
  BY <1>1, <1>2, <1>3, <1>5, <1>6, Zenon DEF e, outcome, f

(* A device that opened a message is past it.                               *)
LEMMA OpeningPast ==
    ASSUME TypeInv, NEW m \in Devices, FetchReceive(m), m \notin bare,
           NEW id, id = stream[m][1].id, envs[id].kind # "raw",
           Decrypted(group[m], envs[id], id) = "text"
    PROVE  /\ Past(m, id)'
           /\ group'[m].hist = envs[id].hist
           /\ \/ group'[m].opened = group[m].opened \cup {id}
              \/ group'[m].opened = {id}
<1>. DEFINE e == envs[id]
<1>1. /\ id \in 1..Len(envs) /\ e \in Envelope /\ WellFormed(e) /\ group[m] \in Live
      /\ group'[m] = AfterDecrypt(group[m], e, id) /\ envs' = envs
  BY FetchFacts, Zenon
<1>2. e.hist \in History /\ Len(e.hist) \in Nat
  BY <1>1, EnvType, Zenon
<1>3. e.kind # "raw" /\ Decrypted(group[m], e, id) = "text" /\ envs'[id].hist = e.hist
  BY <1>1, Zenon
<1>. HIDE DEF e
<1>4. OpenedV2(group[m], e, id, group'[m]) \/ OpenedV3(group[m], e, id, group'[m])
  BY <1>1, <1>3, DecryptEffect, Zenon
<1>5. /\ group'[m].live /\ group'[m].hist = e.hist /\ id \in group'[m].opened
      /\ \/ group'[m].opened = group[m].opened \cup {id}
         \/ group'[m].opened = {id}
  BY <1>4 DEF OpenedV2, OpenedV3
<1>6. Past(m, id)'
  BY <1>2, <1>3, <1>5 DEF Past, Member
<1>. QED
  BY <1>5, <1>6, Zenon DEF e

(* Every step keeps devices past the texts they were shown.                 *)
LEMMA ShownStep ==
    ASSUME TypeInv, TypeInv', ShownInv, [Next]_vars
    PROVE  ShownInv'
<1>1. SUFFICES ASSUME NEW m \in Devices, NEW d \in shown'[m],
                      d.as = "text", envs'[d.id].kind # "raw"
               PROVE  Past(m, d.id)'
  BY Zenon DEF ShownInv
<1>2. CASE d \in shown[m]
  <2>1. d.id \in 1..Len(envs) /\ envs'[d.id] = envs[d.id]
    BY <1>2, StepEnvs, Zenon DEF TypeInv, EnvsGrow
  <2>2. Past(m, d.id)
    BY <1>1, <1>2, <2>1, Zenon DEF ShownInv
  <2>. QED BY <2>1, <2>2, PastStays, Zenon
<1>3. CASE d \notin shown[m]
  <2>1. FetchReceive(m)
    <3>1. shown'[m] # shown[m]
      BY <1>3, Zenon
    <3>2. ASSUME NEW p \in Devices, FetchReceive(p) PROVE p = m
      <4>1. DOMAIN shown = Devices
        BY Zenon DEF TypeInv
      <4>2. shown' = shown \/ \E x : shown' = [shown EXCEPT ![p] = x]
        BY <3>2, Zenon DEF FetchReceive
      <4>3. \A q \in Devices \ {p} : shown'[q] = shown[q]
        BY <4>1, <4>2, Zenon
      <4>. QED BY <3>1, <4>3, Zenon
    <3>3. ASSUME NEW p \in Devices,
                 \/ CreateMlsGroup(p) \/ OpenMlsGroupFromWelcome(p) \/ RegisterRatchet(p)
                 \/ SendEncrypt(p) \/ BareFetchStart(p) \/ BareFetchEnds(p)
                 \/ ConnectionLost(p)
          PROVE  shown' = shown
      BY <3>3, Zenon DEF CreateMlsGroup, OpenMlsGroupFromWelcome, RegisterRatchet, SendEncrypt,
                  BareFetchStart, BareFetchEnds, ConnectionLost
    <3>4. ASSUME NEW p, NEW q, MlsAddMember(p, q) \/ Redeliver(p, q) PROVE shown' = shown
      BY <3>4, Zenon DEF MlsAddMember, Redeliver
    <3>5. ASSUME NEW id, SendRelayed(id) \/ SendFails(id) PROVE shown' = shown
      BY <3>5, Zenon DEF SendRelayed, SendFails
    <3>. QED BY <3>1, <3>2, <3>3, <3>4, <3>5, Zenon DEF Next, vars
  <2>2. PICK id : id = stream[m][1].id
    BY Zenon
  <2>. DEFINE e == envs[id]
              outcome == IF m \in bare THEN Undecrypted(e) ELSE Decrypted(group[m], e, id)
  <2>3. /\ shown' = IF outcome = "dropped" THEN shown
                    ELSE [shown EXCEPT ![m] = @ \cup {[id |-> id, as |-> outcome]}]
        /\ envs' = envs
    BY <2>1, <2>2, FetchFacts, Zenon
  <2>. HIDE DEF outcome
  <2>4. d = [id |-> id, as |-> outcome]
    BY <1>3, <2>3, Zenon DEF TypeInv
  <2>5. d.id = id /\ outcome = "text" /\ e.kind # "raw"
    BY <1>1, <2>3, <2>4, Zenon
  <2>6. m \notin bare /\ Decrypted(group[m], e, id) = "text"
    BY <2>5, Zenon DEF outcome, Undecrypted
  <2>7. Past(m, id)'
    BY <2>1, <2>2, <2>5, <2>6, OpeningPast, Zenon
  <2>. QED BY <2>5, <2>7, Zenon
<1>. QED
  BY <1>2, <1>3, Zenon

(* process_incoming opens an encrypted text at most once: the key of the    *)
(* message is gone, or the epoch is, whatever is sent, received, repeated   *)
(* or lost afterwards.                                                      *)
THEOREM ShownOnceHolds == Spec => []ShownOnce
<1>. DEFINE Inv == TypeInv /\ ShownInv
<1>1. ASSUME Init PROVE Inv
  BY <1>1, TypeInit, Zenon DEF Init, ShownInv
<1>2. ASSUME Inv, [Next]_vars PROVE Inv'
  BY <1>2, TypeStep, ShownStep, Zenon
<1>3. ASSUME Inv PROVE ShownOnce
  <2>1. SUFFICES ASSUME NEW m \in Devices, NEW d \in shown[m], Member(m),
                        d.as = "text", envs[d.id].kind # "raw"
                 PROVE  Decrypted(group[m], envs[d.id], d.id) # "text"
    BY Zenon DEF ShownOnce
  <2>2. d.id \in 1..Len(envs) /\ Past(m, d.id)
    BY <1>3, <2>1, Zenon DEF TypeInv, ShownInv
  <2>. QED BY <1>3, <2>1, <2>2, PastCloses, Zenon
<1>. QED
  BY <1>1, <1>2, <1>3, PTL DEF Spec

-----------------------------------------------------------------------------
(* Chains of unread messages.                                               *)

(* Only the messages before i count.                                        *)
LEMMA AtPrefix ==
    ASSUME NEW E, NEW F, NEW q, NEW r, NEW cur, NEW h, NEW i \in Nat,
           \A j \in 1..(i - 1) : r[j] = q[j] /\ F[q[j].id] = E[q[j].id],
           At(E, q, cur, i, h)
    PROVE  At(F, r, cur, i, h)
<1>1. \A j \in 1..(i - 1) : Unread(F, r[j]) <=> Unread(E, q[j])
  BY Zenon DEF Unread
<1>2. CASE h = cur /\ \A j \in 1..(i - 1) : ~Unread(E, q[j])
  BY <1>1, <1>2, Zenon DEF At
<1>3. CASE \E j \in 1..(i - 1) :
              /\ Unread(E, q[j]) /\ h = E[q[j].id].hist
              /\ \A k \in (j + 1)..(i - 1) : ~Unread(E, q[k])
  <2>1. PICK j \in 1..(i - 1) :
              /\ Unread(E, q[j]) /\ h = E[q[j].id].hist
              /\ \A k \in (j + 1)..(i - 1) : ~Unread(E, q[k])
    BY <1>3, Zenon
  <2>2. \A k \in (j + 1)..(i - 1) : k \in 1..(i - 1)
    OBVIOUS
  <2>3. Unread(F, r[j]) /\ h = F[r[j].id].hist
    BY <1>1, <2>1, Zenon
  <2>. QED BY <1>1, <2>1, <2>2, <2>3, Zenon DEF At
<1>. QED
  BY <1>2, <1>3, Zenon DEF At

(* Chains and their ends depend only on the envelopes of the stream.        *)
LEMMA ChainEnvs ==
    ASSUME NEW E, NEW F, NEW q \in Seq(Messages), NEW cur,
           \A j \in 1..Len(q) : F[q[j].id] = E[q[j].id]
    PROVE  /\ Chain(E, q, cur) => Chain(F, q, cur)
           /\ \A h : End(E, q, cur, h) => End(F, q, cur, h)
<1>0. Len(q) \in Nat
  OBVIOUS
<1>1. ASSUME NEW i \in 1..Len(q), Chain(E, q, cur), Unread(F, q[i])
      PROVE  At(F, q, cur, i, F[q[i].id].parent)
  <2>1. Unread(E, q[i]) /\ F[q[i].id] = E[q[i].id]
    BY <1>1, Zenon DEF Unread
  <2>2. At(E, q, cur, i, E[q[i].id].parent)
    BY <1>1, <2>1, Zenon DEF Chain
  <2>3. i \in Nat /\ \A j \in 1..(i - 1) : j \in 1..Len(q)
    BY <1>0
  <2>. QED BY <2>1, <2>2, <2>3, AtPrefix
<1>2. ASSUME NEW h, End(E, q, cur, h)
      PROVE  End(F, q, cur, h)
  <2>1. Len(q) + 1 \in Nat /\ (Len(q) + 1) - 1 = Len(q)
    BY <1>0
  <2>. QED BY <1>2, <2>1, AtPrefix DEF End
<1>. QED
  BY <1>1, <1>2, Zenon DEF Chain

(* A message at the end.                                                    *)
LEMMA ChainAppend ==
    ASSUME NEW E, NEW q \in Seq(Messages), NEW cur, NEW f \in Messages, Chain(E, q, cur),
           Unread(E, f) => End(E, q, cur, E[f.id].parent)
    PROVE  /\ Chain(E, Append(q, f), cur)
           /\ Unread(E, f) => End(E, Append(q, f), cur, E[f.id].hist)
           /\ ~Unread(E, f) => \A h : End(E, q, cur, h) => End(E, Append(q, f), cur, h)
<1>. DEFINE r == Append(q, f)
            n == Len(q)
<1>1. /\ n \in Nat /\ Len(r) = n + 1 /\ r[n + 1] = f
      /\ \A i \in 1..n : r[i] = q[i]
  BY AppendSeq
<1>2. \A i \in 1..Len(r) : i \in 1..n \/ i = n + 1
  BY <1>1
<1>. HIDE DEF r, n
<1>3. ASSUME NEW i \in 1..(n + 1), NEW h, At(E, q, cur, i, h)
      PROVE  At(E, r, cur, i, h)
  <2>1. i \in Nat /\ \A j \in 1..(i - 1) : r[j] = q[j]
    BY <1>1
  <2>. QED BY <1>3, <2>1, AtPrefix, Zenon
<1>4. Chain(E, r, cur)
  <2>1. SUFFICES ASSUME NEW i \in 1..Len(r), Unread(E, r[i])
                 PROVE  At(E, r, cur, i, E[r[i].id].parent)
    BY Zenon DEF Chain
  <2>2. CASE i \in 1..n
    <3>1. At(E, q, cur, i, E[q[i].id].parent)
      BY <1>1, <2>1, <2>2, Zenon DEF Chain, n
    <3>2. i \in 1..(n + 1)
      BY <1>1, <2>2, Zenon
    <3>. QED BY <1>1, <1>3, <2>2, <3>1, <3>2, Zenon
  <2>3. CASE i = n + 1
    <3>1. At(E, q, cur, n + 1, E[f.id].parent)
      BY <1>1, <2>1, <2>3, Zenon DEF End, n
    <3>2. n + 1 \in 1..(n + 1)
      BY <1>1
    <3>. QED BY <1>1, <1>3, <2>3, <3>1, <3>2, Zenon
  <2>. QED BY <1>2, <2>2, <2>3, Zenon
<1>5. ASSUME Unread(E, f)
      PROVE  End(E, r, cur, E[f.id].hist)
  <2>1. n + 1 \in 1..((n + 2) - 1) /\ \A k \in ((n + 1) + 1)..((n + 2) - 1) : FALSE
    BY <1>1
  <2>2. Len(r) + 1 = n + 2
    BY <1>1
  <2>. QED BY <1>1, <1>5, <2>1, <2>2, Zenon DEF End, At
<1>6. ASSUME ~Unread(E, f), NEW h, End(E, q, cur, h)
      PROVE  End(E, r, cur, h)
  <2>1. At(E, r, cur, n + 1, h)
    <3>1. n + 1 \in 1..(n + 1)
      BY <1>1
    <3>. QED BY <1>3, <1>6, <3>1, Zenon DEF End, n
  <2>2. /\ (n + 1) - 1 = n /\ (n + 2) - 1 = n + 1 /\ Len(r) + 1 = n + 2
        /\ \A j \in 1..n : j \in 1..(n + 1)
        /\ \A j \in 1..(n + 1) : j \in 1..n \/ j = n + 1
    BY <1>1
  <2>3. CASE h = cur /\ \A j \in 1..n : ~Unread(E, r[j])
    <3>1. \A j \in 1..(n + 1) : ~Unread(E, r[j])
      BY <1>1, <1>6, <2>2, <2>3, Zenon
    <3>. QED BY <2>2, <2>3, <3>1, Zenon DEF End, At
  <2>4. CASE \E j \in 1..n :
                /\ Unread(E, r[j]) /\ h = E[r[j].id].hist
                /\ \A k \in (j + 1)..n : ~Unread(E, r[k])
    <3>1. PICK j \in 1..n :
                /\ Unread(E, r[j]) /\ h = E[r[j].id].hist
                /\ \A k \in (j + 1)..n : ~Unread(E, r[k])
      BY <2>4, Zenon
    <3>2. \A k \in (j + 1)..(n + 1) : k \in (j + 1)..n \/ k = n + 1
      BY <1>1
    <3>3. \A k \in (j + 1)..(n + 1) : ~Unread(E, r[k])
      BY <1>1, <1>6, <3>1, <3>2, Zenon
    <3>. QED BY <2>2, <3>1, <3>3, Zenon DEF End, At
  <2>. QED BY <2>1, <2>2, <2>3, <2>4, Zenon DEF At
<1>. QED
  BY <1>4, <1>5, <1>6, Zenon DEF r

(* The first message is read: it fits the state of the reader, and what is  *)
(* left is a chain from the state after it.                                 *)
LEMMA ChainTail ==
    ASSUME NEW E, NEW q \in Seq(Messages), q # << >>, NEW cur, Chain(E, q, cur)
    PROVE  LET next == IF Unread(E, q[1]) THEN E[q[1].id].hist ELSE cur
           IN  /\ Unread(E, q[1]) => E[q[1].id].parent = cur
               /\ Chain(E, Tail(q), next)
               /\ \A h : End(E, q, cur, h) => End(E, Tail(q), next, h)
<1>. DEFINE r == Tail(q)
            next == IF Unread(E, q[1]) THEN E[q[1].id].hist ELSE cur
<1>1. /\ 1 \in 1..Len(q) /\ Len(r) = Len(q) - 1 /\ Len(q) \in Nat
      /\ \A i \in 1..Len(r) : i + 1 \in 1..Len(q) /\ r[i] = q[i + 1]
  BY HeadTail
<1>. HIDE DEF r
<1>2. Unread(E, q[1]) => E[q[1].id].parent = cur
  <2>1. \A j \in 1..(1 - 1) : FALSE
    OBVIOUS
  <2>. QED BY <1>1, <2>1, Zenon DEF Chain, At
<1>3. ASSUME NEW i \in 1..Len(q), NEW h, At(E, q, cur, i + 1, h)
      PROVE  At(E, r, next, i, h)
  <2>0. /\ (i + 1) - 1 = i /\ i \in Nat /\ 1 \in 1..i
        /\ \A j \in 1..(i - 1) : j \in 1..Len(r) /\ j + 1 \in 1..i /\ r[j] = q[j + 1]
    BY <1>1
  <2>1. CASE h = cur /\ \A j \in 1..i : ~Unread(E, q[j])
    <3>1. next = cur /\ \A j \in 1..(i - 1) : ~Unread(E, r[j])
      BY <2>0, <2>1, Zenon
    <3>. QED BY <2>1, <3>1, Zenon DEF At
  <2>2. CASE \E j \in 1..i :
                /\ Unread(E, q[j]) /\ h = E[q[j].id].hist
                /\ \A k \in (j + 1)..i : ~Unread(E, q[k])
    <3>1. PICK j \in 1..i :
                /\ Unread(E, q[j]) /\ h = E[q[j].id].hist
                /\ \A k \in (j + 1)..i : ~Unread(E, q[k])
      BY <2>2, Zenon
    <3>2. CASE j = 1
      <4>1. h = next
        BY <3>1, <3>2, Zenon
      <4>2. \A k \in 1..(i - 1) : k + 1 \in (j + 1)..i
        BY <2>0, <3>2
      <4>3. \A k \in 1..(i - 1) : ~Unread(E, r[k])
        BY <2>0, <3>1, <4>2, Zenon
      <4>. HIDE DEF next
      <4>. QED BY <4>1, <4>3, Zenon DEF At
    <3>3. CASE j # 1
      <4>1. j - 1 \in 1..(i - 1) /\ (j - 1) + 1 = j
        BY <2>0, <3>3
      <4>2. r[j - 1] = q[j]
        BY <2>0, <4>1, Zenon
      <4>3. \A k \in ((j - 1) + 1)..(i - 1) : k \in 1..(i - 1) /\ k + 1 \in (j + 1)..i
        BY <2>0, <4>1
      <4>4. \A k \in ((j - 1) + 1)..(i - 1) : ~Unread(E, r[k])
        BY <2>0, <3>1, <4>3, Zenon
      <4>. HIDE DEF next
      <4>. QED BY <3>1, <4>1, <4>2, <4>4, Zenon DEF At
    <3>. QED BY <3>2, <3>3, Zenon
  <2>. QED BY <1>3, <2>0, <2>1, <2>2, Zenon DEF At
<1>. HIDE DEF next
<1>4. Chain(E, r, next)
  <2>1. SUFFICES ASSUME NEW i \in 1..Len(r), Unread(E, r[i])
                 PROVE  At(E, r, next, i, E[r[i].id].parent)
    BY Zenon DEF Chain
  <2>2. i \in 1..Len(q) /\ i + 1 \in 1..Len(q) /\ r[i] = q[i + 1]
    BY <1>1
  <2>3. At(E, q, cur, i + 1, E[r[i].id].parent)
    BY <2>1, <2>2, Zenon DEF Chain
  <2>. QED BY <1>3, <2>2, <2>3, Zenon
<1>5. ASSUME NEW h, End(E, q, cur, h)
      PROVE  End(E, r, next, h)
  <2>1. Len(q) \in 1..Len(q) /\ Len(r) + 1 = Len(q)
    BY <1>1
  <2>2. At(E, q, cur, Len(q) + 1, h)
    BY <1>5, Zenon DEF End
  <2>3. At(E, r, next, Len(q), h)
    BY <1>3, <2>1, <2>2, Zenon
  <2>. QED BY <2>1, <2>3, Zenon DEF End
<1>. QED
  BY <1>2, <1>4, <1>5, Zenon DEF r, next

(* Nothing unread.                                                          *)
LEMMA ChainQuiet ==
    ASSUME NEW E, NEW q \in Seq(Messages), NEW cur,
           \A i \in 1..Len(q) : ~Unread(E, q[i])
    PROVE  /\ Chain(E, q, cur)
           /\ \A h : End(E, q, cur, h) <=> h = cur
<1>1. Len(q) \in Nat /\ (Len(q) + 1) - 1 = Len(q)
  OBVIOUS
<1>2. Chain(E, q, cur)
  BY Zenon DEF Chain
<1>. QED
  BY <1>1, <1>2, Zenon DEF End, At

-----------------------------------------------------------------------------
(* The relay's bookkeeping.                                                 *)

(* An invited device stays invited: a Welcome only goes when it is joined.  *)
LEMMA StepInvited ==
    ASSUME TypeInv, [Next]_vars, NEW p \in Devices, Invited(p)
    PROVE  Invited(p)'
<1>1. CASE Member(p)
  BY <1>1, StepForward, Zenon DEF Forward, Invited
<1>2. CASE ~Member(p)
  <2>1. welcome[p].live /\ DOMAIN welcome = Devices /\ DOMAIN group = Devices
    BY <1>2, Zenon DEF Invited, TypeInv
  <2>2. ASSUME NEW m \in Devices, OpenMlsGroupFromWelcome(m)
        PROVE  Invited(p)'
    <3>1. /\ group' = [group EXCEPT ![m] = GroupAt(welcome[m].hist)]
          /\ welcome' = [welcome EXCEPT ![m] = NoWelcome]
      BY <2>2, Zenon DEF OpenMlsGroupFromWelcome, JoinFromWelcome
    <3>2. CASE p = m
      BY <2>1, <3>1, <3>2, Zenon DEF Invited, Member, GroupAt
    <3>3. CASE p # m
      BY <2>1, <3>1, <3>3, Zenon DEF Invited
    <3>. QED BY <3>2, <3>3, Zenon
  <2>3. ASSUME NEW m \in Devices, NEW q \in Devices, MlsAddMember(m, q)
        PROVE  Invited(p)'
    <3>1. \E h : welcome' = [welcome EXCEPT ![q] = WelcomeAt(h)]
      BY <2>3, Zenon DEF MlsAddMember
    <3>. QED BY <2>1, <3>1 DEF Invited, WelcomeAt
  <2>4. ASSUME NEW m \in Devices,
               \/ CreateMlsGroup(m) \/ RegisterRatchet(m) \/ SendEncrypt(m)
               \/ BareFetchStart(m) \/ BareFetchEnds(m) \/ FetchReceive(m)
               \/ ConnectionLost(m)
        PROVE  welcome' = welcome
    BY <2>4, Zenon DEF CreateMlsGroup, RegisterRatchet, SendEncrypt, BareFetchStart,
                BareFetchEnds, FetchReceive, ConnectionLost, membership
  <2>5. ASSUME NEW id, SendRelayed(id) \/ SendFails(id) PROVE welcome' = welcome
    BY <2>5, Zenon DEF SendRelayed, SendFails, membership
  <2>6. ASSUME NEW id, NEW m, Redeliver(id, m) PROVE welcome' = welcome
    BY <2>6, Zenon DEF Redeliver, membership
  <2>7. ASSUME welcome' = welcome PROVE Invited(p)'
    BY <2>1, <2>7, Zenon DEF Invited
  <2>8. ASSUME UNCHANGED vars PROVE welcome' = welcome
    BY <2>8, Zenon DEF vars, membership
  <2>. QED BY <2>2, <2>3, <2>4, <2>5, <2>6, <2>7, <2>8, Zenon DEF Next
<1>. QED
  BY <1>1, <1>2, Zenon

(* A message key is used up only for the message the device takes.          *)
LEMMA OpenedMove ==
    ASSUME TypeInv, [Next]_vars, NEW p \in Devices, Member(p)', NEW id \in group'[p].opened
    PROVE  \/ Member(p) /\ id \in group[p].opened
           \/ FetchReceive(p) /\ p \notin bare /\ id = stream[p][1].id
<1>0. DOMAIN group = Devices
  BY Zenon DEF TypeInv
<1>1. ASSUME group'[p] = group[p]
      PROVE  Member(p) /\ id \in group[p].opened
  BY <1>1, Zenon DEF Member
<1>2. ASSUME NEW h, group'[p] = GroupAt(h)
      PROVE  FALSE
  BY <1>2 DEF GroupAt
<1>3. ASSUME NEW m \in Devices, NEW h, group' = [group EXCEPT ![m] = GroupAt(h)]
      PROVE  Member(p) /\ id \in group[p].opened
  <2>1. CASE p = m
    BY <1>0, <1>2, <1>3, <2>1, Zenon
  <2>2. CASE p # m
    BY <1>0, <1>1, <1>3, <2>2, Zenon
  <2>. QED BY <2>1, <2>2, Zenon
<1>4. ASSUME NEW m \in Devices, CreateMlsGroup(m) \/ OpenMlsGroupFromWelcome(m)
      PROVE  Member(p) /\ id \in group[p].opened
  BY <1>3, <1>4, Zenon DEF CreateMlsGroup, CreatePrivate, OpenMlsGroupFromWelcome, JoinFromWelcome
<1>5. ASSUME NEW m \in Devices, NEW q \in Devices, MlsAddMember(m, q)
      PROVE  Member(p) /\ id \in group[p].opened
  BY <1>3, <1>5, Zenon DEF MlsAddMember, AddMembers
<1>6. ASSUME NEW m \in Devices, SendEncrypt(m)
      PROVE  Member(p) /\ id \in group[p].opened
  <2>1. group' = [group EXCEPT ![m] = GroupAfterEncrypt(m)]
    BY <1>6, Zenon DEF SendEncrypt
  <2>2. GroupAfterEncrypt(m) = group[m] \/ \E h : GroupAfterEncrypt(m) = GroupAt(h)
    BY Zenon DEF GroupAfterEncrypt, ForceRekey
  <2>. QED BY <1>0, <1>1, <1>3, <2>1, <2>2, Zenon
<1>7. ASSUME NEW m \in Devices, FetchReceive(m)
      PROVE  \/ Member(p) /\ id \in group[p].opened
             \/ FetchReceive(p) /\ p \notin bare /\ id = stream[p][1].id
  <2>1. CASE p # m \/ m \in bare
    <3>1. group'[p] = group[p]
      BY <1>7, <2>1, FetchFacts, Zenon
    <3>. QED BY <1>1, <3>1, Zenon
  <2>2. CASE p = m /\ m \notin bare
    <3>1. PICK fid : fid = stream[m][1].id
      BY Zenon
    <3>. DEFINE e == envs[fid]
    <3>2. /\ e \in Envelope /\ WellFormed(e) /\ group[m] \in Live
          /\ group'[m] = AfterDecrypt(group[m], e, fid)
      BY <1>7, <2>2, <3>1, FetchFacts, Zenon
    <3>. HIDE DEF e
    <3>3. \/ Untouched(group[m], group'[m])
          \/ OpenedV2(group[m], e, fid, group'[m])
          \/ OpenedV3(group[m], e, fid, group'[m])
      BY <3>2, DecryptEffect, Zenon
    <3>4. \/ id \in group[m].opened
          \/ id = fid
      BY <2>2, <3>3 DEF Untouched, OpenedV2, OpenedV3
    <3>. QED BY <1>7, <2>2, <3>1, <3>2, <3>4, MemberLive, Zenon
  <2>. QED BY <2>1, <2>2, Zenon
<1>8. ASSUME NEW m \in Devices,
             \/ RegisterRatchet(m) \/ BareFetchStart(m) \/ BareFetchEnds(m)
             \/ ConnectionLost(m)
      PROVE  group' = group
  BY <1>8, Zenon DEF RegisterRatchet, BareFetchStart, BareFetchEnds, ConnectionLost
<1>9. ASSUME NEW i, SendRelayed(i) \/ SendFails(i) PROVE group' = group
  BY <1>9, Zenon DEF SendRelayed, SendFails
<1>10. ASSUME NEW i, NEW m, Redeliver(i, m) PROVE group' = group
  BY <1>10, Zenon DEF Redeliver
<1>11. ASSUME UNCHANGED vars PROVE group' = group
  BY <1>11, Zenon DEF vars
<1>. QED
  BY <1>1, <1>4, <1>5, <1>6, <1>7, <1>8, <1>9, <1>10, <1>11, Zenon DEF Next

(* The steps that touch no stream, and what they leave unsent.              *)
LEMMA StreamMove ==
    ASSUME TypeInv, [Next]_vars
    PROVE  \/ /\ UNCHANGED <<stream, delivered>>
              /\ unsent' \subseteq unsent \cup {Len(envs) + 1}
           \/ \E m \in Devices : FetchReceive(m)
           \/ \E m \in Devices : ConnectionLost(m)
           \/ \E id \in 1..Len(envs) : SendRelayed(id)
           \/ \E id \in 1..Len(envs), m \in Devices : Redeliver(id, m)
<1>0. DOMAIN envs = 1..Len(envs)
  BY DEF TypeInv
<1>1. ASSUME NEW m \in Devices,
             \/ CreateMlsGroup(m) \/ OpenMlsGroupFromWelcome(m) \/ RegisterRatchet(m)
             \/ SendEncrypt(m) \/ BareFetchStart(m) \/ BareFetchEnds(m)
      PROVE  /\ UNCHANGED <<stream, delivered>>
             /\ unsent' \subseteq unsent \cup {Len(envs) + 1}
  BY <1>1, Zenon DEF CreateMlsGroup, OpenMlsGroupFromWelcome, RegisterRatchet, SendEncrypt,
              BareFetchStart, BareFetchEnds
<1>2. ASSUME NEW m, NEW p, MlsAddMember(m, p)
      PROVE  UNCHANGED <<stream, delivered>> /\ unsent' = unsent
  BY <1>2, Zenon DEF MlsAddMember
<1>3. ASSUME NEW id, SendFails(id)
      PROVE  UNCHANGED <<stream, delivered>> /\ unsent' \subseteq unsent
  BY <1>3, Zenon DEF SendFails
<1>4. ASSUME UNCHANGED vars
      PROVE  UNCHANGED <<stream, delivered>> /\ unsent' = unsent
  BY <1>4, Zenon DEF vars
<1>. QED
  BY <1>0, <1>1, <1>2, <1>3, <1>4, Zenon DEF Next

(* At the start nothing is sent.                                            *)
LEMMA PostInit == Init => PostInv
<1>1. SUFFICES ASSUME Init PROVE PostInv
  BY Zenon
<1>2. ~NoGroup.live
  BY Zenon DEF NoGroup
<1>3. \A m \in Devices : ~Member(m) /\ Len(stream[m]) = 0
  BY <1>1, <1>2, Zenon DEF Init, Member
<1>. QED
  BY <1>1, <1>3 DEF Init, PostInv

(* Entries of one stream: delivered, and each original once.                *)
Posted(m) ==
    /\ \A i \in 1..Len(stream[m]) : <<stream[m][i].id, m>> \in delivered
    /\ \A i, j \in 1..Len(stream[m]) :
          ~stream[m][i].again /\ ~stream[m][j].again /\ stream[m][i].id = stream[m][j].id
             => i = j

(* A stream that does not change stays accounted for.                       *)
LEMMA PostedStays ==
    ASSUME NEW p, Posted(p), stream'[p] = stream[p], delivered \subseteq delivered'
    PROVE  Posted(p)'
BY Zenon DEF Posted

(* Every step keeps the relay's books.                                      *)
LEMMA PostStep ==
    ASSUME TypeInv, TypeInv', PostInv, [Next]_vars
    PROVE  PostInv'
<1>0. /\ \A p \in Devices : Posted(p)
      /\ \A p \in Devices : \A id \in 1..Len(envs) :
            <<id, p>> \in delivered => id \notin unsent /\ Invited(p)
      /\ \A p \in Devices : Member(p) => \A id \in group[p].opened : <<id, p>> \in delivered
  BY Zenon DEF PostInv, Posted
<1>1. Len(envs) \in Nat /\ delivered \subseteq (1..Len(envs)) \X Devices
  BY EnvType, Zenon DEF TypeInv
<1>2. SUFFICES /\ delivered \subseteq delivered'
               /\ \A p \in Devices : Posted(p)'
               /\ \A p \in Devices : \A id \in 1..Len(envs') :
                     <<id, p>> \in delivered' => id \notin unsent' /\ Invited(p)'
  <2>1. ASSUME delivered \subseteq delivered', NEW p \in Devices, Member(p)',
               NEW id \in group'[p].opened
        PROVE  <<id, p>> \in delivered'
    <3>1. CASE Member(p) /\ id \in group[p].opened
      BY <1>0, <2>1, <3>1, Zenon
    <3>2. CASE FetchReceive(p) /\ id = stream[p][1].id
      <4>1. 1 \in 1..Len(stream[p])
        BY <3>2, FetchFacts, Zenon
      <4>. QED BY <1>0, <2>1, <3>2, <4>1, Zenon DEF Posted
    <3>. QED BY <2>1, <3>1, <3>2, OpenedMove, Zenon
  <2>. QED BY <2>1, Zenon DEF PostInv, Posted
<1>3. ASSUME delivered' = delivered, unsent' \subseteq unsent \cup {Len(envs) + 1},
             NEW p \in Devices, NEW id \in 1..Len(envs'), <<id, p>> \in delivered'
      PROVE  id \notin unsent' /\ Invited(p)'
  <2>1. id \in 1..Len(envs) /\ id # Len(envs) + 1
    BY <1>1, <1>3
  <2>. QED BY <1>0, <1>3, <2>1, StepInvited, Zenon
<1>4. CASE UNCHANGED <<stream, delivered>> /\ unsent' \subseteq unsent \cup {Len(envs) + 1}
  BY <1>0, <1>3, <1>4, PostedStays, Zenon
<1>5. ASSUME NEW m \in Devices, FetchReceive(m)
      PROVE  /\ delivered \subseteq delivered'
             /\ \A p \in Devices : Posted(p)'
             /\ \A p \in Devices : \A id \in 1..Len(envs') :
                   <<id, p>> \in delivered' => id \notin unsent' /\ Invited(p)'
  <2>1. /\ delivered' = delivered /\ unsent' = unsent
        /\ stream'[m] = Tail(stream[m]) /\ 1 \in 1..Len(stream[m])
        /\ \A p \in Devices \ {m} : stream'[p] = stream[p]
    BY <1>5, FetchFacts, Zenon
  <2>2. /\ Len(stream'[m]) = Len(stream[m]) - 1 /\ Len(stream[m]) \in Nat
        /\ \A i \in 1..Len(stream'[m]) :
              i + 1 \in 1..Len(stream[m]) /\ stream'[m][i] = stream[m][i + 1]
    <3>1. stream[m] \in Seq(Messages) /\ Len(stream[m]) \in Nat /\ stream[m] # << >>
      BY <2>1, StreamType
    <3>. QED BY <2>1, <3>1, HeadTail
  <2>3. Posted(m)'
    <3>1. ASSUME NEW i \in 1..Len(stream'[m]), NEW j \in 1..Len(stream'[m]),
                 ~stream'[m][i].again, ~stream'[m][j].again,
                 stream'[m][i].id = stream'[m][j].id
          PROVE  i = j
      <4>1. /\ i + 1 \in 1..Len(stream[m]) /\ stream[m][i + 1] = stream'[m][i]
            /\ j + 1 \in 1..Len(stream[m]) /\ stream[m][j + 1] = stream'[m][j]
        BY <2>2, Zenon
      <4>2. i + 1 = j + 1
        BY <1>0, <3>1, <4>1, Zenon DEF Posted
      <4>. QED BY <4>2
    <3>2. \A i \in 1..Len(stream'[m]) : <<stream'[m][i].id, m>> \in delivered'
      BY <1>0, <2>1, <2>2, Zenon DEF Posted
    <3>. QED BY <3>1, <3>2, Zenon DEF Posted
  <2>4. \A p \in Devices : Posted(p)'
    BY <1>0, <2>1, <2>3, PostedStays, Zenon
  <2>. QED BY <1>3, <2>1, <2>4, Zenon
<1>6. ASSUME NEW m \in Devices, ConnectionLost(m)
      PROVE  /\ delivered \subseteq delivered'
             /\ \A p \in Devices : Posted(p)'
             /\ \A p \in Devices : \A id \in 1..Len(envs') :
                   <<id, p>> \in delivered' => id \notin unsent' /\ Invited(p)'
  <2>1. /\ delivered' = delivered /\ unsent' = unsent
        /\ stream' = [stream EXCEPT ![m] = << >>] /\ DOMAIN stream = Devices
    BY <1>6, Zenon DEF ConnectionLost, TypeInv
  <2>2. Len(stream'[m]) = 0 /\ \A p \in Devices \ {m} : stream'[p] = stream[p]
    BY <2>1, Zenon
  <2>3. \A p \in Devices : Posted(p)'
    <3>1. Posted(m)'
      BY <2>2 DEF Posted
    <3>. QED BY <1>0, <2>1, <2>2, <3>1, PostedStays, Zenon
  <2>. QED BY <1>3, <2>1, <2>3, Zenon
<1>7. ASSUME NEW id \in 1..Len(envs), SendRelayed(id)
      PROVE  /\ delivered \subseteq delivered'
             /\ \A p \in Devices : Posted(p)'
             /\ \A p \in Devices : \A x \in 1..Len(envs') :
                   <<x, p>> \in delivered' => x \notin unsent' /\ Invited(p)'
  <2>1. /\ id \in unsent /\ unsent' = unsent \ {id}
        /\ delivered' = delivered \cup ({id} \X Recipients(id))
        /\ stream' = [p \in Devices |-> IF p \in Recipients(id)
                        THEN Append(stream[p], Message(id, FALSE)) ELSE stream[p]]
        /\ envs' = envs
    BY <1>7, Zenon DEF SendRelayed
  <2>2. \A p \in Recipients(id) : p \in Devices /\ Invited(p)
    BY Zenon DEF Recipients
  <2>3. ASSUME NEW p \in Devices, NEW x \in 1..Len(envs'), <<x, p>> \in delivered'
        PROVE  x \notin unsent' /\ Invited(p)'
    <3>1. CASE <<x, p>> \in delivered
      BY <1>0, <2>1, <2>3, <3>1, StepInvited, Zenon
    <3>2. CASE x = id /\ p \in Recipients(id)
      BY <2>1, <2>2, <3>2, StepInvited, Zenon
    <3>. QED BY <2>1, <2>3, <3>1, <3>2, Zenon
  <2>4. ASSUME NEW p \in Devices
        PROVE  Posted(p)'
    <3>1. CASE p \notin Recipients(id)
      BY <1>0, <2>1, <3>1, PostedStays, Zenon
    <3>2. CASE p \in Recipients(id)
      <4>. DEFINE f == Message(id, FALSE)
                  n == Len(stream[p])
      <4>1. f \in Messages /\ f.id = id
        BY EnvType, Zenon DEF Message, Messages
      <4>2. stream'[p] = Append(stream[p], f) /\ stream[p] \in Seq(Messages) /\ n \in Nat
        BY <2>1, <3>2, StreamType, Zenon
      <4>. HIDE DEF f
      <4>3. /\ Len(stream'[p]) = n + 1 /\ stream'[p][n + 1] = f
            /\ \A i \in 1..n : stream'[p][i] = stream[p][i]
        BY <4>1, <4>2, AppendSeq
      <4>4. \A i \in 1..Len(stream'[p]) : i \in 1..n \/ i = n + 1
        BY <4>2, <4>3
      <4>5. \A i \in 1..n : <<stream[p][i].id, p>> \in delivered /\ stream[p][i].id # id
        BY <1>0, <2>1, Zenon DEF Posted
      <4>6. <<id, p>> \in delivered'
        BY <2>1, <3>2, Zenon
      <4>7. \A i \in 1..Len(stream'[p]) : <<stream'[p][i].id, p>> \in delivered'
        BY <2>1, <4>1, <4>3, <4>4, <4>5, <4>6, Zenon
      <4>8. ASSUME NEW i \in 1..Len(stream'[p]), NEW j \in 1..Len(stream'[p]),
                   ~stream'[p][i].again, ~stream'[p][j].again,
                   stream'[p][i].id = stream'[p][j].id
            PROVE  i = j
        <5>1. CASE i \in 1..n /\ j \in 1..n
          BY <1>0, <4>3, <4>8, <5>1, Zenon DEF Posted
        <5>2. CASE i = n + 1 \/ j = n + 1
          BY <4>1, <4>3, <4>4, <4>5, <4>8, <5>2, Zenon
        <5>. QED BY <4>4, <5>1, <5>2, Zenon
      <4>. QED BY <4>7, <4>8, Zenon DEF Posted
    <3>. QED BY <3>1, <3>2, Zenon
  <2>. QED BY <2>1, <2>3, <2>4, Zenon
<1>8. ASSUME NEW id \in 1..Len(envs), NEW m \in Devices, Redeliver(id, m)
      PROVE  /\ delivered \subseteq delivered'
             /\ \A p \in Devices : Posted(p)'
             /\ \A p \in Devices : \A x \in 1..Len(envs') :
                   <<x, p>> \in delivered' => x \notin unsent' /\ Invited(p)'
  <2>. DEFINE f == Message(id, TRUE)
              n == Len(stream[m])
  <2>1. /\ delivered' = delivered /\ unsent' = unsent /\ <<id, m>> \in delivered
        /\ stream' = [stream EXCEPT ![m] = Append(stream[m], f)] /\ DOMAIN stream = Devices
    BY <1>8, Zenon DEF Redeliver, TypeInv
  <2>2. f \in Messages /\ f.id = id /\ f.again
    BY EnvType, Zenon DEF Message, Messages
  <2>3. stream'[m] = Append(stream[m], f) /\ stream[m] \in Seq(Messages) /\ n \in Nat
    BY <2>1, StreamType, Zenon
  <2>4. \A p \in Devices \ {m} : stream'[p] = stream[p]
    BY <2>1, Zenon
  <2>. HIDE DEF f
  <2>5. /\ Len(stream'[m]) = n + 1 /\ stream'[m][n + 1] = f
        /\ \A i \in 1..n : stream'[m][i] = stream[m][i]
    BY <2>2, <2>3, AppendSeq
  <2>6. \A i \in 1..Len(stream'[m]) : i \in 1..n \/ i = n + 1
    BY <2>3, <2>5
  <2>7. Posted(m)'
    <3>1. \A i \in 1..Len(stream'[m]) : <<stream'[m][i].id, m>> \in delivered'
      BY <1>0, <2>1, <2>2, <2>5, <2>6, Zenon DEF Posted
    <3>2. ASSUME NEW i \in 1..Len(stream'[m]), NEW j \in 1..Len(stream'[m]),
                 ~stream'[m][i].again, ~stream'[m][j].again,
                 stream'[m][i].id = stream'[m][j].id
          PROVE  i = j
      BY <1>0, <2>2, <2>5, <2>6, <3>2, Zenon DEF Posted
    <3>. QED BY <3>1, <3>2, Zenon DEF Posted
  <2>. QED BY <1>0, <1>3, <2>1, <2>4, <2>7, PostedStays, Zenon
<1>. QED
  BY <1>4, <1>5, <1>6, <1>7, <1>8, StreamMove, Zenon

-----------------------------------------------------------------------------
(* A serial chat: reading.                                                  *)

(* The model's HasUnread and Quiet are opposites.                           *)
LEMMA QuietStream ==
    ASSUME TypeInv, NEW m \in Devices
    PROVE  HasUnread(m) <=> ~Quiet(m)
<1>1. DOMAIN stream[m] = 1..Len(stream[m])
  BY DEF TypeInv
<1>. QED
  BY <1>1, Zenon DEF HasUnread, IsUnread, Quiet, Unread

(* An encrypted message still to be read is unread.                         *)
LEMMA PendingUnread ==
    ASSUME TypeInv, NEW m \in Devices, NEW id \in 1..Len(envs), Encrypted(id), Pending(m, id)
    PROVE  HasUnread(m)
<1>1. PICK i \in 1..Len(stream[m]) : stream[m][i] = Message(id, FALSE)
  BY Zenon DEF Pending
<1>2. Unread(envs, stream[m][i])
  BY <1>1 DEF Unread, Message, Encrypted
<1>. QED
  BY <1>2, QuietStream, Zenon DEF Quiet

(* A message that is no repetition is the first one of its envelope.        *)
LEMMA MessageForm ==
    ASSUME NEW f \in Messages
    PROVE  ~f.again => f = Message(f.id, FALSE)
BY Zenon DEF Messages, Message

(* The head of a chain opens.                                               *)
LEMMA HeadOpens ==
    ASSUME TypeInv, InStep, UnreadUnopened, NEW m \in Devices, Member(m), stream[m] # << >>,
           NEW id, id = stream[m][1].id, Unread(envs, stream[m][1])
    PROVE  Decrypted(group[m], envs[id], id) = "text"
<1>. DEFINE e == envs[id]
            g == group[m]
<1>1. /\ stream[m] \in Seq(Messages) /\ 1 \in 1..Len(stream[m])
      /\ stream[m][1] \in Messages /\ id \in 1..Len(envs)
  BY StreamType, HeadTail, Zenon
<1>2. e.parent = g.hist
  <2>1. Chain(envs, stream[m], g.hist)
    BY Zenon DEF InStep, Invited, Cur
  <2>. QED BY <1>1, <2>1, ChainTail, Zenon
<1>3. id \notin g.opened
  <2>1. stream[m][1] = Message(id, FALSE)
    BY <1>1, MessageForm, Zenon DEF Unread
  <2>. QED BY <1>1, <2>1, Zenon DEF UnreadUnopened, Pending
<1>4. g \in Live /\ e \in Envelope /\ WellFormed(e) /\ e.kind # "raw"
  BY <1>1, MemberLive, EnvType, Zenon DEF Unread
<1>5. e.kind \in {"v2", "v3"} /\ (e.kind = "v2" => e.hist = e.parent)
  BY <1>4, Zenon DEF Envelope, WellFormed
<1>. HIDE DEF e, g
<1>6. \/ OpenedV2(g, e, id, AfterDecrypt(g, e, id))
      \/ OpenedV3(g, e, id, AfterDecrypt(g, e, id))
  BY <1>2, <1>3, <1>4, <1>5, DecryptEffect, Zenon
<1>7. Decrypted(g, e, id) = "text"
  BY <1>4, <1>6, DecryptEffect, Zenon
<1>. QED
  BY <1>7, Zenon DEF e, g

(* A turn of the fetch loop in a serial chat: an unread message opens, and  *)
(* anything else leaves the group alone.                                    *)
LEMMA SerialFetch ==
    ASSUME TypeInv, SerialInv, NEW m \in Devices, FetchReceive(m), ~crossed',
           NEW id, id = stream[m][1].id
    PROVE  /\ ~crossed
           /\ Unread(envs, stream[m][1]) =>
                 /\ m \notin bare /\ Member(m) /\ Past(m, id)'
                 /\ group'[m].hist = envs[id].hist
           /\ ~Unread(envs, stream[m][1]) => group'[m] = group[m]
<1>1. /\ m \in bare \/ Member(m)
      /\ stream[m] # << >> /\ id \in 1..Len(envs)
      /\ m \in bare => group' = group
      /\ m \notin bare => group[m] \in Live /\ group'[m] = AfterDecrypt(group[m], envs[id], id)
      /\ envs[id] \in Envelope /\ WellFormed(envs[id]) /\ 1 \in 1..Len(stream[m])
  BY FetchFacts, Zenon
<1>2. ~crossed /\ (IsUnread(stream[m][1]) => m \notin bare)
  BY FetchFacts, Zenon
<1>3. InStep /\ UnreadUnopened /\ CopiesFollow
  BY <1>2, Zenon DEF SerialInv
<1>4. ASSUME Unread(envs, stream[m][1])
      PROVE  /\ m \notin bare /\ Member(m) /\ Past(m, id)'
             /\ group'[m].hist = envs[id].hist
  <2>1. m \notin bare /\ Member(m) /\ envs[id].kind # "raw"
    BY <1>1, <1>2, <1>4, Zenon DEF IsUnread, Unread
  <2>2. Decrypted(group[m], envs[id], id) = "text"
    BY <1>1, <1>3, <1>4, <2>1, HeadOpens, Zenon
  <2>. QED BY <2>1, <2>2, OpeningPast, Zenon
<1>5. ASSUME ~Unread(envs, stream[m][1]), m \notin bare
      PROVE  group'[m] = group[m]
  <2>1. CASE envs[id].kind = "raw"
    BY <1>1, <1>5, <2>1, DecryptEffect, Zenon DEF Untouched
  <2>2. CASE envs[id].kind # "raw"
    <3>1. stream[m][1].again /\ Encrypted(id)
      BY <1>5, <2>2, Zenon DEF Unread, Encrypted
    <3>2. ~\E j \in 1..(1 - 1) : TRUE
      OBVIOUS
    <3>3. Past(m, id)
      BY <1>1, <1>3, <3>1, <3>2, Zenon DEF CopiesFollow
    <3>. QED BY <1>1, <1>5, <2>2, <3>3, PastCloses, Zenon
  <2>. QED BY <2>1, <2>2, Zenon
<1>. QED
  BY <1>1, <1>2, <1>4, <1>5, ZenonT(60)

(* Steps do not uncross a chat.                                             *)
LEMMA CrossedStays ==
    ASSUME TypeInv, [Next]_vars, ~crossed'
    PROVE  ~crossed
<1>1. ASSUME NEW m \in Devices,
             \/ CreateMlsGroup(m) \/ OpenMlsGroupFromWelcome(m) \/ RegisterRatchet(m)
             \/ SendEncrypt(m) \/ BareFetchStart(m) \/ BareFetchEnds(m) \/ ConnectionLost(m)
      PROVE  ~crossed
  BY <1>1, Zenon DEF CreateMlsGroup, OpenMlsGroupFromWelcome, RegisterRatchet, SendEncrypt,
              BareFetchStart, BareFetchEnds, ConnectionLost
<1>2. ASSUME NEW m \in Devices, FetchReceive(m) PROVE ~crossed
  BY <1>2, FetchFacts, Zenon
<1>3. ASSUME NEW m, NEW p, MlsAddMember(m, p) PROVE ~crossed
  BY <1>3, Zenon DEF MlsAddMember
<1>4. ASSUME NEW id, SendFails(id) \/ SendRelayed(id) PROVE ~crossed
  BY <1>4, Zenon DEF SendFails, SendRelayed
<1>5. ASSUME NEW id, NEW m, Redeliver(id, m) PROVE ~crossed
  BY <1>5, Zenon DEF Redeliver
<1>6. ASSUME UNCHANGED vars PROVE ~crossed
  BY <1>6, Zenon DEF vars
<1>. QED
  BY <1>1, <1>2, <1>3, <1>4, <1>5, <1>6, Zenon DEF Next

-----------------------------------------------------------------------------
(* A serial chat: what became of each message.                              *)

(* The changes of one device's stream.                                      *)
StreamShape(p) ==
    \/ stream'[p] = stream[p]
    \/ FetchReceive(p)
    \/ Len(stream'[p]) = 0 /\ crossed' = (crossed \/ HasUnread(p))
    \/ \E id \in unsent : stream'[p] = Append(stream[p], Message(id, FALSE))
    \/ \E id \in 1..Len(envs) :
          <<id, p>> \in delivered /\ stream'[p] = Append(stream[p], Message(id, TRUE))

(* Every step changes a stream in these ways only, and only a message put   *)
(* there is newly delivered.                                                *)
LEMMA StreamShapes ==
    ASSUME TypeInv, [Next]_vars, NEW p \in Devices
    PROVE  /\ StreamShape(p)
           /\ \A id : <<id, p>> \in delivered' =>
                 \/ <<id, p>> \in delivered
                 \/ id \in unsent /\ stream'[p] = Append(stream[p], Message(id, FALSE))
<1>0. DOMAIN stream = Devices
  BY Zenon DEF TypeInv
<1>1. CASE UNCHANGED <<stream, delivered>>
  BY <1>1, Zenon DEF StreamShape
<1>2. ASSUME NEW m \in Devices, FetchReceive(m)
      PROVE  delivered' = delivered /\ (p = m \/ stream'[p] = stream[p])
  BY <1>2, FetchFacts, Zenon
<1>3. ASSUME NEW m \in Devices, ConnectionLost(m)
      PROVE  /\ delivered' = delivered
             /\ \/ stream'[p] = stream[p]
                \/ Len(stream'[p]) = 0 /\ crossed' = (crossed \/ HasUnread(p))
  <2>1. /\ delivered' = delivered /\ stream' = [stream EXCEPT ![m] = << >>]
        /\ crossed' = (crossed \/ HasUnread(m))
    BY <1>3, Zenon DEF ConnectionLost
  <2>. QED BY <1>0, <2>1, Zenon
<1>4. ASSUME NEW id \in 1..Len(envs), SendRelayed(id)
      PROVE  /\ stream'[p] = stream[p] \/
                   (id \in unsent /\ stream'[p] = Append(stream[p], Message(id, FALSE)))
             /\ \A x : <<x, p>> \in delivered' =>
                   \/ <<x, p>> \in delivered
                   \/ x \in unsent /\ stream'[p] = Append(stream[p], Message(x, FALSE))
  <2>1. /\ id \in unsent
        /\ stream' = [q \in Devices |-> IF q \in Recipients(id)
                        THEN Append(stream[q], Message(id, FALSE)) ELSE stream[q]]
        /\ delivered' = delivered \cup ({id} \X Recipients(id))
    BY <1>4, Zenon DEF SendRelayed
  <2>. QED BY <2>1, Zenon
<1>5. ASSUME NEW id \in 1..Len(envs), NEW m \in Devices, Redeliver(id, m)
      PROVE  /\ delivered' = delivered
             /\ \/ stream'[p] = stream[p]
                \/ <<id, p>> \in delivered /\ stream'[p] = Append(stream[p], Message(id, TRUE))
  <2>1. /\ delivered' = delivered /\ <<id, m>> \in delivered
        /\ stream' = [stream EXCEPT ![m] = Append(stream[m], Message(id, TRUE))]
    BY <1>5, Zenon DEF Redeliver
  <2>. QED BY <1>0, <2>1, Zenon
<1>. QED
  BY <1>1, <1>2, <1>3, <1>4, <1>5, StreamMove, Zenon DEF StreamShape

(* The messages the relay makes.                                            *)
LEMMA MessageType ==
    ASSUME TypeInv, NEW id \in 1..Len(envs)
    PROVE  /\ Message(id, FALSE) \in Messages /\ Message(id, TRUE) \in Messages
           /\ Message(id, FALSE).id = id /\ Message(id, TRUE).id = id
           /\ ~Message(id, FALSE).again /\ Message(id, TRUE).again
BY EnvType, Zenon DEF Message, Messages

(* A message at the end of a stream, entry by entry.                        *)
LEMMA AppendEntries ==
    ASSUME TypeInv, NEW p \in Devices, NEW f \in Messages, stream'[p] = Append(stream[p], f)
    PROVE  LET n == Len(stream[p])
           IN  /\ n \in Nat /\ Len(stream'[p]) = n + 1 /\ n + 1 \in 1..(n + 1)
               /\ stream'[p][n + 1] = f
               /\ \A i \in 1..n : stream'[p][i] = stream[p][i] /\ i \in 1..(n + 1)
               /\ \A i \in 1..(n + 1) : i \in 1..n \/ i = n + 1
<1>1. stream[p] \in Seq(Messages) /\ Len(stream[p]) \in Nat
  BY StreamType, Zenon
<1>2. /\ Len(stream'[p]) = Len(stream[p]) + 1 /\ stream'[p][Len(stream[p]) + 1] = f
      /\ \A i \in 1..Len(stream[p]) : stream'[p][i] = stream[p][i]
  BY <1>1, AppendSeq
<1>. QED
  BY <1>1, <1>2

(* The head of a stream taken, entry by entry.                              *)
LEMMA TailEntries ==
    ASSUME TypeInv, NEW p \in Devices, FetchReceive(p)
    PROVE  LET n == Len(stream[p])
           IN  /\ n \in Nat /\ Len(stream'[p]) = n - 1 /\ 1 \in 1..n
               /\ \A i \in 1..(n - 1) :
                     i + 1 \in 1..n /\ i + 1 # 1 /\ stream'[p][i] = stream[p][i + 1]
               /\ \A i \in 1..n : i = 1 \/
                     (i - 1 \in 1..(n - 1) /\ stream'[p][i - 1] = stream[p][i])
<1>1. stream'[p] = Tail(stream[p]) /\ 1 \in 1..Len(stream[p])
  BY FetchFacts, Zenon
<1>2. stream[p] \in Seq(Messages) /\ Len(stream[p]) \in Nat /\ stream[p] # << >>
  BY <1>1, StreamType
<1>3. /\ Len(stream'[p]) = Len(stream[p]) - 1
      /\ \A i \in 1..Len(stream'[p]) : stream'[p][i] = stream[p][i + 1]
  BY <1>1, <1>2, HeadTail
<1>4. ASSUME NEW i \in 1..Len(stream[p]), i # 1
      PROVE  i - 1 \in 1..(Len(stream[p]) - 1) /\ stream'[p][i - 1] = stream[p][i]
  <2>1. i - 1 \in 1..(Len(stream[p]) - 1) /\ (i - 1) + 1 = i
    BY <1>2, <1>4
  <2>2. stream'[p][i - 1] = stream[p][(i - 1) + 1]
    BY <1>3, <2>1, Zenon
  <2>. QED BY <2>1, <2>2, Zenon
<1>5. \A i \in 1..(Len(stream[p]) - 1) : i + 1 \in 1..Len(stream[p]) /\ i + 1 # 1
  BY <1>2
<1>. QED
  BY <1>1, <1>2, <1>3, <1>4, <1>5, Zenon

(* A message still to be read stays so until the device is past it.         *)
LEMMA PendingMove ==
    ASSUME TypeInv, SerialInv, [Next]_vars, ~crossed', NEW p \in Devices,
           NEW id \in 1..Len(envs), Encrypted(id), Pending(p, id)
    PROVE  Pending(p, id)' \/ Past(p, id)'
<1>1. PICK i \in 1..Len(stream[p]) : stream[p][i] = Message(id, FALSE)
  BY Zenon DEF Pending
<1>2. CASE stream'[p] = stream[p]
  BY <1>1, <1>2, Zenon DEF Pending
<1>3. CASE FetchReceive(p)
  <2>1. CASE i = 1
    <3>1. Unread(envs, stream[p][1]) /\ id = stream[p][1].id
      BY <1>1, <2>1 DEF Message, Unread, Encrypted
    <3>. QED BY <1>3, <3>1, SerialFetch, Zenon
  <2>2. CASE i # 1
    <3>1. i - 1 \in 1..Len(stream'[p]) /\ stream'[p][i - 1] = Message(id, FALSE)
      BY <1>1, <1>3, <2>2, TailEntries, Zenon
    <3>. QED BY <3>1, Zenon DEF Pending
  <2>. QED BY <2>1, <2>2, Zenon
<1>4. CASE Len(stream'[p]) = 0 /\ crossed' = (crossed \/ HasUnread(p))
  BY <1>4, PendingUnread, Zenon
<1>5. ASSUME NEW f \in Messages, stream'[p] = Append(stream[p], f)
      PROVE  Pending(p, id)'
  <2>1. i \in 1..Len(stream'[p]) /\ stream'[p][i] = stream[p][i]
    BY <1>5, AppendEntries, Zenon
  <2>. QED BY <1>1, <2>1, Zenon DEF Pending
<1>6. CASE \E x \in unsent : stream'[p] = Append(stream[p], Message(x, FALSE))
  <2>1. unsent \subseteq 1..Len(envs)
    BY Zenon DEF TypeInv
  <2>. QED BY <1>5, <1>6, <2>1, MessageType, Zenon
<1>7. CASE \E x \in 1..Len(envs) : stream'[p] = Append(stream[p], Message(x, TRUE))
  BY <1>5, <1>7, MessageType, Zenon
<1>. QED
  BY <1>2, <1>3, <1>4, <1>6, <1>7, StreamShapes, Zenon DEF StreamShape

(* While no commit crosses, every step keeps messages accounted for.        *)
LEMMA AccountedStep ==
    ASSUME TypeInv, TypeInv', SerialInv, [Next]_vars, ~crossed'
    PROVE  Accounted'
<1>1. SUFFICES ASSUME NEW m \in Devices, NEW id \in 1..Len(envs'), Encrypted(id)',
                      <<id, m>> \in delivered'
               PROVE  Past(m, id)' \/ Pending(m, id)'
  BY Zenon DEF Accounted
<1>2. Accounted /\ EnvsGrow /\ delivered \subseteq (1..Len(envs)) \X Devices
  BY CrossedStays, StepEnvs, Zenon DEF SerialInv, TypeInv
<1>3. CASE <<id, m>> \in delivered
  <2>1. id \in 1..Len(envs) /\ Encrypted(id)
    BY <1>1, <1>2, <1>3, Zenon DEF EnvsGrow, Encrypted
  <2>2. Past(m, id) \/ Pending(m, id)
    BY <1>2, <1>3, <2>1, Zenon DEF Accounted
  <2>. QED BY <1>1, <2>1, <2>2, PastStays, PendingMove, Zenon
<1>4. CASE id \in unsent /\ stream'[m] = Append(stream[m], Message(id, FALSE))
  <2>1. id \in 1..Len(envs)
    BY <1>4, Zenon DEF TypeInv
  <2>2. PICK f \in Messages : f = Message(id, FALSE)
    BY <2>1, MessageType, Zenon
  <2>3. /\ Len(stream[m]) + 1 \in 1..Len(stream'[m])
        /\ stream'[m][Len(stream[m]) + 1] = f
    BY <1>4, <2>2, AppendEntries, Zenon
  <2>. QED BY <2>2, <2>3, Zenon DEF Pending
<1>. QED
  BY <1>1, <1>3, <1>4, StreamShapes, Zenon

(* While no commit crosses, every step keeps copies behind their messages.  *)
LEMMA CopiesStep ==
    ASSUME TypeInv, TypeInv', SerialInv, [Next]_vars, ~crossed'
    PROVE  CopiesFollow'
<1>1. SUFFICES ASSUME NEW m \in Devices, NEW i \in 1..Len(stream'[m]),
                      NEW id, id = stream'[m][i].id,
                      Encrypted(id)', stream'[m][i].again
               PROVE  \/ Past(m, id)'
                      \/ \E j \in 1..(i - 1) : stream'[m][j] = Message(id, FALSE)
  BY Zenon DEF CopiesFollow
<1>2. CopiesFollow /\ Accounted /\ EnvsGrow /\ unsent \subseteq 1..Len(envs)
  BY CrossedStays, StepEnvs, Zenon DEF SerialInv, TypeInv
<1>3. ASSUME NEW k \in 1..Len(stream[m]), stream[m][k] = stream'[m][i]
      PROVE  /\ id \in 1..Len(envs) /\ Encrypted(id)
             /\ \/ Past(m, id)'
                \/ \E j \in 1..(k - 1) : stream[m][j] = Message(id, FALSE)
  <2>1. id \in 1..Len(envs)
    BY <1>1, <1>3, StreamType, Zenon
  <2>2. Encrypted(id)
    BY <1>1, <1>2, <2>1, Zenon DEF EnvsGrow, Encrypted
  <2>3. \/ Past(m, id)
        \/ \E j \in 1..(k - 1) : stream[m][j] = Message(id, FALSE)
    BY <1>1, <1>2, <1>3, <2>2, Zenon DEF CopiesFollow
  <2>. QED BY <2>1, <2>2, <2>3, PastStays, Zenon
<1>4. CASE stream'[m] = stream[m]
  BY <1>1, <1>3, <1>4, Zenon
<1>5. CASE FetchReceive(m)
  <2>1. /\ i + 1 \in 1..Len(stream[m]) /\ stream[m][i + 1] = stream'[m][i]
        /\ i \in Nat /\ (i + 1) - 1 = i
    BY <1>1, <1>5, TailEntries
  <2>2. SUFFICES ASSUME NEW j \in 1..i, stream[m][j] = Message(id, FALSE)
                 PROVE  \/ Past(m, id)'
                        \/ \E n \in 1..(i - 1) : stream'[m][n] = Message(id, FALSE)
    BY <1>3, <2>1, Zenon
  <2>3. id \in 1..Len(envs) /\ Encrypted(id)
    BY <1>3, <2>1, Zenon
  <2>4. CASE j = 1
    <3>1. Unread(envs, stream[m][1]) /\ id = stream[m][1].id
      BY <2>2, <2>3, <2>4, MessageType, Zenon DEF Unread, Encrypted
    <3>. QED BY <1>5, <3>1, SerialFetch, Zenon
  <2>5. CASE j # 1
    <3>1. j \in 1..Len(stream[m]) /\ j - 1 \in 1..(i - 1)
      BY <2>1, <2>5, StreamType
    <3>2. stream'[m][j - 1] = Message(id, FALSE)
      BY <1>5, <2>2, <2>5, <3>1, TailEntries, Zenon
    <3>. QED BY <3>1, <3>2, Zenon
  <2>. QED BY <2>4, <2>5, Zenon
<1>6. CASE Len(stream'[m]) = 0
  BY <1>1, <1>6
<1>7. ASSUME NEW f \in Messages, stream'[m] = Append(stream[m], f), i # Len(stream[m]) + 1
      PROVE  \/ Past(m, id)'
             \/ \E j \in 1..(i - 1) : stream'[m][j] = Message(id, FALSE)
  <2>1. i \in 1..Len(stream[m]) /\ stream[m][i] = stream'[m][i] /\ Len(stream[m]) \in Nat
    BY <1>1, <1>7, AppendEntries, Zenon
  <2>2. \A j \in 1..(i - 1) : j \in 1..Len(stream[m])
    BY <2>1
  <2>3. \A j \in 1..(i - 1) : stream'[m][j] = stream[m][j]
    BY <1>7, <2>2, AppendEntries, Zenon
  <2>. QED BY <1>3, <2>1, <2>3, Zenon
<1>8. ASSUME NEW x \in unsent, stream'[m] = Append(stream[m], Message(x, FALSE))
      PROVE  \/ Past(m, id)'
             \/ \E j \in 1..(i - 1) : stream'[m][j] = Message(id, FALSE)
  <2>1. PICK f \in Messages : f = Message(x, FALSE) /\ ~f.again
    BY <1>2, MessageType, Zenon
  <2>2. stream'[m][Len(stream[m]) + 1] = f
    BY <1>8, <2>1, AppendEntries, Zenon
  <2>3. i # Len(stream[m]) + 1
    BY <1>1, <2>1, <2>2, Zenon
  <2>. QED BY <1>7, <1>8, <2>1, <2>3, Zenon
<1>9. ASSUME NEW x \in 1..Len(envs), <<x, m>> \in delivered,
             stream'[m] = Append(stream[m], Message(x, TRUE))
      PROVE  \/ Past(m, id)'
             \/ \E j \in 1..(i - 1) : stream'[m][j] = Message(id, FALSE)
  <2>1. PICK f \in Messages : f = Message(x, TRUE) /\ f.id = x
    BY MessageType, Zenon
  <2>2. CASE i = Len(stream[m]) + 1
    <3>0. /\ stream'[m][Len(stream[m]) + 1] = f /\ Len(stream[m]) \in Nat
          /\ \A j \in 1..Len(stream[m]) : stream'[m][j] = stream[m][j]
      BY <1>9, <2>1, AppendEntries, Zenon
    <3>1. id = x /\ i - 1 = Len(stream[m])
      <4>1. stream'[m][i] = f
        BY <2>2, <3>0, Zenon
      <4>2. id = x
        BY <1>1, <2>1, <4>1, Zenon
      <4>3. i - 1 = Len(stream[m])
        BY <2>2, <3>0
      <4>. QED BY <4>2, <4>3, Zenon
    <3>2. Encrypted(id)
      BY <1>1, <1>2, <3>1, Zenon DEF EnvsGrow, Encrypted
    <3>3. CASE Past(m, id)
      BY <3>1, <3>3, PastStays, Zenon
    <3>4. CASE Pending(m, id)
      BY <3>0, <3>1, <3>4, Zenon DEF Pending
    <3>. QED BY <1>2, <1>9, <3>1, <3>2, <3>3, <3>4, Zenon DEF Accounted
  <2>. QED BY <1>7, <1>9, <2>1, <2>2, Zenon
<1>. QED
  BY <1>4, <1>5, <1>6, <1>8, <1>9, StreamShapes, Zenon DEF StreamShape

(* While no commit crosses, no step uses up the key of an unread message.   *)
LEMMA UnopenedStep ==
    ASSUME TypeInv, TypeInv', PostInv, SerialInv, [Next]_vars, ~crossed'
    PROVE  UnreadUnopened'
<1>1. SUFFICES ASSUME NEW m \in Devices, Member(m)', NEW id \in group'[m].opened,
                      NEW i \in 1..Len(stream'[m]), stream'[m][i] = Message(id, FALSE)
               PROVE  FALSE
  BY Zenon DEF UnreadUnopened, Pending
<1>2. /\ UnreadUnopened /\ unsent \subseteq 1..Len(envs)
      /\ stream[m] \in Seq(Messages) /\ Len(stream[m]) \in Nat
  BY CrossedStays, StreamType, Zenon DEF SerialInv, TypeInv
<1>3. Message(id, FALSE).id = id /\ ~Message(id, FALSE).again
  BY Zenon DEF Message
(* A key used before this step.                                             *)
<1>4. ASSUME Member(m), id \in group[m].opened
      PROVE  FALSE
  <2>1. ~Pending(m, id) /\ <<id, m>> \in delivered
    BY <1>2, <1>4, Zenon DEF UnreadUnopened, PostInv
  <2>2. CASE stream'[m] = stream[m]
    BY <1>1, <2>1, <2>2, Zenon DEF Pending
  <2>3. CASE FetchReceive(m)
    <3>1. i + 1 \in 1..Len(stream[m]) /\ stream[m][i + 1] = stream'[m][i]
      BY <1>1, <2>3, TailEntries, Zenon
    <3>. QED BY <1>1, <2>1, <3>1, Zenon DEF Pending
  <2>4. CASE Len(stream'[m]) = 0
    BY <1>1, <2>4
  <2>5. ASSUME NEW x \in 1..Len(envs), NEW f \in Messages, f.id = x,
               stream'[m] = Append(stream[m], f), ~f.again => x \in unsent
        PROVE  FALSE
    <3>1. i = Len(stream[m]) + 1
      <4>1. CASE i \in 1..Len(stream[m])
        BY <1>1, <2>1, <2>5, <4>1, AppendEntries, Zenon DEF Pending
      <4>. QED BY <1>1, <2>5, <4>1, AppendEntries, Zenon
    <3>2. f = Message(id, FALSE)
      BY <1>1, <2>5, <3>1, AppendEntries, Zenon
    <3>3. x = id /\ x \in unsent
      BY <1>3, <2>5, <3>2, Zenon
    <3>. QED BY <2>1, <3>3, Zenon DEF PostInv
  <2>6. CASE \E x \in unsent : stream'[m] = Append(stream[m], Message(x, FALSE))
    BY <1>2, <2>5, <2>6, MessageType, Zenon
  <2>7. CASE \E x \in 1..Len(envs) : stream'[m] = Append(stream[m], Message(x, TRUE))
    BY <2>5, <2>7, MessageType, Zenon
  <2>. QED BY <2>2, <2>3, <2>4, <2>6, <2>7, StreamShapes, Zenon DEF StreamShape
(* The key of the message that is being read.                               *)
<1>5. ASSUME FetchReceive(m), id = stream[m][1].id
      PROVE  FALSE
  <2>1. CASE Unread(envs, stream[m][1])
    <3>1. /\ i + 1 \in 1..Len(stream[m]) /\ stream[m][i + 1] = Message(id, FALSE)
          /\ 1 \in 1..Len(stream[m]) /\ i + 1 # 1
      BY <1>1, <1>5, TailEntries, Zenon
    <3>2. ~stream[m][1].again
      BY <2>1, Zenon DEF Unread
    <3>. QED BY <1>3, <1>5, <3>1, <3>2, Zenon DEF PostInv
  <2>2. CASE ~Unread(envs, stream[m][1])
    <3>1. group'[m] = group[m]
      BY <1>5, <2>2, SerialFetch, Zenon
    <3>. QED BY <1>1, <1>4, <3>1, Zenon DEF Member
  <2>. QED BY <2>1, <2>2, Zenon
<1>. QED
  BY <1>1, <1>4, <1>5, OpenedMove, Zenon

(* At most one encrypted envelope waits to be sent.                         *)
LEMMA OneUnsentStep ==
    ASSUME TypeInv, SerialInv, [Next]_vars, ~crossed'
    PROVE  OneUnsent'
<1>1. OneUnsent /\ EnvsGrow /\ unsent \subseteq 1..Len(envs)
  BY CrossedStays, StepEnvs, Zenon DEF SerialInv, TypeInv
<1>2. ASSUME unsent' \subseteq unsent
      PROVE  OneUnsent'
  BY <1>1, <1>2, Zenon DEF OneUnsent, Encrypted, EnvsGrow
<1>3. ASSUME NEW m \in Devices, SendEncrypt(m)
      PROVE  OneUnsent'
  <2>1. /\ unsent' = unsent \cup {Len(envs) + 1} /\ envs' = Append(envs, Encrypt(m))
        /\ ~(Member(m) /\ Unsent)
    BY <1>3, Zenon DEF SendEncrypt
  <2>2. envs'[Len(envs) + 1] = Encrypt(m)
    BY <2>1, EncryptType, AppendSeq, SMTT(60) DEF TypeInv
  <2>3. CASE Member(m)
    <3>1. \A id \in unsent : ~Encrypted(id)'
      BY <1>1, <2>1, <2>3, Zenon DEF Unsent, Encrypted, EnvsGrow
    <3>. QED BY <2>1, <3>1, Zenon DEF OneUnsent
  <2>4. CASE ~Member(m)
    <3>1. envs'[Len(envs) + 1].kind = "raw"
      BY <2>2, <2>4 DEF Encrypt, Raw
    <3>2. \A i \in unsent' : Encrypted(i)' => i \in unsent /\ Encrypted(i)
      BY <1>1, <2>1, <3>1, Zenon DEF Encrypted, EnvsGrow
    <3>. QED BY <1>1, <3>2, Zenon DEF OneUnsent
  <2>. QED BY <2>3, <2>4, Zenon
<1>4. ASSUME NEW m \in Devices,
             \/ CreateMlsGroup(m) \/ OpenMlsGroupFromWelcome(m) \/ RegisterRatchet(m)
             \/ BareFetchStart(m) \/ BareFetchEnds(m) \/ ConnectionLost(m)
             \/ FetchReceive(m)
      PROVE  unsent' = unsent
  BY <1>4, Zenon DEF CreateMlsGroup, OpenMlsGroupFromWelcome, RegisterRatchet,
              BareFetchStart, BareFetchEnds, ConnectionLost, FetchReceive
<1>5. ASSUME NEW m, NEW p, MlsAddMember(m, p) PROVE unsent' = unsent
  BY <1>5, Zenon DEF MlsAddMember
<1>6. ASSUME NEW id, SendFails(id) \/ SendRelayed(id) PROVE unsent' \subseteq unsent
  BY <1>6, Zenon DEF SendFails, SendRelayed
<1>7. ASSUME NEW id, NEW m, Redeliver(id, m) PROVE unsent' = unsent
  BY <1>7, Zenon DEF Redeliver
<1>8. ASSUME UNCHANGED vars PROVE unsent' = unsent
  BY <1>8, Zenon DEF vars
<1>. QED
  BY <1>2, <1>3, <1>4, <1>5, <1>6, <1>7, <1>8, Zenon DEF Next

-----------------------------------------------------------------------------
(* A serial chat: the chains and their end.                                 *)

(* Device p reads on to the same end as before.                             *)
Keeps(p) ==
    Invited(p)' =>
        /\ Invited(p)
        /\ Chain(envs', stream'[p], Cur(p)')
        /\ \A h : End(envs, stream[p], Cur(p), h) => End(envs', stream'[p], Cur(p)', h)

(* Device s, the sender of an unsent envelope, stays as it is.              *)
SenderKept(s) ==
    Member(s) /\ Quiet(s) => Member(s)' /\ Quiet(s)' /\ group'[s].hist = group[s].hist

SameUnsent ==
    \A id : /\ id \in unsent' /\ Encrypted(id)' <=> id \in unsent /\ Encrypted(id)
            /\ id \in unsent /\ Encrypted(id) => envs'[id] = envs[id]

(* Chains and their common end survive a step that keeps each device's      *)
(* chain and end and the unsent envelope.                                   *)
LEMMA ChainsKept ==
    ASSUME TypeInv, InStep, OneEnd, SameUnsent,
           \A p \in Devices : Keeps(p) /\ SenderKept(p)
    PROVE  InStep' /\ OneEnd'
<1>1. InStep'
  BY Zenon DEF InStep, Keeps
<1>2. PICK h : Ends(h)
  BY Zenon DEF OneEnd
<1>3. ASSUME NEW id \in unsent', Encrypted(id)', NEW s, s = envs'[id].from
      PROVE  /\ envs'[id].parent = h
             /\ Member(s)' /\ group'[s].hist = envs'[id].hist /\ Quiet(s)'
  <2>1. id \in unsent /\ Encrypted(id) /\ envs'[id] = envs[id]
    BY <1>3, Zenon DEF SameUnsent
  <2>2. s \in Devices
    BY <1>3, <2>1, EnvType, Zenon DEF TypeInv
  <2>3. Member(s) /\ Quiet(s) /\ group[s].hist = envs[id].hist /\ envs[id].parent = h
    BY <1>2, <1>3, <2>1, ZenonT(60) DEF Ends
  <2>. QED BY <2>1, <2>2, <2>3, Zenon DEF SenderKept
<1>4. ASSUME NEW p \in Devices, Invited(p)'
      PROVE  \/ End(envs', stream'[p], Cur(p)', h)
             \/ \E id \in unsent' : Encrypted(id)' /\ envs'[id].from = p
  <2>1. \/ End(envs, stream[p], Cur(p), h)
        \/ \E id \in unsent : Encrypted(id) /\ envs[id].from = p
    BY <1>2, <1>4, Zenon DEF Ends, Keeps
  <2>. QED BY <1>4, <2>1, Zenon DEF Keeps, SameUnsent
<1>5. Ends(h)'
  BY <1>3, <1>4, Zenon DEF Ends
<1>. QED
  BY <1>1, <1>5, Zenon DEF OneEnd

(* A device whose stream and state do not change keeps its chain.           *)
LEMMA KeepsSame ==
    ASSUME TypeInv, InStep, EnvsGrow, NEW p \in Devices, stream'[p] = stream[p],
           Invited(p)' => Invited(p) /\ Cur(p)' = Cur(p)
    PROVE  Keeps(p)
<1>1. stream[p] \in Seq(Messages)
  BY StreamType, Zenon
<1>2. \A j \in 1..Len(stream[p]) : envs'[stream[p][j].id] = envs[stream[p][j].id]
  BY StreamType, Zenon DEF EnvsGrow
<1>3. /\ Chain(envs, stream[p], Cur(p)) => Chain(envs', stream[p], Cur(p))
      /\ \A h : End(envs, stream[p], Cur(p), h) => End(envs', stream[p], Cur(p), h)
  BY <1>1, <1>2, ChainEnvs, Zenon
<1>. QED
  BY <1>3, Zenon DEF Keeps, InStep

(* A quiet stream that does not change stays quiet.                         *)
LEMMA QuietSame ==
    ASSUME TypeInv, EnvsGrow, NEW p \in Devices, stream'[p] = stream[p], Quiet(p)
    PROVE  Quiet(p)'
<1>1. \A j \in 1..Len(stream[p]) : envs'[stream[p][j].id] = envs[stream[p][j].id]
  BY StreamType, Zenon DEF EnvsGrow
<1>. QED
  BY <1>1, Zenon DEF Quiet, Unread

(* Steps that leave streams and unsent envelopes alone, and change no       *)
(* group that is there.                                                     *)
LEMMA ChainsQuiet ==
    ASSUME TypeInv, InStep, OneEnd, EnvsGrow, SameUnsent, stream' = stream,
           \A p \in Devices :
              /\ Invited(p)' => Invited(p) /\ Cur(p)' = Cur(p)
              /\ Member(p) => Member(p)' /\ group'[p].hist = group[p].hist
    PROVE  InStep' /\ OneEnd'
<1>1. ASSUME NEW p \in Devices
      PROVE  Keeps(p) /\ SenderKept(p)
  BY KeepsSame, QuietSame, Zenon DEF SenderKept
<1>. QED
  BY <1>1, ChainsKept, Zenon

(* No new envelope and none sent: nothing changes about them.               *)
LEMMA SameEnvs ==
    ASSUME TypeInv, UNCHANGED <<envs, unsent>>
    PROVE  EnvsGrow /\ SameUnsent
<1>1. Len(envs) \in Nat
  BY EnvType, Zenon
<1>2. EnvsGrow
  BY <1>1 DEF EnvsGrow
<1>3. \A id : Encrypted(id)' <=> Encrypted(id)
  BY Zenon DEF Encrypted
<1>. QED
  BY <1>2, <1>3, Zenon DEF SameUnsent

(* A device nobody invited was sent nothing.                                *)
LEMMA UninvitedQuiet ==
    ASSUME TypeInv, PostInv, NEW p \in Devices, ~Invited(p)
    PROVE  Quiet(p)
<1>1. ASSUME NEW i \in 1..Len(stream[p]) PROVE FALSE
  <2>1. stream[p][i].id \in 1..Len(envs) /\ <<stream[p][i].id, p>> \in delivered
    BY <1>1, StreamType, Zenon DEF PostInv
  <2>. QED BY <2>1, Zenon DEF PostInv
<1>. QED
  BY <1>1, Zenon DEF Quiet

(* A quiet device is at the end of its chain.                               *)
LEMMA QuietEnd ==
    ASSUME TypeInv, NEW p \in Devices, Quiet(p), NEW cur
    PROVE  /\ Chain(envs, stream[p], cur)
           /\ \A h : End(envs, stream[p], cur, h) <=> h = cur
<1>1. stream[p] \in Seq(Messages)
  BY StreamType, Zenon
<1>. QED
  BY <1>1, ChainQuiet, Zenon DEF Quiet

(* The same after a step that leaves its stream alone.                      *)
LEMMA QuietEndAfter ==
    ASSUME TypeInv, EnvsGrow, NEW p \in Devices, Quiet(p), stream'[p] = stream[p], NEW cur
    PROVE  /\ Chain(envs', stream'[p], cur)
           /\ End(envs', stream'[p], cur, cur)
<1>1. stream'[p] \in Seq(Messages)
  BY StreamType, Zenon
<1>2. \A i \in 1..Len(stream'[p]) : ~Unread(envs', stream'[p][i])
  BY QuietSame, Zenon DEF Quiet
<1>. QED
  BY <1>1, <1>2, ChainQuiet, Zenon

(* The first device of the chat: create_mls_group.                          *)
LEMMA ChainsCreate ==
    ASSUME TypeInv, PostInv, InStep, OneEnd, NEW m \in Devices, CreateMlsGroup(m)
    PROVE  InStep' /\ OneEnd'
<1>1. /\ \A p \in Devices : ~Invited(p)
      /\ group' = [group EXCEPT ![m] = GroupAt(<< >>)]
      /\ UNCHANGED <<welcome, envs, unsent, stream>>
      /\ DOMAIN group = Devices
  BY Zenon DEF CreateMlsGroup, CreatePrivate, membership, TypeInv
<1>2. \A id \in unsent : ~Encrypted(id)
  <2>1. PICK h : Ends(h)
    BY Zenon DEF OneEnd
  <2>. QED BY <1>1, <2>1, EnvType, Zenon DEF Ends, Invited, TypeInv
<1>3. /\ \A p \in Devices : Invited(p)' => p = m
      /\ Member(m)' /\ Cur(m)' = << >>
  BY <1>1, Zenon DEF Invited, Member, Cur, GroupAt
<1>4. EnvsGrow
  BY <1>1, SameEnvs, Zenon
<1>5. Chain(envs', stream'[m], << >>) /\ End(envs', stream'[m], << >>, << >>)
  BY <1>1, <1>4, UninvitedQuiet, QuietEndAfter, Zenon
<1>6. \A id \in unsent' : ~Encrypted(id)'
  BY <1>1, <1>2, Zenon DEF Encrypted
<1>7. Ends(<< >>)'
  BY <1>3, <1>5, <1>6, Zenon DEF Ends
<1>. QED
  BY <1>3, <1>5, <1>7, Zenon DEF InStep, OneEnd

(* mls_add_member moves on the only device with nothing to read and gives   *)
(* the new one the same state.                                              *)
LEMMA ChainsAdd ==
    ASSUME TypeInv, PostInv, InStep, OneEnd, NEW m \in Devices, NEW p \in Devices,
           MlsAddMember(m, p), ~crossed'
    PROVE  InStep' /\ OneEnd'
<1>1. PICK h : h = Append(group[m].hist, <<m, p>>)
  BY Zenon
<1>2. /\ Member(m) /\ ~Invited(p) /\ p # m
      /\ group' = [group EXCEPT ![m] = GroupAt(h)]
      /\ welcome' = [welcome EXCEPT ![p] = WelcomeAt(h)]
      /\ UNCHANGED <<envs, unsent, stream>>
      /\ ~HasUnread(m) /\ ~Unsent /\ \A q \in Devices \ {m} : ~Invited(q)
      /\ DOMAIN group = Devices /\ DOMAIN welcome = Devices
  <2>1. LET g == AddMembers(group[m], m, p)
        IN  /\ group' = [group EXCEPT ![m] = g]
            /\ welcome' = [welcome EXCEPT ![p] = WelcomeAt(g.hist)]
    BY Zenon DEF MlsAddMember
  <2>2. AddMembers(group[m], m, p) = GroupAt(h) /\ GroupAt(h).hist = h
    BY <1>1, Zenon DEF AddMembers, GroupAt
  <2>. QED BY <2>1, <2>2, Zenon DEF MlsAddMember, TypeInv, Invited
<1>3. /\ \A q \in Devices : Invited(q)' => q = m \/ q = p
      /\ Cur(m)' = h /\ Cur(p)' = h
  BY <1>2, Zenon DEF Invited, Member, Cur, GroupAt, WelcomeAt
<1>4. EnvsGrow
  BY <1>2, SameEnvs, Zenon
<1>5. \A q \in {m, p} : Chain(envs', stream'[q], h) /\ End(envs', stream'[q], h, h)
  <2>1. Quiet(m) /\ Quiet(p)
    BY <1>2, QuietStream, UninvitedQuiet, Zenon
  <2>. QED BY <1>2, <1>4, <2>1, QuietEndAfter, Zenon
<1>6. \A id \in unsent' : ~Encrypted(id)'
  BY <1>2, Zenon DEF Encrypted, Unsent
<1>7. Ends(h)'
  BY <1>3, <1>5, <1>6, Zenon DEF Ends
<1>8. InStep'
  BY <1>3, <1>5, Zenon DEF InStep
<1>. QED
  BY <1>7, <1>8, Zenon DEF OneEnd

(* Encrypting, with or without a rekey, puts the sender one envelope ahead  *)
(* of the common end.                                                       *)
LEMMA ChainsEncrypt ==
    ASSUME TypeInv, InStep, OneEnd, EnvsGrow, NEW m \in Devices, SendEncrypt(m), ~crossed'
    PROVE  InStep' /\ OneEnd'
<1>1. PICK new, e : new = Len(envs) + 1 /\ e = Encrypt(m)
  BY Zenon
<1>2. /\ envs' = Append(envs, e) /\ unsent' = unsent \cup {new}
      /\ group' = [group EXCEPT ![m] = GroupAfterEncrypt(m)]
      /\ UNCHANGED <<welcome, stream>> /\ DOMAIN group = Devices
      /\ ~(Member(m) /\ (HasUnread(m) \/ Unsent))
  BY <1>1, Zenon DEF SendEncrypt, membership, TypeInv
<1>3. envs'[new] = e /\ new \notin unsent /\ unsent \subseteq 1..Len(envs)
  <2>1. e \in Envelope /\ envs \in Seq(Envelope) /\ unsent \subseteq 1..Len(envs)
    BY <1>1, EncryptType, Zenon DEF TypeInv
  <2>2. new \notin 1..Len(envs)
    BY <1>1, EnvType
  <2>3. envs'[new] = e
    BY <1>1, <1>2, <2>1, AppendSeq, Zenon
  <2>. QED BY <2>1, <2>2, <2>3, Zenon
<1>4. \A id \in unsent : envs'[id] = envs[id]
  BY <1>3, Zenon DEF EnvsGrow
<1>5. CASE ~Member(m)
  <2>1. e.kind = "raw" /\ \A p \in Devices : group'[p] = group[p]
    BY <1>1, <1>2, <1>5, Zenon DEF Encrypt, Raw, GroupAfterEncrypt
  <2>2. SameUnsent
    BY <1>2, <1>3, <1>4, <2>1, Zenon DEF SameUnsent, Encrypted
  <2>3. \A p \in Devices :
           /\ Invited(p)' => Invited(p) /\ Cur(p)' = Cur(p)
           /\ Member(p) => Member(p)' /\ group'[p].hist = group[p].hist
    BY <1>2, <2>1, Zenon DEF Invited, Cur, Member
  <2>. QED BY <1>2, <2>2, <2>3, ChainsQuiet, Zenon
<1>6. CASE Member(m)
  <2>1. e.kind # "raw"
    BY <1>1, <1>6, Zenon DEF Encrypt, EncryptWithRekeyAuthenticated, EncryptApplication
  <2>2. /\ e.parent = group[m].hist /\ e.from = m
        /\ Member(m)' /\ group'[m].hist = e.hist
    BY <1>1, <1>2, <2>1, EncryptType, Zenon DEF Member
  <2>3. Quiet(m) /\ \A id \in unsent : ~Encrypted(id)
    BY <1>2, <1>6, QuietStream, Zenon DEF Unsent, Encrypted
  <2>4. PICK h : Ends(h)
    BY Zenon DEF OneEnd
  <2>5. h = group[m].hist
    <3>1. End(envs, stream[m], Cur(m), h)
      BY <1>6, <2>3, <2>4, Zenon DEF Ends, Invited
    <3>2. Cur(m) = group[m].hist
      BY <1>6, Zenon DEF Cur
    <3>3. End(envs, stream[m], group[m].hist, h)
      BY <3>1, <3>2, Zenon
    <3>. QED BY <2>3, <3>3, QuietEnd, ZenonT(60)
  <2>6. ASSUME NEW p \in Devices, p # m
        PROVE  Keeps(p)
    <3>1. Invited(p)' => Invited(p) /\ Cur(p)' = Cur(p)
      BY <1>2, <2>6, Zenon DEF Invited, Cur, Member
    <3>. QED BY <1>2, <3>1, KeepsSame, Zenon
  <2>7. InStep'
    <3>1. Chain(envs', stream'[m], Cur(m)')
      BY <1>2, <2>3, QuietEndAfter, Zenon
    <3>. QED BY <2>6, <3>1, Zenon DEF InStep, Keeps
  <2>8. Quiet(m)'
    BY <1>2, <2>3, QuietSame, Zenon
  <2>9. \A id \in unsent' : Encrypted(id)' => id = new
    BY <1>2, <1>4, <2>3, Zenon DEF Encrypted
  <2>10. Encrypted(new)'
    BY <1>3, <2>1, Zenon DEF Encrypted
  <2>11. ASSUME NEW p \in Devices, Invited(p)'
         PROVE  \/ End(envs', stream'[p], Cur(p)', h)
                \/ \E id \in unsent' : Encrypted(id)' /\ envs'[id].from = p
    <3>1. CASE p = m
      BY <1>2, <1>3, <2>2, <2>10, <3>1, Zenon
    <3>2. CASE p # m
      <4>1. Keeps(p) /\ Invited(p)
        BY <2>6, <2>11, <3>2, Zenon DEF Keeps
      <4>2. End(envs, stream[p], Cur(p), h)
        BY <2>3, <2>4, <4>1, Zenon DEF Ends
      <4>. QED BY <2>11, <4>1, <4>2, Zenon DEF Keeps
    <3>. QED BY <3>1, <3>2, Zenon
  <2>12. Ends(h)'
    BY <1>3, <2>2, <2>5, <2>8, <2>9, <2>11, Zenon DEF Ends
  <2>. QED BY <2>7, <2>12, Zenon DEF OneEnd
<1>. QED
  BY <1>5, <1>6, Zenon

(* The relay passes on a raw text or a repeated message: nothing unread.    *)
LEMMA KeepsAppend ==
    ASSUME TypeInv, InStep, NEW p \in Devices, NEW f \in Messages, ~Unread(envs, f),
           stream'[p] = Append(stream[p], f), UNCHANGED <<group, welcome, envs>>
    PROVE  Keeps(p) /\ SenderKept(p)
<1>1. stream[p] \in Seq(Messages) /\ (Invited(p)' <=> Invited(p)) /\ Cur(p)' = Cur(p)
  BY StreamType, Zenon DEF Invited, Cur, Member
<1>2. Keeps(p)
  BY <1>1, ChainAppend, Zenon DEF Keeps, InStep
<1>3. Quiet(p) => Quiet(p)'
  BY AppendEntries DEF Quiet
<1>. QED
  BY <1>2, <1>3, Zenon DEF SenderKept, Member

(* A repeated message is not part of a chain.                               *)
LEMMA ChainsRedeliver ==
    ASSUME TypeInv, InStep, OneEnd, NEW id \in 1..Len(envs), NEW m \in Devices, Redeliver(id, m)
    PROVE  InStep' /\ OneEnd'
<1>1. PICK f \in Messages : f = Message(id, TRUE) /\ f.again
  BY MessageType, Zenon
<1>2. /\ stream' = [stream EXCEPT ![m] = Append(stream[m], f)] /\ DOMAIN stream = Devices
      /\ UNCHANGED <<group, welcome, envs, unsent>>
  BY <1>1, Zenon DEF Redeliver, membership, TypeInv
<1>3. ~Unread(envs, f)
  BY <1>1, Zenon DEF Unread
<1>4. EnvsGrow /\ SameUnsent
  BY <1>2, SameEnvs, Zenon
<1>5. ASSUME NEW p \in Devices
      PROVE  Keeps(p) /\ SenderKept(p)
  <2>1. CASE p = m
    BY <1>2, <1>3, <2>1, KeepsAppend, Zenon
  <2>2. CASE p # m
    <3>1. stream'[p] = stream[p] /\ (Invited(p)' => Invited(p) /\ Cur(p)' = Cur(p))
      BY <1>2, <2>2, Zenon DEF Invited, Cur, Member
    <3>2. Keeps(p)
      BY <1>4, <3>1, KeepsSame, Zenon
    <3>. QED BY <1>2, <1>4, <3>1, <3>2, QuietSame, Zenon DEF SenderKept, Member
  <2>. QED BY <2>1, <2>2, Zenon
<1>. QED
  BY <1>4, <1>5, ChainsKept, Zenon

(* Neither are bytes that are not encrypted.                                *)
LEMMA ChainsRelayRaw ==
    ASSUME TypeInv, InStep, OneEnd, NEW id \in 1..Len(envs), SendRelayed(id), ~Encrypted(id)
    PROVE  InStep' /\ OneEnd'
<1>1. PICK f \in Messages : f = Message(id, FALSE) /\ f.id = id
  BY MessageType, Zenon
<1>2. /\ stream' = [p \in Devices |-> IF p \in Recipients(id)
                      THEN Append(stream[p], f) ELSE stream[p]]
      /\ unsent' = unsent \ {id}
      /\ UNCHANGED <<group, welcome, envs>>
  BY <1>1, Zenon DEF SendRelayed, membership
<1>3. ~Unread(envs, f)
  BY <1>1, Zenon DEF Unread, Encrypted
<1>4. EnvsGrow
  BY <1>2, EnvType DEF EnvsGrow
<1>5. SameUnsent
  BY <1>2, Zenon DEF SameUnsent, Encrypted
<1>6. ASSUME NEW p \in Devices
      PROVE  Keeps(p) /\ SenderKept(p)
  <2>1. CASE p \in Recipients(id)
    <3>1. stream'[p] = Append(stream[p], f)
      BY <1>2, <2>1, Zenon
    <3>. QED BY <1>2, <1>3, <3>1, KeepsAppend, Zenon
  <2>2. CASE p \notin Recipients(id)
    <3>1. stream'[p] = stream[p] /\ (Invited(p)' => Invited(p) /\ Cur(p)' = Cur(p))
      BY <1>2, <2>2, Zenon DEF Invited, Cur, Member
    <3>2. Keeps(p)
      BY <1>4, <3>1, KeepsSame, Zenon
    <3>. QED BY <1>2, <1>4, <3>1, <3>2, QuietSame, Zenon DEF SenderKept, Member
  <2>. QED BY <2>1, <2>2, Zenon
<1>. QED
  BY <1>5, <1>6, ChainsKept, Zenon

(* Relaying the one encrypted envelope extends all other chains to the      *)
(* sender's state.                                                          *)
LEMMA ChainsRelay ==
    ASSUME TypeInv, InStep, OneUnsent, OneEnd, NEW id \in 1..Len(envs), SendRelayed(id),
           Encrypted(id)
    PROVE  InStep' /\ OneEnd'
<1>1. PICK f \in Messages : f = Message(id, FALSE) /\ f.id = id /\ ~f.again
  BY MessageType, Zenon
<1>2. PICK s \in Devices, e \in Envelope : e = envs[id] /\ s = e.from
  BY EnvType, Zenon
<1>3. /\ id \in unsent /\ unsent' = unsent \ {id}
      /\ stream' = [p \in Devices |-> IF p \in Recipients(id)
                      THEN Append(stream[p], f) ELSE stream[p]]
      /\ UNCHANGED <<group, welcome, envs>>
  BY <1>1, Zenon DEF SendRelayed, membership
<1>4. EnvsGrow
  BY <1>3, EnvType DEF EnvsGrow
<1>5. PICK h : Ends(h)
  BY Zenon DEF OneEnd
<1>6. e.parent = h /\ Member(s) /\ group[s].hist = e.hist /\ Quiet(s)
  BY <1>2, <1>3, <1>5, Zenon DEF Ends
<1>7. \A x \in unsent : Encrypted(x) => x = id
  BY <1>3, Zenon DEF OneUnsent
<1>8. \A x \in unsent' : ~Encrypted(x)'
  BY <1>3, <1>7, Zenon DEF Encrypted
<1>9. \A p \in Devices : (Invited(p)' <=> Invited(p)) /\ Cur(p)' = Cur(p)
  BY <1>3, Zenon DEF Invited, Cur, Member
<1>10. Unread(envs, f) /\ envs[f.id] = e
  BY <1>1, <1>2, Zenon DEF Unread, Encrypted
<1>11. ASSUME NEW p \in Devices, Invited(p)
       PROVE  Chain(envs', stream'[p], Cur(p)') /\ End(envs', stream'[p], Cur(p)', e.hist)
  <2>1. CASE p = s
    <3>1. stream'[p] = stream[p] /\ Cur(p)' = e.hist
      BY <1>2, <1>3, <1>6, <1>9, <2>1, Zenon DEF Recipients, Cur
    <3>. QED BY <1>4, <1>6, <2>1, <3>1, QuietEndAfter, Zenon
  <2>2. CASE p # s
    <3>1. stream'[p] = Append(stream[p], f) /\ stream[p] \in Seq(Messages)
      BY <1>2, <1>3, <1>11, <2>2, StreamType, Zenon DEF Recipients
    <3>2. End(envs, stream[p], Cur(p), h)
      BY <1>2, <1>5, <1>7, <1>11, <2>2, Zenon DEF Ends
    <3>3. Chain(envs, stream[p], Cur(p))
      BY <1>11, Zenon DEF InStep
    <3>4. /\ Chain(envs, Append(stream[p], f), Cur(p))
          /\ End(envs, Append(stream[p], f), Cur(p), e.hist)
      BY <1>6, <1>10, <3>1, <3>2, <3>3, ChainAppend, Zenon
    <3>. QED BY <1>3, <1>9, <3>1, <3>4, Zenon
  <2>. QED BY <2>1, <2>2, Zenon
<1>12. InStep'
  BY <1>9, <1>11, Zenon DEF InStep
<1>13. Ends(e.hist)'
  BY <1>8, <1>9, <1>11, Zenon DEF Ends
<1>. QED
  BY <1>12, <1>13, Zenon DEF OneEnd

(* A send that fails without losing a commit moves the sender nowhere.      *)
LEMMA ChainsFail ==
    ASSUME TypeInv, InStep, OneUnsent, OneEnd, NEW id \in 1..Len(envs), SendFails(id), ~crossed'
    PROVE  InStep' /\ OneEnd'
<1>1. /\ id \in unsent /\ unsent' = unsent \ {id} /\ envs[id].kind # "v3"
      /\ UNCHANGED <<group, welcome, envs, stream>>
  BY Zenon DEF SendFails, membership
<1>2. EnvsGrow
  BY <1>1, EnvType DEF EnvsGrow
<1>3. \A p \in Devices :
         /\ (Invited(p)' <=> Invited(p)) /\ Cur(p)' = Cur(p)
         /\ Member(p) => Member(p)' /\ group'[p].hist = group[p].hist
  BY <1>1, Zenon DEF Invited, Cur, Member
<1>4. CASE ~Encrypted(id)
  <2>1. SameUnsent
    BY <1>1, <1>4, Zenon DEF SameUnsent, Encrypted
  <2>. QED BY <1>1, <1>2, <1>3, <2>1, ChainsQuiet, Zenon
<1>5. CASE Encrypted(id)
  <2>1. PICK s \in Devices, e \in Envelope : e = envs[id] /\ s = e.from
    BY EnvType, Zenon
  <2>2. e.hist = e.parent
    <3>1. envs[id] \in Envelope /\ WellFormed(envs[id])
      BY EnvType, Zenon
    <3>. QED BY <1>1, <1>5, <2>1, <3>1, Zenon DEF Envelope, WellFormed, Encrypted
  <2>3. PICK h : Ends(h)
    BY Zenon DEF OneEnd
  <2>4. e.parent = h /\ Member(s) /\ group[s].hist = e.hist /\ Quiet(s)
    BY <1>1, <1>5, <2>1, <2>3, Zenon DEF Ends
  <2>5. \A x \in unsent : Encrypted(x) => x = id
    BY <1>1, <1>5, Zenon DEF OneUnsent
  <2>6. \A x \in unsent' : ~Encrypted(x)'
    BY <1>1, <2>5, Zenon DEF Encrypted
  <2>7. ASSUME NEW p \in Devices, Invited(p)
        PROVE  End(envs, stream[p], Cur(p), h)
    <3>1. CASE p = s
      BY <2>2, <2>4, <3>1, QuietEnd, Zenon DEF Cur
    <3>2. CASE p # s
      BY <2>1, <2>3, <2>5, <2>7, <3>2, Zenon DEF Ends
    <3>. QED BY <3>1, <3>2, Zenon
  <2>8. Ends(h)'
    <3>1. \A p \in Devices : Invited(p)' => End(envs', stream'[p], Cur(p)', h)
      BY <1>1, <1>3, <2>7, Zenon
    <3>. QED BY <2>6, <3>1, Zenon DEF Ends
  <2>9. InStep'
    BY <1>1, <1>3, Zenon DEF InStep
  <2>. QED BY <2>8, <2>9, Zenon DEF OneEnd
<1>. QED
  BY <1>4, <1>5, Zenon

(* A connection lost with nothing unread loses nothing of a chain.          *)
LEMMA ChainsLost ==
    ASSUME TypeInv, InStep, OneEnd, NEW m \in Devices, ConnectionLost(m), ~crossed'
    PROVE  InStep' /\ OneEnd'
<1>1. /\ stream' = [stream EXCEPT ![m] = << >>] /\ DOMAIN stream = Devices
      /\ UNCHANGED <<group, welcome, envs, unsent>> /\ ~HasUnread(m)
  BY Zenon DEF ConnectionLost, membership, TypeInv
<1>2. EnvsGrow /\ SameUnsent
  BY <1>1, SameEnvs, Zenon
<1>3. \A p \in Devices :
         /\ (Invited(p)' <=> Invited(p)) /\ Cur(p)' = Cur(p)
         /\ Member(p) => Member(p)' /\ group'[p].hist = group[p].hist
  BY <1>1, Zenon DEF Invited, Cur, Member
<1>4. ASSUME NEW p \in Devices
      PROVE  Keeps(p) /\ SenderKept(p)
  <2>1. CASE p = m
    <3>1. Quiet(m) /\ stream'[m] = << >> /\ << >> \in Seq(Messages)
      BY <1>1, QuietStream
    <3>2. \A i \in 1..Len(stream'[m]) : FALSE
      BY <3>1
    <3>3. /\ Chain(envs', stream'[m], Cur(m)')
          /\ \A h : End(envs', stream'[m], Cur(m)', h) <=> h = Cur(m)'
      <4>1. PICK E, q, cur : E = envs' /\ q = stream'[m] /\ cur = Cur(m)'
        BY Zenon
      <4>2. q \in Seq(Messages) /\ \A i \in 1..Len(q) : ~Unread(E, q[i])
        BY <3>1, <3>2, <4>1, Zenon
      <4>3. Chain(E, q, cur) /\ \A h : End(E, q, cur, h) <=> h = cur
        BY <4>2, ChainQuiet, Zenon
      <4>. QED BY <4>1, <4>3, Zenon
    <3>4. \A h : End(envs, stream[m], Cur(m), h) <=> h = Cur(m)
      BY <3>1, QuietEnd, ZenonT(60)
    <3>5. Keeps(m)
      BY <1>3, <3>3, <3>4, Zenon DEF Keeps
    <3>6. Quiet(m)'
      BY <3>2, Zenon DEF Quiet
    <3>. QED BY <1>3, <2>1, <3>5, <3>6, Zenon DEF SenderKept
  <2>2. CASE p # m
    <3>1. stream'[p] = stream[p]
      BY <1>1, <2>2, Zenon
    <3>2. Keeps(p)
      BY <1>2, <1>3, <3>1, KeepsSame, Zenon
    <3>. QED BY <1>2, <1>3, <3>1, <3>2, QuietSame, Zenon DEF SenderKept
  <2>. QED BY <2>1, <2>2, Zenon
<1>. QED
  BY <1>2, <1>4, ChainsKept, Zenon

(* Reading the first message of a chain shortens it from the front.         *)
LEMMA ChainsFetch ==
    ASSUME TypeInv, TypeInv', PostInv, SerialInv, NEW m \in Devices, FetchReceive(m), ~crossed'
    PROVE  InStep' /\ OneEnd'
<1>1. PICK id : id = stream[m][1].id
  BY Zenon
<1>2. /\ ~crossed
      /\ Unread(envs, stream[m][1]) =>
            /\ m \notin bare /\ Member(m) /\ Past(m, id)'
            /\ group'[m].hist = envs[id].hist
      /\ ~Unread(envs, stream[m][1]) => group'[m] = group[m]
  BY <1>1, SerialFetch, Zenon
<1>3. /\ UNCHANGED <<welcome, envs, unsent>>
      /\ stream'[m] = Tail(stream[m]) /\ 1 \in 1..Len(stream[m])
      /\ \A p \in Devices \ {m} : group'[p] = group[p] /\ stream'[p] = stream[p]
  BY FetchFacts, Zenon
<1>4. InStep /\ OneEnd
  BY <1>2, Zenon DEF SerialInv
<1>5. EnvsGrow /\ SameUnsent
  BY <1>3, SameEnvs, Zenon
<1>6. Invited(m)
  <2>1. id \in 1..Len(envs) /\ <<id, m>> \in delivered
    BY <1>1, <1>3, StreamType, ZenonT(60) DEF PostInv
  <2>. QED BY <2>1, Zenon DEF PostInv
<1>7. Keeps(m)
  <2>1. stream[m] \in Seq(Messages) /\ stream[m] # << >>
    BY <1>3, StreamType
  <2>2. Chain(envs, stream[m], Cur(m))
    BY <1>4, <1>6, Zenon DEF InStep
  <2>3. Cur(m)' = IF Unread(envs, stream[m][1]) THEN envs[stream[m][1].id].hist ELSE Cur(m)
    <3>1. CASE Unread(envs, stream[m][1])
      BY <1>1, <1>2, <3>1, Zenon DEF Cur, Past
    <3>2. CASE ~Unread(envs, stream[m][1])
      BY <1>2, <1>3, <3>2, Zenon DEF Cur, Member
    <3>. QED BY <3>1, <3>2, Zenon
  <2>4. /\ Chain(envs, Tail(stream[m]), Cur(m)')
        /\ \A h : End(envs, stream[m], Cur(m), h) => End(envs, Tail(stream[m]), Cur(m)', h)
    BY <2>1, <2>2, <2>3, ChainTail, Zenon
  <2>. QED BY <1>3, <1>6, <2>4, Zenon DEF Keeps
<1>8. SenderKept(m)
  <2>1. SUFFICES ASSUME Member(m), Quiet(m)
                 PROVE  Member(m)' /\ Quiet(m)' /\ group'[m].hist = group[m].hist
    BY Zenon DEF SenderKept
  <2>2. group'[m] = group[m]
    BY <1>2, <1>3, <2>1, Zenon DEF Quiet
  <2>3. Quiet(m)'
    BY <1>3, <2>1, TailEntries DEF Quiet
  <2>. QED BY <2>1, <2>2, <2>3, Zenon DEF Member
<1>9. ASSUME NEW p \in Devices, p # m
      PROVE  Keeps(p) /\ SenderKept(p)
  <2>1. /\ stream'[p] = stream[p] /\ group'[p] = group[p]
        /\ Invited(p)' => Invited(p) /\ Cur(p)' = Cur(p)
    BY <1>3, <1>9, Zenon DEF Invited, Cur, Member
  <2>2. Keeps(p)
    BY <1>4, <1>5, <2>1, KeepsSame, Zenon
  <2>. QED BY <1>5, <2>1, <2>2, QuietSame, ZenonT(60) DEF SenderKept, Member
<1>. QED
  BY <1>4, <1>5, <1>7, <1>8, <1>9, ChainsKept, Zenon

(* Joining from the Welcome takes up the state of the Welcome.              *)
LEMMA ChainsOpen ==
    ASSUME TypeInv, InStep, OneEnd, NEW m \in Devices, OpenMlsGroupFromWelcome(m)
    PROVE  InStep' /\ OneEnd'
<1>1. /\ welcome[m].live /\ ~Member(m)
      /\ group' = [group EXCEPT ![m] = GroupAt(welcome[m].hist)]
      /\ welcome' = [welcome EXCEPT ![m] = NoWelcome]
      /\ UNCHANGED <<envs, unsent, stream>>
      /\ DOMAIN group = Devices /\ DOMAIN welcome = Devices
  BY Zenon DEF OpenMlsGroupFromWelcome, JoinFromWelcome, TypeInv
<1>2. EnvsGrow /\ SameUnsent
  BY <1>1, SameEnvs, Zenon
<1>3. ASSUME NEW p \in Devices
      PROVE  /\ Invited(p)' => Invited(p) /\ Cur(p)' = Cur(p)
             /\ Member(p) => Member(p)' /\ group'[p].hist = group[p].hist
  <2>1. CASE p = m
    BY <1>1, <2>1, Zenon DEF Invited, Cur, Member, GroupAt
  <2>2. CASE p # m
    BY <1>1, <2>2, Zenon DEF Invited, Cur, Member
  <2>. QED BY <2>1, <2>2, Zenon
<1>. QED
  BY <1>1, <1>2, <1>3, ChainsQuiet, Zenon

(* While no commit crosses, every step keeps the chains and their end.      *)
LEMMA ChainsStep ==
    ASSUME TypeInv, TypeInv', PostInv, SerialInv, [Next]_vars, ~crossed'
    PROVE  InStep' /\ OneEnd'
<1>1. InStep /\ OneUnsent /\ OneEnd /\ EnvsGrow /\ DOMAIN envs = 1..Len(envs)
  <2>1. envs \in Seq(Envelope)
    BY Zenon DEF TypeInv
  <2>2. DOMAIN envs = 1..Len(envs)
    BY <2>1
  <2>. QED BY <2>2, CrossedStays, StepEnvs, Zenon DEF SerialInv
<1>2. ASSUME UNCHANGED <<group, welcome, envs, unsent, stream>>
      PROVE  InStep' /\ OneEnd'
  <2>1. \A p \in Devices :
           /\ Invited(p)' => Invited(p) /\ Cur(p)' = Cur(p)
           /\ Member(p) => Member(p)' /\ group'[p].hist = group[p].hist
    BY <1>2, Zenon DEF Invited, Cur, Member
  <2>2. SameUnsent
    BY <1>2, SameEnvs, Zenon
  <2>. QED BY <1>1, <1>2, <2>1, <2>2, ChainsQuiet, Zenon
<1>3. ASSUME NEW m \in Devices,
             RegisterRatchet(m) \/ BareFetchStart(m) \/ BareFetchEnds(m)
      PROVE  InStep' /\ OneEnd'
  <2>1. UNCHANGED <<group, welcome, envs, unsent, stream>>
    BY <1>3, Zenon DEF RegisterRatchet, BareFetchStart, BareFetchEnds
  <2>. QED BY <1>2, <2>1, Zenon
<1>4. ASSUME UNCHANGED vars
      PROVE  InStep' /\ OneEnd'
  <2>1. UNCHANGED <<group, welcome, envs, unsent, stream>>
    BY <1>4, Zenon DEF vars, membership
  <2>. QED BY <1>2, <2>1, Zenon
<1>5. ASSUME NEW m \in Devices,
             \/ CreateMlsGroup(m) \/ OpenMlsGroupFromWelcome(m) \/ SendEncrypt(m)
             \/ FetchReceive(m) \/ ConnectionLost(m)
      PROVE  InStep' /\ OneEnd'
  BY <1>1, <1>5, ChainsCreate, ChainsOpen, ChainsEncrypt, ChainsFetch, ChainsLost, Zenon
<1>6. ASSUME NEW m \in Devices, NEW p \in Devices, MlsAddMember(m, p)
      PROVE  InStep' /\ OneEnd'
  BY <1>1, <1>6, ChainsAdd, Zenon
<1>7. ASSUME NEW id \in 1..Len(envs), SendRelayed(id) \/ SendFails(id)
      PROVE  InStep' /\ OneEnd'
  BY <1>1, <1>7, ChainsRelay, ChainsRelayRaw, ChainsFail, Zenon
<1>8. ASSUME NEW id \in 1..Len(envs), NEW m \in Devices, Redeliver(id, m)
      PROVE  InStep' /\ OneEnd'
  BY <1>1, <1>8, ChainsRedeliver, Zenon
<1>. QED
  BY <1>1, <1>3, <1>4, <1>5, <1>6, <1>7, <1>8, Zenon DEF Next

(* The invariant of a chat without crossings is inductive.                  *)
LEMMA SerialStep ==
    ASSUME TypeInv, TypeInv', PostInv, SerialInv, [Next]_vars
    PROVE  SerialInv'
BY ChainsStep, OneUnsentStep, AccountedStep, CopiesStep, UnopenedStep, Zenon DEF SerialInv

(* At the start there is nothing to read.                                   *)
LEMMA SerialInit == Init => SerialInv
<1>1. SUFFICES ASSUME Init PROVE SerialInv
  BY Zenon
<1>2. ~NoGroup.live /\ ~NoWelcome.live
  BY Zenon DEF NoGroup, NoWelcome
<1>3. /\ \A m \in Devices : ~Member(m) /\ ~Invited(m) /\ Len(stream[m]) = 0
      /\ unsent = {} /\ delivered = {}
  BY <1>1, <1>2, Zenon DEF Init, Member, Invited
<1>4. Ends(<< >>)
  BY <1>3, Zenon DEF Ends
<1>5. InStep /\ OneUnsent /\ OneEnd /\ UnreadUnopened
  BY <1>3, <1>4, Zenon DEF InStep, OneUnsent, OneEnd, UnreadUnopened
<1>6. Accounted
  BY <1>3, Zenon DEF Accounted
<1>7. CopiesFollow
  <2>1. \A m \in Devices : \A i \in 1..Len(stream[m]) : FALSE
    BY <1>3
  <2>. QED BY <2>1, Zenon DEF CopiesFollow
<1>. QED
  BY <1>5, <1>6, <1>7, Zenon DEF SerialInv

(* While no commit crosses another one or is lost, what a device of the     *)
(* chat is sent opens: decrypt_text_with_fallback returns the text of every *)
(* encrypted message the first time fetch_mls_inbox takes it, with any      *)
(* number of devices, messages, repetitions and lost connections.           *)
THEOREM SerialChatInSyncHolds == Spec => []SerialChatInSync
<1>1. TypeInv /\ PostInv /\ SerialInv /\ [Next]_vars
        => TypeInv' /\ PostInv' /\ SerialInv'
  BY TypeStep, PostStep, SerialStep, Zenon
<1>2. TypeInv /\ SerialInv => SerialChatInSync
  <2>1. SUFFICES ASSUME TypeInv, SerialInv, ~crossed, NEW m \in Devices, Member(m),
                        stream[m] # << >>, IsUnread(Head(stream[m])),
                        NEW id, id = Head(stream[m]).id
                 PROVE  Decrypted(group[m], envs[id], id) = "text"
    BY Zenon DEF SerialChatInSync
  <2>2. Head(stream[m]) = stream[m][1]
    BY <2>1, StreamType, HeadTail, Zenon
  <2>3. Unread(envs, stream[m][1]) /\ InStep /\ UnreadUnopened
    BY <2>1, <2>2, Zenon DEF IsUnread, Unread, SerialInv
  <2>. QED BY <2>1, <2>2, <2>3, HeadOpens, Zenon
<1>. QED
  BY <1>1, <1>2, TypeInit, PostInit, SerialInit, PTL DEF Spec
=============================================================================
