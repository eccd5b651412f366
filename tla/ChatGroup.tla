----------------------------- MODULE ChatGroup -----------------------------
(* One end-to-end encrypted chat of several devices: the group, Welcome and *)
(* encryption side of umbrella-client/src/facade/chat_common.rs over        *)
(* MlsGroup and MaxRatchet, with ClientCore's registry of groups and        *)
(* ratchet states.                                                          *)
(*                                                                          *)
(* A sender merges its own commit before the relay has seen it, so two      *)
(* senders that did not read each other's messages part ways for good.  The *)
(* ghost variable crossed is set whenever this may have happened: a member  *)
(* encrypts, or adds a third device, with encrypted messages unread or      *)
(* under way; a commit is lost; an encrypted message is taken by a fetch    *)
(* that began without a group.  The properties say what holds before and    *)
(* after.                                                                   *)
(*                                                                          *)
(* A device is invited by one member.  In the code two members whose groups *)
(* parted can invite the same device; the group of the second Welcome then  *)
(* replaces the first.  Replacing a group is left out.                      *)
(*                                                                          *)
(* The relay is external: it takes an envelope or refuses it, passes it to  *)
(* every other device of the chat, in the same order to all, and may        *)
(* deliver one again.                                                       *)
EXTENDS MaxRatchet

CONSTANTS
    Devices,
    MaxSends,         \* bound: envelopes encrypted, all devices together
    MaxRedeliveries,  \* bound: messages the relay delivers a second time
    MaxLosses         \* bound: connections that fail with messages under way

ASSUME ChatAssumption == MaxSends \in Nat

VARIABLES
    secret,     \* a secret chat: texts are encrypted without the ratchet
    group,      \* ClientCore.groups: the group of each device, or NoGroup
    ratchet,    \* ClientCore.ratchet_states: devices with a ratchet state
    welcome,    \* the Welcome waiting in each device's postman inbox, if any
    envs,       \* every envelope encrypted so far; its index is its text
    unsent,     \* envelopes encrypted and not yet written to the gateway
    stream,     \* messages sent to each device and not taken yet
    bare,       \* devices with a fetch that began before they had a group
    shown,      \* what fetch calls collected: a text, or undecoded bytes as one
    delivered,  \* the deliveries the relay made: pairs of a text and a device
    redelivered, losses,
    crossed     \* ghost: the chat may be out of step (see above)

membership == <<secret, ratchet, welcome, bare>>
bounds == <<redelivered, losses>>
vars == <<membership, group, envs, unsent, stream, shown, delivered, bounds, crossed>>

Message(id, again) == [id |-> id, again |-> again]
NoWelcome == [live |-> FALSE]
WelcomeAt(h) == [live |-> TRUE, hist |-> h]

Init ==
    /\ secret \in BOOLEAN
    /\ group = [m \in Devices |-> NoGroup]
    /\ ratchet = {}
    /\ welcome = [m \in Devices |-> NoWelcome]
    /\ envs = << >>
    /\ unsent = {}
    /\ stream = [m \in Devices |-> << >>]
    /\ bare = {}
    /\ shown = [m \in Devices |-> {}]
    /\ delivered = {}
    /\ redelivered = 0 /\ losses = 0
    /\ crossed = FALSE

Member(m) == group[m].live
Invited(m) == Member(m) \/ welcome[m].live

(* The device has encrypted messages to process, or some device is about to *)
(* send one.                                                                *)
IsUnread(f) == ~f.again /\ envs[f.id].kind # "raw"
HasUnread(m) == \E i \in DOMAIN stream[m] : IsUnread(stream[m][i])
Unsent == \E id \in unsent : envs[id].kind # "raw"

-----------------------------------------------------------------------------
(* Membership.                                                              *)

(* create_mls_group picks a fresh chat id, so there is one creator.         *)
CreateMlsGroup(m) ==
    /\ \A p \in Devices : ~Invited(p)
    /\ group' = [group EXCEPT ![m] = CreatePrivate]
    /\ UNCHANGED <<membership, envs, unsent, stream, shown, delivered, bounds, crossed>>

\* Mutant: the Welcome stays in the inbox.
OpenMlsGroupFromWelcome_WelcomeKept(m) ==
    /\ welcome[m].live
    /\ group' = [group EXCEPT ![m] = JoinFromWelcome(welcome[m].hist)]
    /\ UNCHANGED <<membership, envs, unsent, stream, shown, delivered, bounds, crossed>>

OpenMlsGroupFromWelcome(m) ==
    /\ welcome[m].live
    /\ group' = [group EXCEPT ![m] = JoinFromWelcome(welcome[m].hist)]
    /\ welcome' = [welcome EXCEPT ![m] = NoWelcome]
    /\ UNCHANGED <<secret, ratchet, bare, envs, unsent, stream, shown, delivered, bounds,
                   crossed>>

\* The second insert of register_group: until then the group has no ratchet state.
RegisterRatchet(m) ==
    /\ Member(m) /\ m \notin ratchet
    /\ ratchet' = ratchet \cup {m}
    /\ UNCHANGED <<secret, welcome, bare, group, envs, unsent, stream, shown, delivered,
                   bounds, crossed>>

(* mls_add_member: the commit is merged at once, the Welcome goes to the    *)
(* new device's inbox, and the commit bytes are dropped: the other members  *)
(* of the group never see them.                                             *)
MlsAddMember(m, p) ==
    /\ Member(m) /\ ~Invited(p)
    /\ LET g == AddMembers(group[m], m, p)
       IN  /\ group' = [group EXCEPT ![m] = g]
           /\ welcome' = [welcome EXCEPT ![p] = WelcomeAt(g.hist)]
    /\ crossed' = (crossed \/ HasUnread(m) \/ Unsent
                     \/ \E q \in Devices \ {m} : Invited(q))
    /\ UNCHANGED <<secret, ratchet, bare, envs, unsent, stream, shown, delivered, bounds>>

-----------------------------------------------------------------------------
(* Sending.                                                                 *)

Ratchets(m) == m \in ratchet /\ ~secret

Encrypt(m) ==
    IF ~Member(m) THEN Raw(m)
    ELSE IF Ratchets(m) THEN EncryptWithRekeyAuthenticated(group[m], m)
    ELSE EncryptApplication(group[m], m)

\* Mutant: the sender does not merge its rekey.
GroupAfterEncrypt_NotMerged(m) == group[m]

GroupAfterEncrypt(m) ==
    IF Member(m) /\ Ratchets(m) THEN ForceRekey(group[m], m) ELSE group[m]

(* The part of send_mls_text and send_secret_text under the group lock: a   *)
(* rekey, merged at once, and the text in the new epoch; a plain MLS        *)
(* message in a secret chat or before the ratchet state is registered; the  *)
(* bare text when there is no group.                                        *)
SendEncrypt(m) ==
    /\ Len(envs) < MaxSends
    /\ envs' = Append(envs, Encrypt(m))
    /\ group' = [group EXCEPT ![m] = GroupAfterEncrypt(m)]
    /\ unsent' = unsent \cup {Len(envs) + 1}
    /\ crossed' = (crossed \/ (Member(m) /\ (HasUnread(m) \/ Unsent)))
    /\ UNCHANGED <<membership, stream, shown, delivered, bounds>>

Recipients(id) == {p \in Devices \ {envs[id].from} : Invited(p)}

(* The envelope reaches the relay and is passed on.                         *)
SendRelayed(id) ==
    /\ id \in unsent
    /\ unsent' = unsent \ {id}
    /\ stream' = [p \in Devices |-> IF p \in Recipients(id)
                    THEN Append(stream[p], Message(id, FALSE)) ELSE stream[p]]
    /\ delivered' = delivered \cup ({id} \X Recipients(id))
    /\ UNCHANGED <<membership, group, envs, shown, bounds, crossed>>

(* The write fails or the relay refuses the envelope: the call returns an   *)
(* error, and the group stays rekeyed.                                      *)
SendFails(id) ==
    /\ id \in unsent
    /\ unsent' = unsent \ {id}
    /\ crossed' = (crossed \/ envs[id].kind = "v3")
    /\ UNCHANGED <<membership, group, envs, stream, shown, delivered, bounds>>

-----------------------------------------------------------------------------
(* Fetching.  fetch_mls_inbox looks the group handle up once, before its    *)
(* loop, so a fetch that began without a group goes on without one.         *)

BareFetchStart(m) ==
    /\ ~Member(m) /\ m \notin bare
    /\ bare' = bare \cup {m}
    /\ UNCHANGED <<secret, ratchet, welcome, group, envs, unsent, stream, shown, delivered,
                   bounds, crossed>>

BareFetchEnds(m) ==
    /\ m \in bare
    /\ bare' = bare \ {m}
    /\ UNCHANGED <<secret, ratchet, welcome, group, envs, unsent, stream, shown, delivered,
                   bounds, crossed>>

\* One turn of the loop: decrypt_text_with_fallback on the next message.
FetchReceive(m) ==
    /\ m \in bare \/ Member(m)
    /\ stream[m] # << >>
    /\ LET f == Head(stream[m])
           e == envs[f.id]
           outcome == IF m \in bare THEN Undecrypted(e) ELSE Decrypted(group[m], e, f.id)
       IN  /\ shown' = IF outcome = "dropped" THEN shown
                       ELSE [shown EXCEPT ![m] = @ \cup {[id |-> f.id, as |-> outcome]}]
           /\ group' = IF m \in bare THEN group
                       ELSE [group EXCEPT ![m] = AfterDecrypt(@, e, f.id)]
           /\ crossed' = (crossed \/ (IsUnread(f) /\ m \in bare))
    /\ stream' = [stream EXCEPT ![m] = Tail(@)]
    /\ UNCHANGED <<membership, envs, unsent, delivered, bounds>>

-----------------------------------------------------------------------------
(* Faults.                                                                  *)

\* The connection of m fails with everything on its way to m.
ConnectionLost(m) ==
    /\ losses < MaxLosses
    /\ stream[m] # << >>
    /\ losses' = losses + 1
    /\ stream' = [stream EXCEPT ![m] = << >>]
    /\ crossed' = (crossed \/ HasUnread(m))
    /\ UNCHANGED <<membership, group, envs, unsent, shown, delivered, redelivered>>

Redeliver(id, m) ==
    /\ redelivered < MaxRedeliveries
    /\ <<id, m>> \in delivered
    /\ redelivered' = redelivered + 1
    /\ stream' = [stream EXCEPT ![m] = Append(@, Message(id, TRUE))]
    /\ UNCHANGED <<membership, group, envs, unsent, shown, delivered, losses, crossed>>

Next ==
    \/ \E m \in Devices :
          \/ CreateMlsGroup(m) \/ OpenMlsGroupFromWelcome(m) \/ RegisterRatchet(m)
          \/ SendEncrypt(m)
          \/ BareFetchStart(m) \/ BareFetchEnds(m) \/ FetchReceive(m)
          \/ ConnectionLost(m)
    \/ \E m, p \in Devices : MlsAddMember(m, p)
    \/ \E id \in DOMAIN envs : SendRelayed(id) \/ SendFails(id)
    \/ \E id \in DOMAIN envs, m \in Devices : Redeliver(id, m)

Spec == Init /\ [][Next]_vars

-----------------------------------------------------------------------------
Envelopes == 1..MaxSends

TypeOK ==
    /\ \A m \in Devices :
          /\ Member(m) => group[m].opened \subseteq Envelopes
          /\ ~(Member(m) /\ welcome[m].live)
          /\ stream[m] \in Seq([id : Envelopes, again : BOOLEAN])
          /\ shown[m] \subseteq [id : Envelopes, as : {"text", "bytes"}]
    /\ \A m \in ratchet : Member(m)
    /\ unsent \subseteq DOMAIN envs
    /\ delivered \subseteq Envelopes \X Devices
    /\ bare \subseteq Devices

(* An encrypted text a device opened cannot be opened there again, however  *)
(* often the relay delivers it and whatever the device sends, receives or   *)
(* loses afterwards: the epoch or the message key is consumed.              *)
ShownOnce ==
    \A m \in Devices : \A d \in shown[m] :
        (Member(m) /\ d.as = "text" /\ envs[d.id].kind # "raw")
            => Decrypted(group[m], envs[d.id], d.id) # "text"

(* As long as no commit crossed another one or was lost, every encrypted    *)
(* message opens the first time it reaches a device, whatever raw texts and *)
(* repeated messages come between.  A device may fetch on and on, or open   *)
(* its Welcome and then fetch, so this is about all of its stream.          *)
SerialChatInSync ==
    ~crossed => \A m \in Devices :
        (Member(m) /\ m \notin bare /\ stream[m] # << >> /\ IsUnread(Head(stream[m]))) =>
            LET id == Head(stream[m]).id
            IN  Decrypted(group[m], envs[id], id) = "text"

(* A text encrypted with the ratchet on opens an epoch in which no earlier  *)
(* text was encrypted, by whichever device, in step or not.  Its author     *)
(* never encrypts in that epoch again; a later text in it is a plain MLS    *)
(* message of another device, one that opened the bundle between the two    *)
(* inserts of its own register_group.                                       *)
EpochPerText ==
    \A i, j \in DOMAIN envs :
        (i < j /\ {envs[i].kind, envs[j].kind} \subseteq {"v2", "v3"}
            /\ envs[i].hist = envs[j].hist) =>
        /\ envs[j].kind = "v2"
        /\ envs[i].kind = "v3" => envs[i].from # envs[j].from

(* client/src/core.rs:1356-1359: every registered chat gets the protections *)
(* of the ratchet by itself, without an opt-in of the caller.  A sender     *)
(* between the two inserts of register_group does not.                      *)
EveryTextRatcheted ==
    ~secret => \A i \in DOMAIN envs : envs[i].kind # "v2"
=============================================================================
