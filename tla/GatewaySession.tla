--------------------------- MODULE GatewaySession ---------------------------
(* The connections of one client to the gateway and the calls that share    *)
(* them: umbrella-client/src/transport/{gateway,quic,websocket}.rs under the *)
(* send and fetch calls of facade/{chat_common,cloud_chat,secret_chat}.rs.  *)
(*                                                                          *)
(* A call works on the connection that was installed when it began, whatever *)
(* is installed or removed meanwhile.  The frames from the gateway form one *)
(* stream per connection that all calls share, and nothing matches an       *)
(* answer with its question: a send takes the next frame for its answer, a  *)
(* fetch takes whatever comes and discards what is not a message.  Over     *)
(* QUIC one lock guards both directions, so a call that waits for a frame   *)
(* also keeps the others from writing; over the WebSocket the two           *)
(* directions have a lock each.                                             *)
(*                                                                          *)
(* The gateway's side is external: it answers every envelope, in order,     *)
(* with an acknowledgement or an error, as long as the connection lives,    *)
(* and pushes messages of other users whenever it has any.                  *)
EXTENDS Naturals, Sequences, FiniteSets

CONSTANTS
    Slots,        \* send calls the application has open at the same time
    Conns,        \* bound: connections, numbered as they are installed
    Peers,        \* number of recipients of a text in a secret chat
    MaxSends,     \* bound: texts sent
    MaxFetches,   \* bound: fetch calls
    MaxMessages,  \* bound: messages of other users
    MaxLosses     \* bound: connections that fail

ASSUME GatewayAssumption ==
    /\ Peers \in Nat \ {0} /\ MaxSends \in Nat
    /\ Slots \subseteq Nat \ {0} /\ Conns \subseteq Nat \ {0}

VARIABLES
    gateway,   \* ClientCore.gateway: the connection installed, or 0 for None
    link,      \* each connection: "new", "quic", "websocket" or "dead"
    asked,     \* envelopes written to a connection that await their answer
    stream,    \* frames sent to the client and not taken yet
    call,      \* the send calls
    fetching,  \* the connections on which a fetch call is running
    reader,    \* the send call that holds the receive lock, or 0
    accepted,  \* acknowledged under a readable id: pairs of a text and a recipient
    returned,  \* the sends that returned a message id
    msgSeq,    \* ClientCore.cloud_msg_seq_counters
    history,   \* the cloud history: what was published at rest
    sends, fetches, messages, losses,
    raced,     \* ghost: connections on which a fetch ran beside a send
    disturbed  \* ghost: connections on which a send met any other traffic

publishVars == <<accepted, returned, msgSeq, history>>
bounds == <<sends, fetches, messages, losses>>
ghosts == <<raced, disturbed>>
vars == <<gateway, link, asked, stream, call, fetching, reader, publishVars, bounds, ghosts>>

NoId == <<0, 0>>     \* MessageId([0; 16])

Idle == [st |-> "idle", chat |-> "cloud", conn |-> 0, text |-> 0, peer |-> 0, id |-> NoId,
         seq |-> 0]

SendAck(id) == [type |-> "ack", id |-> id]
\* Also an acknowledgement whose message id decode_server_msg_id rejects: the
\* call returns an error, and accepted does not count the text.
ErrorFrame == [type |-> "error", id |-> NoId]
IncomingMessage == [type |-> "message", id |-> NoId]

Init ==
    /\ gateway = 0
    /\ link = [c \in Conns |-> "new"]
    /\ asked = [c \in Conns |-> << >>]
    /\ stream = [c \in Conns |-> << >>]
    /\ call = [s \in Slots |-> Idle]
    /\ fetching = {}
    /\ reader = [c \in Conns |-> 0]
    /\ accepted = {} /\ returned = {} /\ history = {}
    /\ msgSeq = 0
    /\ sends = 0 /\ fetches = 0 /\ messages = 0 /\ losses = 0
    /\ raced = {} /\ disturbed = {}

Alive(c) == link[c] \in {"quic", "websocket"}
Calling(c) == \E s \in Slots : call[s].conn = c /\ call[s].st \in {"ready", "wait"}

\* send_envelope needs the bidirectional lock of QUIC, the sink lock of a WebSocket.
WriteLockFree(c) == link[c] = "quic" => reader[c] = 0

-----------------------------------------------------------------------------
(* GatewayTransport::connect tries QUIC and falls back on the WebSocket; an *)
(* application installs the authenticated connection with set_gateway, in   *)
(* place of any other.                                                      *)
SetGateway(c) ==
    /\ link[c] = "new"
    /\ \A d \in Conns : d < c => link[d] # "new"
    /\ \E kind \in {"quic", "websocket"} : link' = [link EXCEPT ![c] = kind]
    /\ gateway' = c
    /\ UNCHANGED <<asked, stream, call, fetching, reader, publishVars, bounds, ghosts>>

ClearGateway ==
    /\ gateway # 0
    /\ gateway' = 0
    /\ UNCHANGED <<link, asked, stream, call, fetching, reader, publishVars, bounds, ghosts>>

-----------------------------------------------------------------------------
(* Sending.  "cloud" and "secret" are the texts of the two kinds of chat;   *)
(* "bare" is the text of a secret chat that has no group, sent as it is to  *)
(* one address.                                                             *)
Chats == {"cloud", "secret", "bare"}
Recipients(chat) == IF chat = "secret" THEN Peers ELSE 1

\* A call takes the first free slot.
Free(s) == call[s].st = "idle" /\ \A q \in Slots : q < s => call[q].st # "idle"

\* Without a gateway, or in a secret group of one, the call returns the zero
\* id at once.
SendNothing(s, chat) ==
    /\ gateway = 0 \/ chat = "secret"
    /\ Free(s) /\ sends < MaxSends
    /\ sends' = sends + 1
    /\ UNCHANGED <<gateway, link, asked, stream, call, fetching, reader, publishVars, fetches,
                   messages, losses, ghosts>>

SendText(s, chat) ==
    /\ gateway # 0 /\ Free(s) /\ sends < MaxSends
    /\ sends' = sends + 1
    /\ call' = [call EXCEPT ![s] =
                  [Idle EXCEPT !.st = "ready", !.chat = chat, !.conn = gateway,
                               !.text = sends + 1, !.peer = 1]]
    /\ raced' = IF gateway \in fetching THEN raced \cup {gateway} ELSE raced
    /\ disturbed' = IF \/ gateway \in fetching \/ Calling(gateway)
                       \/ stream[gateway] # << >> \/ asked[gateway] # << >>
                    THEN disturbed \cup {gateway} ELSE disturbed
    /\ UNCHANGED <<gateway, link, asked, stream, fetching, reader, publishVars, fetches,
                   messages, losses>>

\* send_envelope writes the envelope for the next recipient.
SendWrite(s) ==
    LET c == call[s].conn
    IN  /\ call[s].st = "ready" /\ Alive(c) /\ WriteLockFree(c)
        /\ asked' = [asked EXCEPT ![c] = Append(@, <<call[s].text, call[s].peer>>)]
        /\ call' = [call EXCEPT ![s].st = "wait"]
        /\ UNCHANGED <<gateway, link, stream, fetching, reader, publishVars, bounds, ghosts>>

\* Or it fails, because the connection has; or a recipient of a secret text has
\* no registered key.  Either ends the call with an error.
SendWriteFails(s) ==
    /\ call[s].st = "ready"
    /\ ~Alive(call[s].conn) \/ call[s].chat = "secret"
    /\ call' = [call EXCEPT ![s] = Idle]
    /\ UNCHANGED <<gateway, link, asked, stream, fetching, reader, publishVars, bounds, ghosts>>

\* recv_envelope takes the receive lock and keeps it until a frame comes.
SendAwait(s) ==
    LET c == call[s].conn
    IN  /\ call[s].st = "wait" /\ reader[c] = 0
        /\ reader' = [reader EXCEPT ![c] = s]
        /\ UNCHANGED <<gateway, link, asked, stream, call, fetching, publishVars, bounds,
                       ghosts>>

Result(c) == [text |-> c.text, chat |-> c.chat, conn |-> c.conn, id |-> c.id]

\* Mutant: the fan-out stops one recipient early.
Acknowledged_OneShort(c, id) ==
    [c EXCEPT !.id = IF @ = NoId THEN id ELSE @,
              !.st = IF c.chat = "cloud" THEN "acked"
                     ELSE IF c.peer + 1 < Recipients(c.chat) THEN "ready" ELSE "done",
              !.peer = IF @ < Recipients(c.chat) THEN @ + 1 ELSE @]

(* What an acknowledgement makes of a call: on to the next recipient of a   *)
(* secret text, or to the publication of a cloud text, or done.  The call   *)
(* keeps the first id it was given.                                         *)
Acknowledged(c, id) ==
    [c EXCEPT !.id = IF @ = NoId THEN id ELSE @,
              !.st = IF c.chat = "cloud" THEN "acked"
                     ELSE IF c.peer < Recipients(c.chat) THEN "ready" ELSE "done",
              !.peer = IF @ < Recipients(c.chat) THEN @ + 1 ELSE @]

\* Mutant: the receive buffer is emptied after the first frame.
SendReceive_BufferCleared(s) ==
    LET c == call[s].conn
        f == Head(stream[c])
        next == IF f.type = "ack" THEN Acknowledged(call[s], f.id) ELSE Idle
    IN  /\ call[s].st = "wait" /\ reader[c] = s /\ stream[c] # << >>
        /\ call' = [call EXCEPT ![s] = IF next.st = "done" THEN Idle ELSE next]
        /\ returned' = IF next.st = "done" THEN returned \cup {Result(next)} ELSE returned
        /\ stream' = [stream EXCEPT ![c] = << >>]
        /\ reader' = [reader EXCEPT ![c] = 0]
        /\ UNCHANGED <<gateway, link, asked, fetching, accepted, msgSeq, history, bounds,
                       ghosts>>

(* The next frame is the answer.  Any frame but an acknowledgement ends the *)
(* call with an error, and is gone.                                         *)
SendReceive(s) ==
    LET c == call[s].conn
        f == Head(stream[c])
        next == IF f.type = "ack" THEN Acknowledged(call[s], f.id) ELSE Idle
    IN  /\ call[s].st = "wait" /\ reader[c] = s /\ stream[c] # << >>
        /\ call' = [call EXCEPT ![s] = IF next.st = "done" THEN Idle ELSE next]
        /\ returned' = IF next.st = "done" THEN returned \cup {Result(next)} ELSE returned
        /\ stream' = [stream EXCEPT ![c] = Tail(@)]
        /\ reader' = [reader EXCEPT ![c] = 0]
        /\ UNCHANGED <<gateway, link, asked, fetching, accepted, msgSeq, history, bounds,
                       ghosts>>

\* Mutant: the receive lock is not released when the read fails.
SendReceiveFails_LockKept(s) ==
    LET c == call[s].conn
    IN  /\ call[s].st = "wait" /\ reader[c] = s /\ ~Alive(c) /\ stream[c] = << >>
        /\ call' = [call EXCEPT ![s] = Idle]
        /\ UNCHANGED <<gateway, link, asked, stream, fetching, reader, publishVars, bounds,
                       ghosts>>

\* Or none comes any more: the read fails, and with it the call.
SendReceiveFails(s) ==
    LET c == call[s].conn
    IN  /\ call[s].st = "wait" /\ reader[c] = s /\ ~Alive(c) /\ stream[c] = << >>
        /\ call' = [call EXCEPT ![s] = Idle]
        /\ reader' = [reader EXCEPT ![c] = 0]
        /\ UNCHANGED <<gateway, link, asked, stream, fetching, publishVars, bounds, ghosts>>

\* Mutant: the sequence number is the length of the history.
NextCloudMsgSeq_Counted(s) ==
    /\ call[s].st = "acked"
    /\ call' = [call EXCEPT ![s].st = "publish", ![s].seq = Cardinality(history)]
    /\ msgSeq' = msgSeq + 1
    /\ UNCHANGED <<gateway, link, asked, stream, fetching, reader, accepted, returned,
                   history, bounds, ghosts>>

\* cloud_publish_at_rest, first half: next_cloud_msg_seq, under its own lock.
NextCloudMsgSeq(s) ==
    /\ call[s].st = "acked"
    /\ call' = [call EXCEPT ![s].st = "publish", ![s].seq = msgSeq]
    /\ msgSeq' = msgSeq + 1
    /\ UNCHANGED <<gateway, link, asked, stream, fetching, reader, accepted, returned,
                   history, bounds, ghosts>>

\* Second half: the wrapped entry is pushed to the cloud history, and send_text returns.
PushCloudHistory(s) ==
    /\ call[s].st = "publish"
    /\ history' = history \cup
         {[text |-> call[s].text, conn |-> call[s].conn, id |-> call[s].id,
           seq |-> call[s].seq]}
    /\ returned' = returned \cup {Result(call[s])}
    /\ call' = [call EXCEPT ![s] = Idle]
    /\ UNCHANGED <<gateway, link, asked, stream, fetching, reader, accepted, msgSeq, bounds,
                   ghosts>>

\* Or wrapping the key fails: the call returns an error, the number is used up.
PublishFails(s) ==
    /\ call[s].st = "publish"
    /\ call' = [call EXCEPT ![s] = Idle]
    /\ UNCHANGED <<gateway, link, asked, stream, fetching, reader, publishVars, bounds, ghosts>>

-----------------------------------------------------------------------------
(* Fetching: frames are taken until none comes within the drain budget or   *)
(* the read fails.                                                          *)

FetchStart ==
    /\ gateway # 0 /\ gateway \notin fetching /\ fetches < MaxFetches
    /\ fetches' = fetches + 1
    /\ fetching' = fetching \cup {gateway}
    /\ raced' = IF Calling(gateway) THEN raced \cup {gateway} ELSE raced
    /\ disturbed' = IF Calling(gateway) THEN disturbed \cup {gateway} ELSE disturbed
    /\ UNCHANGED <<gateway, link, asked, stream, call, reader, publishVars, sends, messages,
                   losses>>

FetchReceive(c) ==
    /\ c \in fetching /\ reader[c] = 0
    /\ stream[c] # << >>
    /\ stream' = [stream EXCEPT ![c] = Tail(@)]
    /\ UNCHANGED <<gateway, link, asked, call, fetching, reader, publishVars, bounds, ghosts>>

FetchEnds(c) ==
    /\ c \in fetching
    /\ fetching' = fetching \ {c}
    /\ UNCHANGED <<gateway, link, asked, stream, call, reader, publishVars, bounds, ghosts>>

-----------------------------------------------------------------------------
(* The other end.                                                           *)

(* The next envelope is acknowledged under the id the relay gave to it, or  *)
(* answered with an error.                                                  *)
GatewayAnswers(c) ==
    /\ Alive(c) /\ asked[c] # << >>
    /\ \/ /\ stream' = [stream EXCEPT ![c] = Append(@, SendAck(Head(asked[c])))]
          /\ accepted' = accepted \cup {Head(asked[c])}
       \/ /\ stream' = [stream EXCEPT ![c] = Append(@, ErrorFrame)]
          /\ UNCHANGED accepted
    /\ asked' = [asked EXCEPT ![c] = Tail(@)]
    /\ UNCHANGED <<gateway, link, call, fetching, reader, returned, msgSeq, history, bounds,
                   ghosts>>

MessageArrives(c) ==
    /\ Alive(c) /\ messages < MaxMessages
    /\ messages' = messages + 1
    /\ stream' = [stream EXCEPT ![c] = Append(@, IncomingMessage)]
    /\ disturbed' = IF Calling(c) THEN disturbed \cup {c} ELSE disturbed
    /\ UNCHANGED <<gateway, link, asked, call, fetching, reader, publishVars, sends, fetches,
                   losses, raced>>

(* The connection fails and stays installed.  The envelopes on the way are  *)
(* gone, and the frames that have arrived can still be read.  A frame that  *)
(* is lost with the connection is as good as one that was never sent.       *)
ConnectionLost(c) ==
    /\ Alive(c) /\ losses < MaxLosses
    /\ losses' = losses + 1
    /\ link' = [link EXCEPT ![c] = "dead"]
    /\ asked' = [asked EXCEPT ![c] = << >>]
    /\ UNCHANGED <<gateway, stream, call, fetching, reader, publishVars, sends, fetches,
                   messages, ghosts>>

SendStep(s) ==
    \/ SendWrite(s) \/ SendWriteFails(s)
    \/ SendAwait(s) \/ SendReceive(s) \/ SendReceiveFails(s)
    \/ NextCloudMsgSeq(s) \/ PushCloudHistory(s) \/ PublishFails(s)

Next ==
    \/ ClearGateway \/ FetchStart
    \/ \E c \in Conns :
          \/ SetGateway(c) \/ ConnectionLost(c) \/ MessageArrives(c) \/ GatewayAnswers(c)
          \/ FetchReceive(c) \/ FetchEnds(c)
    \/ \E s \in Slots :
          \/ \E chat \in Chats : SendText(s, chat) \/ SendNothing(s, chat)
          \/ SendStep(s)

(* A call that was begun is driven on by the executor, and the gateway      *)
(* answers on a connection that lives.                                      *)
Spec ==
    /\ Init /\ [][Next]_vars
    /\ \A s \in Slots : WF_vars(SendStep(s))
    /\ \A c \in Conns : WF_vars(GatewayAnswers(c))

-----------------------------------------------------------------------------
Texts == 1..MaxSends
Ids == {NoId} \cup (Texts \X (1..Peers))

(* The variables keep their types, the receive lock is held only by a call  *)
(* that waits for its answer on that very connection, and a connection that *)
(* was never installed has no traffic.                                      *)
TypeOK ==
    /\ gateway \in {0} \cup Conns
    /\ link \in [Conns -> {"new", "quic", "websocket", "dead"}]
    /\ asked \in [Conns -> Seq(Ids)]
    /\ stream \in [Conns -> Seq([type : {"ack", "error", "message"}, id : Ids])]
    /\ \A s \in Slots : call[s] \in
          [st : {"idle", "ready", "wait", "acked", "publish"}, chat : Chats,
           conn : {0} \cup Conns, text : {0} \cup Texts, peer : 0..Peers, id : Ids, seq : Nat]
    /\ fetching \subseteq Conns
    /\ \A c \in Conns : reader[c] # 0 =>
          reader[c] \in Slots /\ call[reader[c]].st = "wait" /\ call[reader[c]].conn = c
    /\ \A c \in Conns : link[c] = "new" =>
          asked[c] = << >> /\ stream[c] = << >> /\ c \notin fetching /\ ~Calling(c)
    /\ accepted \subseteq Ids
    /\ returned \subseteq [text : Texts, chat : Chats, conn : Conns, id : Ids]
    /\ history \subseteq [text : Texts, conn : Conns, id : Ids, seq : Nat]

(* A send that returns a message id returns one the relay gave to a text of *)
(* this client, and one that no other send returns, whatever shares the     *)
(* connection and whatever answer went to the wrong call.  On a connection  *)
(* where sends meet no other traffic the id is that of the very text, and   *)
(* the relay took the text for every recipient; this survives refusals, an  *)
(* abandoned fan-out, failed connections and ones replaced under the call.  *)
OkMeansRelayed ==
    \A r \in returned :
        /\ r.id \in accepted
        /\ \A q \in returned : q.id = r.id => q = r
        /\ r.conn \notin disturbed =>
             /\ r.id = <<r.text, 1>>
             /\ \A p \in 1..Recipients(r.chat) : <<r.text, p>> \in accepted

(* The cloud history holds each text once, under a sequence number and a    *)
(* message id of its own, although two publications may overlap and answers *)
(* may go to the wrong call (cloud_chat.rs:231-234 counts on distinct ids); *)
(* without other traffic it is filed under the id of that very text.        *)
HistorySound ==
    /\ \A h, g \in history : (h.text = g.text \/ h.seq = g.seq \/ h.id = g.id) => h = g
    /\ \A h \in history : h.conn \notin disturbed => h.id = <<h.text, 1>>

(* A send call returns, over either transport, also while another send      *)
(* holds the lock and waits for an answer that has not come, and when the   *)
(* connection fails or is replaced under it; unless a fetch ran beside it   *)
(* on its connection and may have swallowed its answer.                     *)
CallsReturn ==
    \A s \in Slots :
        call[s].st # "idle" ~> (call[s].st = "idle" \/ call[s].conn \in raced)
=============================================================================
