------------------------ MODULE GatewaySessionProofs ------------------------
(* For any number of connections, send calls, recipients and texts: a send   *)
(* returns an id of its own, and the cloud history holds each text once and  *)
(* under its own number and id, whatever answer goes to the wrong call; on a *)
(* connection where sends meet no other traffic an answer is taken by the    *)
(* call it belongs to.                                                       *)
EXTENDS GatewaySession, SequenceTheorems, TLAPS

Frames == [type : {"ack", "error", "message"}, id : Ids]

CallStates == {"idle", "ready", "wait", "acked", "publish"}

CallRecords ==
    [st : CallStates, chat : Chats, conn : {0} \cup Conns, text : {0} \cup Texts,
     peer : 0..Peers, id : Ids, seq : Nat]

Results == [text : Texts, chat : Chats, conn : Conns, id : Ids]

Entries == [text : Texts, conn : Conns, id : Ids, seq : Nat]

(* The types, with the counters TypeOK leaves out.                          *)
TypeInv ==
    /\ gateway \in {0} \cup Conns
    /\ link \in [Conns -> {"new", "quic", "websocket", "dead"}]
    /\ asked \in [Conns -> Seq(Ids)]
    /\ stream \in [Conns -> Seq(Frames)]
    /\ call \in [Slots -> CallRecords]
    /\ fetching \subseteq Conns
    /\ reader \in [Conns -> {0} \cup Slots]
    /\ accepted \subseteq Ids
    /\ returned \subseteq Results
    /\ history \subseteq Entries
    /\ msgSeq \in Nat /\ sends \in 0..MaxSends
    /\ disturbed \subseteq Conns

Running(s) == call[s].st # "idle"

(* What a call that runs has: a connection, a text and a recipient.         *)
CallInv ==
    /\ \A s \in Slots : Running(s) =>
          /\ call[s].conn \in Conns /\ call[s].text \in 1..sends
          /\ call[s].peer \in 1..Recipients(call[s].chat)
    /\ \A s \in Slots : call[s].st \in {"acked", "publish"} => call[s].chat = "cloud"

(* A call that holds a receive lock waits for its answer on that connection, *)
(* and a connection that was never installed has no traffic.                *)
ConnInv ==
    /\ \A c \in Conns : reader[c] # 0 =>
          call[reader[c]].st = "wait" /\ call[reader[c]].conn = c
    /\ \A c \in Conns : link[c] = "new" =>
          /\ asked[c] = << >> /\ stream[c] = << >>
          /\ c \notin fetching /\ ~Calling(c) /\ gateway # c

(* Facts about numbers that every action uses.                              *)
LEMMA Constants ==
    /\ Peers \in Nat /\ Peers > 0 /\ MaxSends \in Nat
    /\ \A s \in Slots : s \in Nat /\ s # 0
    /\ \A c \in Conns : c \in Nat /\ c # 0
BY GatewayAssumption DEF GatewayAssumption

(* NoId is nobody's id.                                                     *)
LEMMA IdFacts ==
    /\ NoId \in Ids
    /\ \A t \in Texts, p \in 1..Peers : <<t, p>> \in Ids /\ <<t, p>> # NoId
BY Constants DEF Ids, NoId, Texts

(* The frames the gateway sends are frames.                                 *)
LEMMA FrameTypes ==
    /\ ErrorFrame \in Frames /\ IncomingMessage \in Frames
    /\ \A id \in Ids : SendAck(id) \in Frames
BY IdFacts, Zenon DEF Frames, ErrorFrame, IncomingMessage, SendAck

(* A text has between one recipient and all peers.                          *)
LEMMA RecipientsRange ==
    ASSUME NEW chat
    PROVE  /\ Recipients(chat) \in 1..Peers /\ 1 \in 1..Recipients(chat)
           /\ \A p \in 1..Recipients(chat) : p \in 1..Peers
           /\ chat = "cloud" => Recipients(chat) = 1
BY Constants DEF Recipients

(* An idle call is a call.                                                  *)
LEMMA IdleType == Idle \in CallRecords /\ Idle.st = "idle"
<1>1. 0 \in 0..Peers /\ 0 \in Nat
  BY Constants
<1> QED
  BY <1>1, IdFacts, Zenon DEF Idle, CallRecords, CallStates, Chats

(* A sequence that grows at its end.                                        *)
LEMMA Appended ==
    ASSUME NEW S, NEW q \in Seq(S), NEW e \in S
    PROVE  /\ Append(q, e) \in Seq(S)
           /\ q = << >> => Len(Append(q, e)) = 1 /\ Head(Append(q, e)) = e
           /\ \A i \in 1..Len(Append(q, e)) :
                \/ i \in 1..Len(q) /\ Append(q, e)[i] = q[i]
                \/ i = Len(q) + 1 /\ Append(q, e)[i] = e
OBVIOUS

(* A sequence that loses its first element.                                 *)
LEMMA Shortened ==
    ASSUME NEW S, NEW q \in Seq(S), q # << >>
    PROVE  /\ Tail(q) \in Seq(S)
           /\ Len(q) = 1 => Tail(q) = << >>
           /\ Head(q) = q[1] /\ 1 \in 1..Len(q) /\ Head(q) \in S
           /\ \A i \in 1..Len(Tail(q)) :
                i + 1 \in 1..Len(q) /\ i + 1 # 1 /\ Tail(q)[i] = q[i + 1]
           /\ \A i, j \in 1..Len(Tail(q)) : i + 1 = j + 1 => i = j
<1>1. Tail(q) \in Seq(S) /\ Len(Tail(q)) = Len(q) - 1
  OBVIOUS
<1>2. Len(q) = 1 => Tail(q) = << >>
  <2>1. Tail(q) # << >> => Len(Tail(q)) \in Nat \ {0}
    BY <1>1, EmptySeq, Zenon
  <2>2. Len(q) = 1 => Len(Tail(q)) = 0
    BY <1>1
  <2> QED
    BY <2>1, <2>2, Zenon
<1> QED
  BY <1>1, <1>2

(* The initial state has the types.                                         *)
LEMMA InitType == Init => TypeInv /\ CallInv /\ ConnInv
<1> SUFFICES ASSUME Init PROVE TypeInv /\ CallInv /\ ConnInv
  BY Zenon
<1>1. << >> \in Seq(Frames) /\ << >> \in Seq(Ids)
  OBVIOUS
<1>2. call \in [Slots -> CallRecords] /\ \A s \in Slots : call[s].st = "idle"
  BY IdleType, Zenon DEF Init
<1>3. sends \in 0..MaxSends /\ msgSeq \in Nat
  BY Constants DEF Init
<1>4. /\ asked \in [Conns -> Seq(Ids)] /\ stream \in [Conns -> Seq(Frames)]
      /\ link \in [Conns -> {"new", "quic", "websocket", "dead"}]
      /\ reader \in [Conns -> {0} \cup Slots]
      /\ \A c \in Conns : reader[c] = 0 /\ asked[c] = << >> /\ stream[c] = << >>
  BY <1>1, Zenon DEF Init
<1>5. TypeInv
  BY <1>2, <1>3, <1>4, Zenon DEF Init, TypeInv
<1>6. \A c \in Conns : c # 0
  BY Constants, Zenon
<1> QED
  BY <1>2, <1>4, <1>5, <1>6, Zenon DEF Init, ConnInv, CallInv, Running, Calling

(* What changes when one call moves on.                                     *)
LEMMA OneCall ==
    ASSUME TypeInv, NEW s \in Slots, NEW c \in CallRecords,
           call' = [call EXCEPT ![s] = c]
    PROVE  /\ call' \in [Slots -> CallRecords]
           /\ call'[s] = c
           /\ \A q \in Slots : q # s => call'[q] = call[q]
BY Zenon DEF TypeInv

(* What an acknowledgement makes of a call, field by field.                 *)
LEMMA AckedType ==
    ASSUME NEW c \in CallRecords, NEW id \in Ids, c.peer \in 1..Recipients(c.chat)
    PROVE  /\ Acknowledged(c, id).st # "done" => Acknowledged(c, id) \in CallRecords
           /\ Acknowledged(c, id).text = c.text
           /\ Acknowledged(c, id).chat = c.chat
           /\ Acknowledged(c, id).conn = c.conn
           /\ Acknowledged(c, id).id \in Ids
           /\ Acknowledged(c, id).id = IF c.id = NoId THEN id ELSE c.id
           /\ Acknowledged(c, id).peer =
                IF c.peer < Recipients(c.chat) THEN c.peer + 1 ELSE c.peer
           /\ Acknowledged(c, id).peer \in 1..Recipients(c.chat)
           /\ Acknowledged(c, id).st =
                IF c.chat = "cloud" THEN "acked"
                ELSE IF c.peer < Recipients(c.chat) THEN "ready" ELSE "done"
<1> USE Constants, RecipientsRange
<1>1. c.chat \in Chats /\ c.text \in {0} \cup Texts /\ c.peer \in 0..Peers
      /\ c.id \in Ids /\ c.seq \in Nat
  BY Zenon DEF CallRecords
<1> DEFINE a == Acknowledged(c, id)
<1>2. /\ a.text = c.text /\ a.chat = c.chat /\ a.seq = c.seq /\ a.conn = c.conn
      /\ a.id = IF c.id = NoId THEN id ELSE c.id
      /\ a.peer = IF c.peer < Recipients(c.chat) THEN c.peer + 1 ELSE c.peer
      /\ a.st = IF c.chat = "cloud" THEN "acked"
                ELSE IF c.peer < Recipients(c.chat) THEN "ready" ELSE "done"
  BY Zenon DEF Acknowledged, CallRecords
<1>3. \A x \in CallStates, i \in Ids, p \in 0..Peers :
        [c EXCEPT !.id = i, !.st = x, !.peer = p] \in CallRecords
  BY Zenon DEF CallRecords, CallStates
<1>4. a = [c EXCEPT !.id = a.id, !.st = a.st, !.peer = a.peer]
  BY <1>2, Zenon DEF Acknowledged
<1> HIDE DEF a
<1>5. a.peer \in 1..Recipients(c.chat)
  BY <1>2
<1>6. a.peer \in 0..Peers /\ a.id \in Ids
  BY <1>1, <1>2, <1>5
<1>7. a.st # "done" => a \in CallRecords
  <2> SUFFICES ASSUME a.st # "done" PROVE a \in CallRecords
    BY Zenon
  <2>1. a.st \in CallStates
    BY <1>2, Zenon DEF CallStates
  <2>2. [c EXCEPT !.id = a.id, !.st = a.st, !.peer = a.peer] \in CallRecords
    BY <1>3, <1>6, <2>1, Zenon
  <2> QED
    BY <1>4, <2>2, Zenon
<1> QED
  BY <1>2, <1>5, <1>6, <1>7, Zenon DEF a
-----------------------------------------------------------------------------
(* What each action does, spelled out, and that it keeps the types and the  *)
(* two invariants above.                                                    *)

BaseInv == TypeInv /\ CallInv /\ ConnInv

(* More texts are texts.                                                    *)
LEMMA SendsGrow ==
    ASSUME TypeInv, sends' = sends + 1, sends < MaxSends
    PROVE  /\ sends' \in 0..MaxSends /\ sends' \in Texts /\ sends' \in 1..sends'
           /\ sends \in Nat /\ ~(sends' <= sends) /\ sends <= sends'
           /\ \A t \in 1..sends : t \in 1..sends' /\ t # sends'
           /\ \A t \in Nat : t <= sends => t <= sends' /\ t # sends'
BY Constants DEF TypeInv, Texts

(* What was sent is a text.                                                 *)
LEMMA TextsSent == TypeInv => \A t \in 1..sends : t \in Texts /\ t \in Nat /\ t <= sends
BY Constants DEF TypeInv, Texts

(* Texts are numbers.                                                       *)
LEMMA TextsNat == \A t \in Texts : t \in Nat
BY DEF Texts

(* Opening, replacing and removing a connection; sends that do nothing.     *)
LEMMA GatewayFacts ==
    ASSUME BaseInv,
           \/ ClearGateway
           \/ \E c \in Conns : SetGateway(c)
           \/ \E s \in Slots, chat \in Chats : SendNothing(s, chat)
    PROVE  /\ BaseInv'
           /\ sends' \in {sends, sends + 1} /\ sends <= sends'
           /\ UNCHANGED <<asked, stream, call, fetching, reader, publishVars, ghosts>>
<1> USE DEF BaseInv
<1>1. CASE ClearGateway
  <2>1. gateway' = 0 /\ sends <= sends
        /\ UNCHANGED <<link, asked, stream, call, fetching, reader, publishVars, bounds, ghosts>>
    BY <1>1 DEF ClearGateway, TypeInv
  <2>2. \A c \in Conns : c # 0
    BY Constants, Zenon
  <2> QED
    BY <2>1, <2>2, Zenon DEF TypeInv, CallInv, ConnInv, Running, Calling, publishVars, bounds,
       ghosts
<1>2. CASE \E c \in Conns : SetGateway(c)
  <2>1. PICK c \in Conns : SetGateway(c)
    BY <1>2, Zenon
  <2>2. /\ gateway' = c /\ sends <= sends
        /\ UNCHANGED <<asked, stream, call, fetching, reader, publishVars, bounds, ghosts>>
    BY <2>1 DEF SetGateway, TypeInv
  <2>3. /\ link' \in [Conns -> {"new", "quic", "websocket", "dead"}]
        /\ \A d \in Conns : link'[d] = "new" => link[d] = "new" /\ d # c
    BY <2>1, Zenon DEF SetGateway, TypeInv
  <2> QED
    BY <2>2, <2>3, Zenon DEF TypeInv, CallInv, ConnInv, Running, Calling, publishVars, bounds,
       ghosts
<1>3. CASE \E s \in Slots, chat \in Chats : SendNothing(s, chat)
  <2>1. /\ UNCHANGED <<gateway, link, asked, stream, call, fetching, reader, publishVars, ghosts>>
        /\ sends' = sends + 1 /\ sends < MaxSends
    BY <1>3, Zenon DEF SendNothing
  <2>2. /\ sends' \in 0..MaxSends /\ sends <= sends'
        /\ \A t \in 1..sends : t \in 1..sends'
    BY <2>1, SendsGrow, Zenon
  <2> QED
    BY <2>1, <2>2, Zenon DEF TypeInv, CallInv, ConnInv, Running, Calling, publishVars, ghosts
<1> QED
  BY <1>1, <1>2, <1>3, Zenon

(* A send that begins.                                                      *)
LEMMA StartFacts ==
    ASSUME BaseInv, NEW s \in Slots, NEW chat \in Chats, SendText(s, chat)
    PROVE  /\ BaseInv'
           /\ gateway \in Conns /\ call[s].st = "idle" /\ sends' = sends + 1 /\ sends < MaxSends
           /\ call'[s].st = "ready" /\ call'[s].conn = gateway /\ call'[s].text = sends'
           /\ call'[s].peer = 1 /\ call'[s].id = NoId
           /\ \A q \in Slots : q # s => call'[q] = call[q]
           /\ disturbed \subseteq disturbed'
           /\ gateway \notin disturbed' =>
                /\ gateway \notin fetching /\ ~Calling(gateway)
                /\ stream[gateway] = << >> /\ asked[gateway] = << >>
           /\ UNCHANGED <<asked, stream, fetching, reader, publishVars>>
<1> USE DEF BaseInv
<1>1. /\ sends' = sends + 1 /\ sends < MaxSends
      /\ UNCHANGED <<gateway, link, asked, stream, fetching, reader, publishVars>>
  BY Zenon DEF SendText
<1>2. gateway \in Conns /\ call[s].st = "idle"
  BY Zenon DEF SendText, Free, TypeInv
<1> DEFINE c == [Idle EXCEPT !.st = "ready", !.chat = chat, !.conn = gateway,
                             !.text = sends + 1, !.peer = 1]
<1>3. 1 \in 0..Peers /\ sends' \in 0..MaxSends /\ sends + 1 \in {0} \cup Texts
  BY <1>1, Constants DEF TypeInv, Texts
<1>4. /\ c \in CallRecords /\ c.st = "ready" /\ c.chat = chat /\ c.conn = gateway
      /\ c.text = sends + 1 /\ c.peer = 1 /\ c.id = NoId
  <2>1. c \in CallRecords
    BY <1>2, <1>3, IdleType, Zenon DEF CallRecords, CallStates
  <2>2. Idle.id = NoId
    BY Zenon DEF Idle
  <2> QED
    BY <2>1, <2>2, IdleType, Zenon DEF CallRecords
<1>5. call' = [call EXCEPT ![s] = c]
  BY Zenon DEF SendText
<1> HIDE DEF c
<1>6. /\ call' \in [Slots -> CallRecords]
      /\ call'[s] = c
      /\ \A q \in Slots : q # s => call'[q] = call[q]
  BY <1>4, <1>5, OneCall, Zenon
<1>7. /\ disturbed \subseteq disturbed' /\ disturbed' \subseteq Conns
      /\ gateway \notin disturbed' =>
           /\ gateway \notin fetching /\ ~Calling(gateway)
           /\ stream[gateway] = << >> /\ asked[gateway] = << >>
  BY <1>2, Zenon DEF SendText, TypeInv
<1>8. TypeInv'
  BY <1>1, <1>3, <1>6, <1>7, Zenon DEF TypeInv, publishVars
<1>9. /\ sends + 1 \in 1..(sends + 1)
      /\ \A t \in 1..sends : t \in 1..(sends + 1)
  BY DEF TypeInv
<1>10. CallInv'
  <2> SUFFICES ASSUME NEW q \in Slots
               PROVE  /\ call'[q].st # "idle" =>
                           /\ call'[q].conn \in Conns /\ call'[q].text \in 1..sends'
                           /\ call'[q].peer \in 1..Recipients(call'[q].chat)
                      /\ call'[q].st \in {"acked", "publish"} => call'[q].chat = "cloud"
    BY Zenon DEF CallInv, Running
  <2>1. CASE q = s
    BY <2>1, <1>1, <1>2, <1>4, <1>6, <1>9, RecipientsRange, Zenon
  <2>2. CASE q # s
    BY <2>2, <1>1, <1>6, <1>9, Zenon DEF CallInv, Running
  <2> QED
    BY <2>1, <2>2, Zenon
<1>11. ConnInv'
  <2>1. \A d \in Conns : reader'[d] # 0 =>
           call'[reader'[d]].st = "wait" /\ call'[reader'[d]].conn = d
    BY <1>1, <1>2, <1>6, Zenon DEF ConnInv, TypeInv
  <2>2. \A d \in Conns : link'[d] = "new" => ~Calling(d)'
    <3> SUFFICES ASSUME NEW d \in Conns, link[d] = "new", NEW q \in Slots,
                        call'[q].conn = d, call'[q].st \in {"ready", "wait"}
                 PROVE  FALSE
      BY <1>1, Zenon DEF Calling
    <3>1. gateway # d /\ ~Calling(d)
      BY Zenon DEF ConnInv
    <3> QED
      BY <3>1, <1>4, <1>6, Zenon DEF Calling
  <2> QED
    BY <1>1, <2>1, <2>2, Zenon DEF ConnInv
<1> QED
  BY <1>1, <1>2, <1>4, <1>6, <1>7, <1>8, <1>10, <1>11, Zenon

(* A call that moves on without changing its connection keeps what ConnInv  *)
(* says of the connections that were never installed.                       *)
LEMMA NewStaysQuiet ==
    ASSUME BaseInv, NEW s \in Slots, Running(s),
           call'[s].st \in {"ready", "wait"} =>
              call'[s].conn = call[s].conn /\ call[s].st \in {"ready", "wait"},
           \A q \in Slots : q # s => call'[q] = call[q]
    PROVE  \A d \in Conns : ~Calling(d) => ~Calling(d)'
BY Zenon DEF Calling

(* An envelope is written.                                                  *)
LEMMA WriteFacts ==
    ASSUME BaseInv, NEW s \in Slots, SendWrite(s)
    PROVE  /\ BaseInv'
           /\ call[s].st = "ready" /\ call[s].conn \in Conns
           /\ <<call[s].text, call[s].peer>> \in Ids
           /\ <<call[s].text, call[s].peer>> # NoId
           /\ call'[s] = [call[s] EXCEPT !.st = "wait"]
           /\ call'[s].st = "wait" /\ call'[s].conn = call[s].conn
           /\ call'[s].text = call[s].text /\ call'[s].peer = call[s].peer
           /\ call'[s].id = call[s].id
           /\ \A q \in Slots : q # s => call'[q] = call[q]
           /\ asked'[call[s].conn] =
                Append(asked[call[s].conn], <<call[s].text, call[s].peer>>)
           /\ \A d \in Conns : d # call[s].conn => asked'[d] = asked[d]
           /\ UNCHANGED <<stream, fetching, reader, publishVars, sends, disturbed>>
<1> USE DEF BaseInv
<1> DEFINE c == call[s].conn
           id == <<call[s].text, call[s].peer>>
<1>1. /\ call[s].st = "ready" /\ call[s] \in CallRecords
      /\ c \in Conns /\ call[s].text \in 1..sends
      /\ call[s].peer \in 1..Recipients(call[s].chat)
  BY Zenon DEF SendWrite, TypeInv, CallInv, Running
<1>2. id \in Ids /\ id # NoId
  <2>1. call[s].text \in Texts /\ call[s].peer \in 1..Peers
    BY <1>1, RecipientsRange, TextsSent, Zenon
  <2> QED
    BY <2>1, IdFacts, Zenon
<1>3. /\ asked' = [asked EXCEPT ![c] = Append(asked[c], id)]
      /\ call' = [call EXCEPT ![s] = [call[s] EXCEPT !.st = "wait"]]
      /\ Alive(c)
      /\ UNCHANGED <<gateway, link, stream, fetching, reader, publishVars, bounds, ghosts>>
  BY Zenon DEF SendWrite
<1> HIDE DEF id
<1>4. Append(asked[c], id) \in Seq(Ids)
  BY <1>1, <1>2, Appended, Zenon DEF TypeInv
<1>5. /\ asked' \in [Conns -> Seq(Ids)]
      /\ asked'[c] = Append(asked[c], id)
      /\ \A d \in Conns : d # c => asked'[d] = asked[d]
  BY <1>1, <1>3, <1>4, Zenon DEF TypeInv
<1>6. /\ [call[s] EXCEPT !.st = "wait"] \in CallRecords
      /\ \A f \in {"chat", "conn", "text", "peer", "id"} :
            [call[s] EXCEPT !.st = "wait"][f] = call[s][f]
      /\ [call[s] EXCEPT !.st = "wait"].st = "wait"
  BY <1>1, Zenon DEF CallRecords, CallStates
<1>7. /\ call' \in [Slots -> CallRecords]
      /\ call'[s] = [call[s] EXCEPT !.st = "wait"]
      /\ \A q \in Slots : q # s => call'[q] = call[q]
  BY <1>3, <1>6, OneCall, Zenon
<1>8. /\ call'[s].st = "wait" /\ call'[s].conn = c /\ call'[s].text = call[s].text
      /\ call'[s].peer = call[s].peer /\ call'[s].id = call[s].id
      /\ call'[s].chat = call[s].chat
  BY <1>6, <1>7, Zenon
<1>9. TypeInv'
  BY <1>3, <1>5, <1>7, Zenon DEF TypeInv, publishVars, bounds, ghosts
<1>10. CallInv'
  <2>1. sends' = sends
    BY <1>3, Zenon DEF bounds
  <2> SUFFICES ASSUME NEW q \in Slots
               PROVE  /\ call'[q].st # "idle" =>
                           /\ call'[q].conn \in Conns /\ call'[q].text \in 1..sends
                           /\ call'[q].peer \in 1..Recipients(call'[q].chat)
                      /\ call'[q].st \in {"acked", "publish"} => call'[q].chat = "cloud"
    BY <2>1, Zenon DEF CallInv, Running
  <2>2. CASE q = s
    BY <2>2, <1>1, <1>8, Zenon
  <2>3. CASE q # s
    BY <2>3, <1>7, Zenon DEF CallInv, Running
  <2> QED
    BY <2>2, <2>3, Zenon
<1>11. ConnInv'
  <2>1. \A d \in Conns : ~Calling(d) => ~Calling(d)'
    BY <1>1, <1>7, <1>8, NewStaysQuiet, Zenon DEF Running
  <2>2. \A d \in Conns : reader'[d] # 0 =>
           call'[reader'[d]].st = "wait" /\ call'[reader'[d]].conn = d
    BY <1>1, <1>3, <1>7, Zenon DEF ConnInv, TypeInv
  <2>3. \A d \in Conns : link'[d] = "new" => asked'[d] = << >>
    BY <1>3, <1>5, Zenon DEF ConnInv, Alive
  <2> QED
    BY <1>3, <2>1, <2>2, <2>3, Zenon DEF ConnInv
<1> QED
  BY <1>1, <1>2, <1>3, <1>5, <1>7, <1>8, <1>9, <1>10, <1>11, Zenon DEF id, bounds, ghosts

(* A call that ends with an error.                                          *)
LEMMA EndFacts ==
    ASSUME BaseInv, NEW s \in Slots,
           SendWriteFails(s) \/ SendReceiveFails(s) \/ PublishFails(s)
    PROVE  /\ BaseInv'
           /\ Running(s) /\ call'[s].st = "idle"
           /\ \A q \in Slots : q # s => call'[q] = call[q]
           /\ UNCHANGED <<asked, stream, fetching, publishVars, sends, disturbed>>
<1> USE DEF BaseInv
<1>1. /\ Running(s) /\ call' = [call EXCEPT ![s] = Idle]
      /\ UNCHANGED <<gateway, link, asked, stream, fetching, publishVars, bounds, ghosts>>
  BY Zenon DEF SendWriteFails, SendReceiveFails, PublishFails, Running
<1>2. /\ call' \in [Slots -> CallRecords]
      /\ call'[s] = Idle
      /\ \A q \in Slots : q # s => call'[q] = call[q]
  BY <1>1, IdleType, OneCall, Zenon
<1>3. /\ reader' \in [Conns -> {0} \cup Slots]
      /\ \A d \in Conns : reader'[d] # 0 =>
            reader'[d] \in Slots /\ reader'[d] # s
            /\ call[reader'[d]].st = "wait" /\ call[reader'[d]].conn = d
  <2>1. CASE SendReceiveFails(s)
    BY <2>1, Zenon DEF SendReceiveFails, TypeInv, ConnInv
  <2>2. CASE SendWriteFails(s) \/ PublishFails(s)
    <3>1. UNCHANGED reader /\ call[s].st # "wait"
      BY <2>2, Zenon DEF SendWriteFails, PublishFails
    <3> QED
      BY <3>1, Zenon DEF TypeInv, ConnInv
  <2> QED
    BY <2>1, <2>2, Zenon
<1>4. TypeInv'
  BY <1>1, <1>2, <1>3, Zenon DEF TypeInv, publishVars, bounds, ghosts
<1>5. CallInv'
  BY <1>1, <1>2, IdleType, Zenon DEF CallInv, Running, bounds
<1>6. ConnInv'
  <2>1. \A d \in Conns : ~Calling(d) => ~Calling(d)'
    BY <1>1, <1>2, IdleType, NewStaysQuiet, Zenon
  <2> QED
    BY <1>1, <1>2, <1>3, <2>1, Zenon DEF ConnInv
<1> QED
  BY <1>1, <1>2, <1>4, <1>5, <1>6, IdleType, Zenon DEF bounds, ghosts

(* A call takes the receive lock.                                           *)
LEMMA AwaitFacts ==
    ASSUME BaseInv, NEW s \in Slots, SendAwait(s)
    PROVE  /\ BaseInv'
           /\ UNCHANGED <<asked, stream, call, fetching, publishVars, sends, disturbed>>
<1> USE DEF BaseInv
<1>1. /\ call[s].st = "wait"
      /\ UNCHANGED <<gateway, link, asked, stream, call, fetching, publishVars, bounds, ghosts>>
  BY Zenon DEF SendAwait
<1>2. /\ reader' \in [Conns -> {0} \cup Slots]
      /\ \A d \in Conns : reader'[d] = reader[d] \/ (reader'[d] = s /\ d = call[s].conn)
  BY Zenon DEF SendAwait, TypeInv
<1>3. TypeInv' /\ CallInv'
  BY <1>1, <1>2, Zenon DEF TypeInv, CallInv, Running, publishVars, bounds, ghosts
<1>4. ConnInv'
  BY <1>1, <1>2, Zenon DEF ConnInv, Calling
<1> QED
  BY <1>1, <1>3, <1>4, Zenon DEF bounds, ghosts

(* An answer is taken.  The call ends with an error, or goes on with the    *)
(* id, or returns it.                                                       *)
LEMMA ReceiveFacts ==
    ASSUME BaseInv, NEW s \in Slots, SendReceive(s)
    PROVE  /\ BaseInv'
           /\ call[s].st = "wait" /\ call[s].conn \in Conns
           /\ call[s] \in CallRecords /\ call[s].peer \in 1..Recipients(call[s].chat)
           /\ call[s].text \in Texts
           /\ stream[call[s].conn] # << >>
           /\ Head(stream[call[s].conn]) \in Frames
           /\ stream'[call[s].conn] = Tail(stream[call[s].conn])
           /\ \A d \in Conns : d # call[s].conn => stream'[d] = stream[d]
           /\ \A q \in Slots : q # s => call'[q] = call[q]
           /\ UNCHANGED <<asked, fetching, accepted, msgSeq, history, sends, disturbed>>
           /\ LET f == Head(stream[call[s].conn])
                  a == Acknowledged(call[s], f.id)
              IN  \/ /\ f.type # "ack"
                     /\ call'[s].st = "idle" /\ returned' = returned
                  \/ /\ f.type = "ack" /\ a.st = "done"
                     /\ call'[s].st = "idle" /\ returned' = returned \cup {Result(a)}
                  \/ /\ f.type = "ack" /\ a.st \in {"acked", "ready"}
                     /\ call'[s] = a /\ returned' = returned
<1> USE DEF BaseInv
<1> DEFINE c == call[s].conn
           f == Head(stream[c])
           a == Acknowledged(call[s], f.id)
           n == IF f.type = "ack" THEN a ELSE Idle
           d == IF n.st = "done" THEN Idle ELSE n
<1>1. /\ call[s].st = "wait" /\ c \in Conns /\ call[s] \in CallRecords
      /\ call[s].text \in 1..sends /\ call[s].peer \in 1..Recipients(call[s].chat)
      /\ stream[c] # << >> /\ reader[c] = s
  BY Zenon DEF SendReceive, TypeInv, CallInv, Running
<1>2. /\ call' = [call EXCEPT ![s] = d]
      /\ returned' = IF n.st = "done" THEN returned \cup {Result(n)} ELSE returned
      /\ stream' = [stream EXCEPT ![c] = Tail(stream[c])]
      /\ reader' = [reader EXCEPT ![c] = 0]
      /\ UNCHANGED <<gateway, link, asked, fetching, accepted, msgSeq, history, bounds, ghosts>>
  BY Zenon DEF SendReceive
<1>3. f \in Frames /\ Tail(stream[c]) \in Seq(Frames)
  <2>1. stream[c] \in Seq(Frames) /\ stream[c] # << >>
    BY <1>1, Zenon DEF TypeInv
  <2> QED
    BY <2>1, Shortened, Zenon
<1>4. f.id \in Ids /\ call[s].text \in Texts
  BY <1>1, <1>3, TextsSent, Zenon DEF Frames
<1> HIDE DEF f
<1>5. /\ a.st # "done" => a \in CallRecords
      /\ a.text = call[s].text /\ a.chat = call[s].chat /\ a.conn = c /\ a.id \in Ids
      /\ a.peer \in 1..Recipients(call[s].chat)
      /\ a.st = IF call[s].chat = "cloud" THEN "acked"
                ELSE IF call[s].peer < Recipients(call[s].chat) THEN "ready" ELSE "done"
  BY <1>1, <1>4, AckedType, Zenon
<1> HIDE DEF a
<1>5a. a.st \in {"acked", "ready", "done"} /\ (a.st = "acked" => a.chat = "cloud")
  BY <1>5, Zenon
<1>6. d \in CallRecords /\ d.st # "done"
  BY <1>5, <1>5a, IdleType, Zenon
<1>7. /\ call' \in [Slots -> CallRecords]
      /\ call'[s] = d
      /\ \A q \in Slots : q # s => call'[q] = call[q]
  BY <1>2, <1>6, OneCall, Zenon
<1>8. /\ stream' \in [Conns -> Seq(Frames)]
      /\ stream'[c] = Tail(stream[c])
      /\ \A e \in Conns : e # c => stream'[e] = stream[e]
      /\ reader' \in [Conns -> {0} \cup Slots]
      /\ \A e \in Conns : reader'[e] # 0 => e # c /\ reader'[e] = reader[e]
  BY <1>1, <1>2, <1>3, Zenon DEF TypeInv
<1>9. \/ f.type # "ack" /\ d = Idle /\ returned' = returned
      \/ f.type = "ack" /\ a.st = "done" /\ d = Idle /\ returned' = returned \cup {Result(a)}
      \/ f.type = "ack" /\ a.st \in {"acked", "ready"} /\ d = a /\ returned' = returned
  BY <1>2, <1>5a, IdleType, Zenon
<1> HIDE DEF d, n
<1>10. returned' \subseteq Results
  <2>1. call[s].chat \in Chats
    BY <1>1, Zenon DEF CallRecords
  <2>2. Result(a) \in Results
    BY <1>1, <1>4, <1>5, <2>1, Zenon DEF Result, Results
  <2> QED
    BY <1>9, <2>2, Zenon DEF TypeInv
<1>11. TypeInv'
  BY <1>2, <1>7, <1>8, <1>10, Zenon DEF TypeInv, bounds, ghosts
<1>12. CallInv'
  <2>1. sends' = sends
    BY <1>2, Zenon DEF bounds
  <2> SUFFICES ASSUME NEW q \in Slots
               PROVE  /\ call'[q].st # "idle" =>
                           /\ call'[q].conn \in Conns /\ call'[q].text \in 1..sends
                           /\ call'[q].peer \in 1..Recipients(call'[q].chat)
                      /\ call'[q].st \in {"acked", "publish"} => call'[q].chat = "cloud"
    BY <2>1, Zenon DEF CallInv, Running
  <2>2. CASE q = s
    BY <2>2, <1>1, <1>5, <1>5a, <1>7, <1>9, IdleType, Zenon
  <2>3. CASE q # s
    BY <2>3, <1>7, Zenon DEF CallInv, Running
  <2> QED
    BY <2>2, <2>3, Zenon
<1>13. ConnInv'
  <2>1. call'[s].st \in {"ready", "wait"} => call'[s].conn = c
    BY <1>5, <1>7, <1>9, IdleType, Zenon
  <2>2. \A e \in Conns : ~Calling(e) => ~Calling(e)'
    BY <1>1, <1>7, <2>1, NewStaysQuiet, Zenon DEF Running
  <2>3. \A e \in Conns : reader'[e] # 0 =>
           call'[reader'[e]].st = "wait" /\ call'[reader'[e]].conn = e
    <3> SUFFICES ASSUME NEW e \in Conns, reader'[e] # 0
                 PROVE  call'[reader'[e]].st = "wait" /\ call'[reader'[e]].conn = e
      BY Zenon
    <3>1. e # c /\ reader'[e] = reader[e] /\ reader[e] # 0
      BY <1>8, Zenon
    <3>2. reader[e] \in Slots /\ call[reader[e]].st = "wait" /\ call[reader[e]].conn = e
      BY <3>1, Zenon DEF ConnInv, TypeInv
    <3>3. reader[e] # s
      BY <3>1, <3>2, Zenon
    <3> QED
      BY <1>7, <3>1, <3>2, <3>3, Zenon
  <2>4. \A e \in Conns : link'[e] = "new" => stream'[e] = << >>
    <3>1. link[c] # "new" /\ UNCHANGED link
      BY <1>1, <1>2, Zenon DEF ConnInv
    <3> QED
      BY <1>8, <3>1, Zenon DEF ConnInv
  <2> QED
    BY <1>2, <2>2, <2>3, <2>4, Zenon DEF ConnInv
<1>14. /\ f.type # "ack" => call'[s].st = "idle" /\ returned' = returned
       /\ f.type = "ack" /\ a.st = "done" =>
            call'[s].st = "idle" /\ returned' = returned \cup {Result(a)}
       /\ f.type = "ack" /\ a.st # "done" => call'[s] = a /\ returned' = returned
  BY <1>7, <1>9, IdleType, Zenon
<1> QED
  BY <1>1, <1>2, <1>3, <1>4, <1>5a, <1>7, <1>8, <1>11, <1>12, <1>13, <1>14, Zenon
     DEF f, a, bounds, ghosts

(* A cloud text gets its number.                                            *)
LEMMA NumberFacts ==
    ASSUME BaseInv, NEW s \in Slots, NextCloudMsgSeq(s)
    PROVE  /\ BaseInv'
           /\ call[s].st = "acked" /\ call'[s].st = "publish" /\ call'[s].seq = msgSeq
           /\ call'[s].conn = call[s].conn /\ call'[s].text = call[s].text
           /\ call'[s].id = call[s].id
           /\ \A q \in Slots : q # s => call'[q] = call[q]
           /\ msgSeq' = msgSeq + 1
           /\ UNCHANGED <<asked, stream, fetching, accepted, returned, history, sends, disturbed>>
<1> USE DEF BaseInv
<1> DEFINE n == [call[s] EXCEPT !.st = "publish", !.seq = msgSeq]
<1>1. /\ call[s].st = "acked" /\ call[s] \in CallRecords /\ msgSeq \in Nat
      /\ call[s].conn \in Conns /\ call[s].text \in 1..sends
      /\ call[s].peer \in 1..Recipients(call[s].chat) /\ call[s].chat = "cloud"
  BY Zenon DEF NextCloudMsgSeq, TypeInv, CallInv, Running
<1>2. /\ call' = [call EXCEPT ![s] = n] /\ msgSeq' = msgSeq + 1
      /\ UNCHANGED <<gateway, link, asked, stream, fetching, reader, accepted, returned,
                     history, bounds, ghosts>>
  BY <1>1, Zenon DEF NextCloudMsgSeq, TypeInv, CallRecords
<1>3. /\ n \in CallRecords /\ n.st = "publish" /\ n.seq = msgSeq /\ n.conn = call[s].conn
      /\ n.text = call[s].text /\ n.id = call[s].id /\ n.peer = call[s].peer
      /\ n.chat = call[s].chat
  BY <1>1, Zenon DEF CallRecords, CallStates
<1> HIDE DEF n
<1>4. /\ call' \in [Slots -> CallRecords]
      /\ call'[s] = n
      /\ \A q \in Slots : q # s => call'[q] = call[q]
  BY <1>2, <1>3, OneCall, Zenon
<1>5. msgSeq' \in Nat
  BY <1>1, <1>2
<1>6. TypeInv'
  BY <1>2, <1>4, <1>5, Zenon DEF TypeInv, bounds, ghosts
<1>7. CallInv'
  BY <1>1, <1>2, <1>3, <1>4, Zenon DEF CallInv, Running, bounds
<1>8. ConnInv'
  <2>1. \A e \in Conns : ~Calling(e) => ~Calling(e)'
    BY <1>1, <1>3, <1>4, NewStaysQuiet, Zenon DEF Running
  <2>2. \A e \in Conns : reader'[e] # 0 =>
           call'[reader'[e]].st = "wait" /\ call'[reader'[e]].conn = e
    BY <1>1, <1>2, <1>4, Zenon DEF ConnInv, TypeInv
  <2> QED
    BY <1>2, <2>1, <2>2, Zenon DEF ConnInv
<1> QED
  BY <1>1, <1>2, <1>3, <1>4, <1>6, <1>7, <1>8, Zenon DEF bounds, ghosts

(* A cloud text is published, and the call returns its id.                  *)
LEMMA PushFacts ==
    ASSUME BaseInv, NEW s \in Slots, PushCloudHistory(s)
    PROVE  /\ BaseInv'
           /\ call[s].st = "publish" /\ call[s].chat = "cloud" /\ call'[s].st = "idle"
           /\ \A q \in Slots : q # s => call'[q] = call[q]
           /\ history' = history \cup
                {[text |-> call[s].text, conn |-> call[s].conn, id |-> call[s].id,
                  seq |-> call[s].seq]}
           /\ returned' = returned \cup {Result(call[s])}
           /\ UNCHANGED <<asked, stream, fetching, accepted, msgSeq, sends, disturbed>>
<1> USE DEF BaseInv
<1> DEFINE h == [text |-> call[s].text, conn |-> call[s].conn, id |-> call[s].id,
                 seq |-> call[s].seq]
<1>1. /\ call[s].st = "publish" /\ call[s] \in CallRecords
      /\ call[s].conn \in Conns /\ call[s].text \in 1..sends /\ call[s].chat = "cloud"
  BY Zenon DEF PushCloudHistory, TypeInv, CallInv, Running
<1>2. /\ call' = [call EXCEPT ![s] = Idle] /\ history' = history \cup {h}
      /\ returned' = returned \cup {Result(call[s])}
      /\ UNCHANGED <<gateway, link, asked, stream, fetching, reader, accepted, msgSeq, bounds,
                     ghosts>>
  BY Zenon DEF PushCloudHistory
<1>3. call[s].text \in Texts /\ call[s].id \in Ids /\ call[s].seq \in Nat /\ call[s].chat \in Chats
  BY <1>1, TextsSent, Zenon DEF CallRecords
<1>4. h \in Entries /\ Result(call[s]) \in Results
  BY <1>1, <1>3, Zenon DEF Entries, Results, Result
<1> HIDE DEF h
<1>5. /\ call' \in [Slots -> CallRecords]
      /\ call'[s] = Idle
      /\ \A q \in Slots : q # s => call'[q] = call[q]
  BY <1>2, IdleType, OneCall, Zenon
<1>6. TypeInv'
  BY <1>2, <1>4, <1>5, Zenon DEF TypeInv, bounds, ghosts
<1>7. CallInv'
  BY <1>2, <1>5, IdleType, Zenon DEF CallInv, Running, bounds
<1>8. ConnInv'
  <2>1. \A e \in Conns : ~Calling(e) => ~Calling(e)'
    BY <1>1, <1>5, IdleType, NewStaysQuiet, Zenon DEF Running
  <2>2. \A e \in Conns : reader'[e] # 0 =>
           call'[reader'[e]].st = "wait" /\ call'[reader'[e]].conn = e
    BY <1>1, <1>2, <1>5, Zenon DEF ConnInv, TypeInv
  <2> QED
    BY <1>2, <2>1, <2>2, Zenon DEF ConnInv
<1> QED
  BY <1>1, <1>2, <1>5, <1>6, <1>7, <1>8, IdleType, Zenon DEF h, bounds, ghosts

(* The gateway answers an envelope.                                         *)
LEMMA AnswerFacts ==
    ASSUME BaseInv, NEW c \in Conns, GatewayAnswers(c)
    PROVE  /\ BaseInv'
           /\ asked[c] # << >> /\ Head(asked[c]) \in Ids
           /\ asked'[c] = Tail(asked[c])
           /\ \A d \in Conns : d # c => asked'[d] = asked[d] /\ stream'[d] = stream[d]
           /\ \/ /\ stream'[c] = Append(stream[c], SendAck(Head(asked[c])))
                 /\ accepted' = accepted \cup {Head(asked[c])}
              \/ /\ stream'[c] = Append(stream[c], ErrorFrame)
                 /\ accepted' = accepted
           /\ UNCHANGED <<call, fetching, returned, msgSeq, history, sends, disturbed>>
<1> USE DEF BaseInv
<1>1. /\ Alive(c) /\ asked[c] # << >>
      /\ asked' = [asked EXCEPT ![c] = Tail(asked[c])]
      /\ UNCHANGED <<gateway, link, call, fetching, reader, returned, msgSeq, history, bounds,
                     ghosts>>
  BY Zenon DEF GatewayAnswers
<1>2. Tail(asked[c]) \in Seq(Ids) /\ Head(asked[c]) \in Ids
  BY <1>1, Shortened, Zenon DEF TypeInv
<1>3. /\ asked' \in [Conns -> Seq(Ids)] /\ asked'[c] = Tail(asked[c])
      /\ \A d \in Conns : d # c => asked'[d] = asked[d]
  BY <1>1, <1>2, Zenon DEF TypeInv
<1>4. \E f \in Frames :
        /\ stream' = [stream EXCEPT ![c] = Append(stream[c], f)]
        /\ \/ f = SendAck(Head(asked[c])) /\ accepted' = accepted \cup {Head(asked[c])}
           \/ f = ErrorFrame /\ accepted' = accepted
  <2>1. SendAck(Head(asked[c])) \in Frames /\ ErrorFrame \in Frames
    BY <1>2, FrameTypes, Zenon
  <2> QED
    BY <2>1, Zenon DEF GatewayAnswers
<1>5. PICK f \in Frames :
        /\ stream' = [stream EXCEPT ![c] = Append(stream[c], f)]
        /\ \/ f = SendAck(Head(asked[c])) /\ accepted' = accepted \cup {Head(asked[c])}
           \/ f = ErrorFrame /\ accepted' = accepted
  BY <1>4, Zenon
<1>6. Append(stream[c], f) \in Seq(Frames)
  BY Appended, Zenon DEF TypeInv
<1>7. /\ stream' \in [Conns -> Seq(Frames)] /\ stream'[c] = Append(stream[c], f)
      /\ \A d \in Conns : d # c => stream'[d] = stream[d]
  BY <1>5, <1>6, Zenon DEF TypeInv
<1>8. accepted' \subseteq Ids
  BY <1>2, <1>5, Zenon DEF TypeInv
<1>9. TypeInv'
  BY <1>1, <1>3, <1>7, <1>8, Zenon DEF TypeInv, bounds, ghosts
<1>10. CallInv'
  BY <1>1, Zenon DEF CallInv, Running, bounds
<1>11. ConnInv'
  <2>1. link[c] # "new"
    BY <1>1, Zenon DEF Alive
  <2> QED
    BY <1>1, <1>3, <1>7, <2>1, Zenon DEF ConnInv, Calling
<1> QED
  BY <1>1, <1>2, <1>3, <1>5, <1>7, <1>9, <1>10, <1>11, Zenon DEF bounds, ghosts

(* A fetch takes a frame.                                                   *)
LEMMA TakeFacts ==
    ASSUME BaseInv, NEW c \in Conns, FetchReceive(c)
    PROVE  /\ BaseInv'
           /\ c \in fetching /\ stream[c] # << >> /\ stream'[c] = Tail(stream[c])
           /\ \A d \in Conns : d # c => stream'[d] = stream[d]
           /\ UNCHANGED <<asked, call, fetching, publishVars, sends, disturbed>>
<1> USE DEF BaseInv
<1>1. /\ c \in fetching /\ stream[c] # << >>
      /\ stream' = [stream EXCEPT ![c] = Tail(stream[c])]
      /\ UNCHANGED <<gateway, link, asked, call, fetching, reader, publishVars, bounds, ghosts>>
  BY Zenon DEF FetchReceive
<1>2. Tail(stream[c]) \in Seq(Frames)
  BY <1>1, Shortened, Zenon DEF TypeInv
<1>3. /\ stream' \in [Conns -> Seq(Frames)] /\ stream'[c] = Tail(stream[c])
      /\ \A d \in Conns : d # c => stream'[d] = stream[d]
  BY <1>1, <1>2, Zenon DEF TypeInv
<1>4. TypeInv' /\ CallInv'
  BY <1>1, <1>3, Zenon DEF TypeInv, CallInv, Running, publishVars, bounds, ghosts
<1>5. ConnInv'
  BY <1>1, <1>3, Zenon DEF ConnInv, Calling
<1> QED
  BY <1>1, <1>3, <1>4, <1>5, Zenon DEF bounds, ghosts

(* A message of another user arrives.                                       *)
LEMMA MessageFacts ==
    ASSUME BaseInv, NEW c \in Conns, MessageArrives(c)
    PROVE  /\ BaseInv'
           /\ stream'[c] = Append(stream[c], IncomingMessage)
           /\ \A d \in Conns : d # c => stream'[d] = stream[d]
           /\ disturbed \subseteq disturbed' /\ (c \notin disturbed' => ~Calling(c))
           /\ UNCHANGED <<asked, call, fetching, publishVars, sends>>
<1> USE DEF BaseInv
<1>1. /\ Alive(c) /\ stream' = [stream EXCEPT ![c] = Append(stream[c], IncomingMessage)]
      /\ UNCHANGED <<gateway, link, asked, call, fetching, reader, publishVars, sends>>
  BY Zenon DEF MessageArrives
<1>2. /\ disturbed \subseteq disturbed' /\ disturbed' \subseteq Conns
      /\ c \notin disturbed' => ~Calling(c)
  BY Zenon DEF MessageArrives, TypeInv
<1>3. Append(stream[c], IncomingMessage) \in Seq(Frames)
  BY FrameTypes, Appended, Zenon DEF TypeInv
<1>4. /\ stream' \in [Conns -> Seq(Frames)]
      /\ stream'[c] = Append(stream[c], IncomingMessage)
      /\ \A d \in Conns : d # c => stream'[d] = stream[d]
  BY <1>1, <1>3, Zenon DEF TypeInv
<1>5. TypeInv' /\ CallInv'
  BY <1>1, <1>2, <1>4, Zenon DEF TypeInv, CallInv, Running, publishVars
<1>6. ConnInv'
  <2>1. link[c] # "new"
    BY <1>1, Zenon DEF Alive
  <2> QED
    BY <1>1, <1>4, <2>1, Zenon DEF ConnInv, Calling
<1> QED
  BY <1>1, <1>2, <1>4, <1>5, <1>6, Zenon

(* A connection fails.                                                      *)
LEMMA LossFacts ==
    ASSUME BaseInv, NEW c \in Conns, ConnectionLost(c)
    PROVE  /\ BaseInv'
           /\ asked'[c] = << >> /\ \A d \in Conns : d # c => asked'[d] = asked[d]
           /\ UNCHANGED <<stream, call, fetching, publishVars, sends, disturbed>>
<1> USE DEF BaseInv
<1>1. /\ Alive(c) /\ link' = [link EXCEPT ![c] = "dead"]
      /\ asked' = [asked EXCEPT ![c] = << >>]
      /\ UNCHANGED <<gateway, stream, call, fetching, reader, publishVars, sends, ghosts>>
  BY Zenon DEF ConnectionLost
<1>2. << >> \in Seq(Ids)
  OBVIOUS
<1>3. /\ asked' \in [Conns -> Seq(Ids)] /\ asked'[c] = << >>
      /\ \A d \in Conns : d # c => asked'[d] = asked[d] /\ link'[d] = link[d]
      /\ link' \in [Conns -> {"new", "quic", "websocket", "dead"}] /\ link'[c] = "dead"
  BY <1>1, <1>2, Zenon DEF TypeInv
<1>4. TypeInv' /\ CallInv'
  BY <1>1, <1>3, Zenon DEF TypeInv, CallInv, Running, publishVars, ghosts
<1>5. ConnInv'
  BY <1>1, <1>3, Zenon DEF ConnInv, Calling
<1> QED
  BY <1>1, <1>3, <1>4, <1>5, Zenon DEF ghosts

(* A fetch begins or ends.                                                  *)
LEMMA FetchFacts ==
    ASSUME BaseInv, FetchStart \/ \E c \in Conns : FetchEnds(c)
    PROVE  /\ BaseInv'
           /\ disturbed \subseteq disturbed'
           /\ \A d \in Conns : d \in fetching' /\ d \notin disturbed' =>
                 d \in fetching \/ ~Calling(d)
           /\ UNCHANGED <<asked, stream, call, publishVars, sends>>
<1> USE DEF BaseInv
<1>1. CASE FetchStart
  <2>1. /\ gateway \in Conns /\ fetching' = fetching \cup {gateway}
        /\ UNCHANGED <<gateway, link, asked, stream, call, reader, publishVars, sends>>
    BY <1>1, Zenon DEF FetchStart, TypeInv
  <2>2. /\ disturbed \subseteq disturbed' /\ disturbed' \subseteq Conns
        /\ gateway \notin disturbed' => ~Calling(gateway)
    BY <1>1, <2>1, Zenon DEF FetchStart, TypeInv
  <2>3. TypeInv' /\ CallInv'
    BY <2>1, <2>2, Zenon DEF TypeInv, CallInv, Running, publishVars
  <2>4. ConnInv'
    BY <2>1, Zenon DEF ConnInv, Calling
  <2> QED
    BY <2>1, <2>2, <2>3, <2>4, Zenon
<1>2. CASE \E c \in Conns : FetchEnds(c)
  <2>1. /\ fetching' \subseteq fetching
        /\ UNCHANGED <<gateway, link, asked, stream, call, reader, publishVars, sends, disturbed>>
    BY <1>2, Zenon DEF FetchEnds, bounds, ghosts
  <2> QED
    BY <2>1, Zenon DEF TypeInv, CallInv, Running, ConnInv, Calling, publishVars
<1> QED
  BY <1>1, <1>2, Zenon

(* Every step keeps the types.                                              *)
LEMMA BaseStep == ASSUME BaseInv, [Next]_vars PROVE BaseInv'
<1>1. CASE Next
  BY <1>1, GatewayFacts, StartFacts, WriteFacts, EndFacts, AwaitFacts, ReceiveFacts,
     NumberFacts, PushFacts, AnswerFacts, TakeFacts, MessageFacts, LossFacts, FetchFacts, Zenon
     DEF Next, SendStep
<1>2. CASE UNCHANGED vars
  BY <1>2, Zenon DEF vars, publishVars, bounds, ghosts, BaseInv, TypeInv, CallInv, ConnInv,
     Running, Calling
<1> QED
  BY <1>1, <1>2, Zenon

(* The variables keep their types, the receive lock of a connection is held *)
(* only by a call that waits for its answer there (recv_envelope gives it   *)
(* back on every path), and a connection that was never installed has no    *)
(* traffic; for any number of connections, calls, recipients and texts.     *)
THEOREM TypeCorrect == Spec => []TypeOK
<1>1. Init => BaseInv
  BY InitType, Zenon DEF BaseInv
<1>2. BaseInv /\ [Next]_vars => BaseInv'
  BY BaseStep, Zenon
<1>3. BaseInv => TypeOK
  <2> SUFFICES ASSUME BaseInv PROVE TypeOK
    BY Zenon
  <2> USE DEF BaseInv
  <2>1. \A s \in Slots : call[s] \in CallRecords
    BY Zenon DEF TypeInv
  <2>2. \A c \in Conns : reader[c] # 0 => reader[c] \in Slots
    BY Zenon DEF TypeInv
  <2> QED
    BY <2>1, <2>2, Zenon DEF TypeInv, ConnInv, TypeOK, CallRecords, CallStates, Frames,
       Results, Entries
<1> QED
  BY <1>1, <1>2, <1>3, PTL DEF Spec
-----------------------------------------------------------------------------
(* The cloud history.  Texts are numbered when the call begins and sequence *)
(* numbers given out once, so that two calls, two entries, or a call and an  *)
(* entry never share one.  What was published was also returned.            *)
TextsDiffer ==
    \A s, q \in Slots : (Running(s) /\ Running(q) /\ call[s].text = call[q].text) => s = q

Publishing(s) == call[s].st = "publish"

SeqsDiffer ==
    /\ \A s, q \in Slots :
          (Publishing(s) /\ Publishing(q) /\ call[s].seq = call[q].seq) => s = q
    /\ \A s \in Slots : Publishing(s) => call[s].seq < msgSeq

EntriesBelow == \A h \in history : h.text <= sends /\ h.seq < msgSeq

EntriesApart ==
    \A h \in history, s \in Slots :
        /\ Running(s) => call[s].text # h.text
        /\ Publishing(s) => call[s].seq # h.seq

EntriesDiffer == \A h, g \in history : (h.text = g.text \/ h.seq = g.seq) => h = g

EntriesReturned ==
    \A h \in history :
        \E r \in returned : r.text = h.text /\ r.conn = h.conn /\ r.id = h.id

HistoryInv ==
    /\ TextsDiffer /\ SeqsDiffer /\ EntriesBelow
    /\ EntriesApart /\ EntriesDiffer /\ EntriesReturned

(* A call that moves on with its text, or ends, changes nothing of this.    *)
LEMMA HistoryMove ==
    ASSUME HistoryInv, NEW s \in Slots, Running(s), ~Publishing(s)',
           Running(s)' => call'[s].text = call[s].text,
           \A q \in Slots : q # s => call'[q] = call[q],
           UNCHANGED <<history, msgSeq, sends>>, returned \subseteq returned'
    PROVE  HistoryInv'
<1> USE DEF HistoryInv
<1>1. \A q \in Slots : Running(q)' => Running(q) /\ call'[q].text = call[q].text
  BY Zenon DEF Running
<1>2. \A q \in Slots : Publishing(q)' => Publishing(q) /\ call'[q].seq = call[q].seq
  BY Zenon DEF Publishing
<1>3. TextsDiffer'
  BY <1>1, Zenon DEF TextsDiffer
<1>4. SeqsDiffer'
  BY <1>2, Zenon DEF SeqsDiffer
<1>5. EntriesApart'
  BY <1>1, <1>2 DEF EntriesApart
<1>6. EntriesBelow' /\ EntriesDiffer' /\ EntriesReturned'
  BY Zenon DEF EntriesBelow, EntriesDiffer, EntriesReturned
<1> QED
  BY <1>3, <1>4, <1>5, <1>6, Zenon

(* Steps that leave the calls alone.                                        *)
LEMMA HistoryFrame ==
    ASSUME BaseInv, HistoryInv, UNCHANGED <<call, returned, msgSeq, history>>,
           sends' \in {sends, sends + 1}
    PROVE  HistoryInv'
<1> USE DEF HistoryInv
<1>1. \A h \in history : h.text \in Nat /\ h.text <= sends
  BY TextsNat, Zenon DEF BaseInv, TypeInv, Entries, EntriesBelow
<1>2. \A h \in history : h.text <= sends'
  <2>1. sends \in Nat
    BY Constants DEF BaseInv, TypeInv
  <2> QED
    BY <1>1, <2>1
<1>3. EntriesBelow'
  BY <1>2, Zenon DEF EntriesBelow
<1> QED
  <2>1. TextsDiffer' /\ SeqsDiffer'
    BY Zenon DEF TextsDiffer, SeqsDiffer, Running, Publishing
  <2>2. EntriesApart'
    BY Zenon DEF EntriesApart, Running, Publishing
  <2>3. EntriesDiffer' /\ EntriesReturned'
    BY Zenon DEF EntriesDiffer, EntriesReturned
  <2> QED
    BY <1>3, <2>1, <2>2, <2>3, Zenon

(* A send that begins has a text of its own.                                *)
LEMMA HistoryStart ==
    ASSUME BaseInv, HistoryInv, NEW s \in Slots, NEW chat \in Chats, SendText(s, chat)
    PROVE  HistoryInv'
<1> USE DEF BaseInv, HistoryInv
<1>1. /\ call[s].st = "idle" /\ sends' = sends + 1 /\ sends < MaxSends
      /\ call'[s].st = "ready" /\ call'[s].text = sends'
      /\ \A q \in Slots : q # s => call'[q] = call[q]
      /\ UNCHANGED <<returned, msgSeq, history>>
  BY StartFacts, Zenon DEF publishVars
<1>2. \A q \in Slots : Running(q)' =>
         (q = s /\ call'[q].text = sends')
         \/ (q # s /\ Running(q) /\ call'[q].text = call[q].text)
  BY <1>1, Zenon DEF Running
<1>3. \A q \in Slots : Publishing(q)' => Publishing(q) /\ call'[q].seq = call[q].seq
  BY <1>1, Zenon DEF Publishing
<1>4. \A q \in Slots : Running(q) => call[q].text # sends'
  BY <1>1, SendsGrow, Zenon DEF CallInv
<1>5. \A h \in history : h.text <= sends' /\ h.text # sends'
  <2>1. \A h \in history : h.text \in Nat /\ h.text <= sends
    BY TextsNat, Zenon DEF TypeInv, Entries, EntriesBelow
  <2> QED
    BY <1>1, <2>1, SendsGrow, Zenon
<1>6. TextsDiffer'
  BY <1>2, <1>4, Zenon DEF TextsDiffer
<1>7. SeqsDiffer'
  BY <1>1, <1>3, Zenon DEF SeqsDiffer
<1>8. EntriesApart'
  BY <1>1, <1>2, <1>3, <1>5 DEF EntriesApart
<1>9. EntriesBelow' /\ EntriesDiffer' /\ EntriesReturned'
  BY <1>1, <1>5, Zenon DEF EntriesBelow, EntriesDiffer, EntriesReturned
<1> QED
  BY <1>6, <1>7, <1>8, <1>9, Zenon

(* A sequence number is given out once.                                     *)
LEMMA HistoryNumber ==
    ASSUME BaseInv, HistoryInv, NEW s \in Slots, NextCloudMsgSeq(s)
    PROVE  HistoryInv'
<1> USE DEF BaseInv, HistoryInv
<1>1. /\ call[s].st = "acked" /\ call'[s].st = "publish" /\ call'[s].seq = msgSeq
      /\ call'[s].text = call[s].text
      /\ \A q \in Slots : q # s => call'[q] = call[q]
      /\ msgSeq' = msgSeq + 1
      /\ UNCHANGED <<returned, history, sends>>
  BY NumberFacts, Zenon
<1>2. /\ msgSeq < msgSeq'
      /\ \A n \in Nat : n < msgSeq => n < msgSeq' /\ n # msgSeq
  BY <1>1 DEF TypeInv
<1>3. /\ \A q \in Slots : Publishing(q) => call[q].seq < msgSeq' /\ call[q].seq # msgSeq
      /\ \A h \in history : h.seq < msgSeq' /\ h.seq # msgSeq
  <2>1. /\ \A q \in Slots : call[q].seq \in Nat
        /\ \A h \in history : h.seq \in Nat
    BY Zenon DEF TypeInv, CallRecords, Entries
  <2> QED
    BY <1>2, <2>1, Zenon DEF SeqsDiffer, EntriesBelow
<1>4. \A q \in Slots : Running(q)' => Running(q) /\ call'[q].text = call[q].text
  BY <1>1, Zenon DEF Running
<1>5. \A q \in Slots : Publishing(q)' =>
         (q = s /\ call'[q].seq = msgSeq)
         \/ (q # s /\ Publishing(q) /\ call'[q].seq = call[q].seq)
  BY <1>1, Zenon DEF Publishing
<1>6. TextsDiffer'
  BY <1>4, Zenon DEF TextsDiffer
<1>7. SeqsDiffer'
  BY <1>2, <1>3, <1>5, Zenon DEF SeqsDiffer
<1>8. EntriesApart'
  BY <1>1, <1>3, <1>4, <1>5 DEF EntriesApart
<1>9. EntriesBelow' /\ EntriesDiffer' /\ EntriesReturned'
  BY <1>1, <1>3, Zenon DEF EntriesBelow, EntriesDiffer, EntriesReturned
<1> QED
  BY <1>6, <1>7, <1>8, <1>9, Zenon

(* What is published has the text and the number of its call.               *)
LEMMA HistoryPush ==
    ASSUME BaseInv, HistoryInv, NEW s \in Slots, PushCloudHistory(s)
    PROVE  HistoryInv'
<1> USE DEF BaseInv, HistoryInv
<1> DEFINE e == [text |-> call[s].text, conn |-> call[s].conn, id |-> call[s].id,
                 seq |-> call[s].seq]
<1>1. /\ call[s].st = "publish" /\ call'[s].st = "idle"
      /\ \A q \in Slots : q # s => call'[q] = call[q]
      /\ history' = history \cup {e}
      /\ returned' = returned \cup {Result(call[s])}
      /\ UNCHANGED <<msgSeq, sends>>
  BY PushFacts, Zenon
<1>2. e.text = call[s].text /\ e.seq = call[s].seq /\ e.conn = call[s].conn /\ e.id = call[s].id
  BY Zenon
<1> HIDE DEF e
<1>3. Running(s) /\ Publishing(s)
  BY <1>1, Zenon DEF Running, Publishing
<1>4. \A q \in Slots : Running(q)' => q # s /\ Running(q) /\ call'[q].text = call[q].text
  BY <1>1, Zenon DEF Running
<1>5. \A q \in Slots : Publishing(q)' => q # s /\ Publishing(q) /\ call'[q].seq = call[q].seq
  BY <1>1, Zenon DEF Publishing
<1>6. TextsDiffer' /\ SeqsDiffer'
  BY <1>1, <1>4, <1>5, Zenon DEF TextsDiffer, SeqsDiffer
<1>7. EntriesBelow'
  BY <1>1, <1>2, <1>3, TextsSent, Zenon DEF CallInv, SeqsDiffer, EntriesBelow
<1>8. EntriesApart'
  BY <1>1, <1>2, <1>3, <1>4, <1>5 DEF TextsDiffer, SeqsDiffer, EntriesApart
<1>9. EntriesDiffer'
  BY <1>1, <1>2, <1>3 DEF EntriesApart, EntriesDiffer
<1>10. EntriesReturned'
  <2>1. Result(call[s]) \in returned'
    BY <1>1, Zenon
  <2>2. /\ Result(call[s]).text = e.text /\ Result(call[s]).conn = e.conn
        /\ Result(call[s]).id = e.id
    BY <1>2, Zenon DEF Result
  <2> QED
    BY <1>1, <2>1, <2>2, Zenon DEF EntriesReturned
<1> QED
  BY <1>6, <1>7, <1>8, <1>9, <1>10, Zenon

(* Every step keeps the history sound.                                      *)
LEMMA HistoryStep == ASSUME BaseInv, HistoryInv, [Next]_vars PROVE HistoryInv'
<1>1. ASSUME NEW s \in Slots, SendWrite(s) PROVE HistoryInv'
  <2>1. /\ call[s].st = "ready" /\ call'[s].st = "wait" /\ call'[s].text = call[s].text
        /\ \A q \in Slots : q # s => call'[q] = call[q]
        /\ UNCHANGED <<returned, msgSeq, history, sends>>
    BY <1>1, WriteFacts, Zenon DEF publishVars
  <2> QED
    BY <2>1, HistoryMove, Zenon DEF Running, Publishing
<1>2. ASSUME NEW s \in Slots, SendWriteFails(s) \/ SendReceiveFails(s) \/ PublishFails(s)
      PROVE  HistoryInv'
  <2>1. /\ Running(s) /\ call'[s].st = "idle"
        /\ \A q \in Slots : q # s => call'[q] = call[q]
        /\ UNCHANGED <<returned, msgSeq, history, sends>>
    BY <1>2, EndFacts, Zenon DEF publishVars
  <2> QED
    BY <2>1, HistoryMove, Zenon DEF Running, Publishing
<1>3. ASSUME NEW s \in Slots, SendReceive(s) PROVE HistoryInv'
  <2> DEFINE f == Head(stream[call[s].conn])
             a == Acknowledged(call[s], f.id)
  <2>1. /\ call[s].st = "wait" /\ call[s] \in CallRecords /\ f \in Frames
        /\ call[s].peer \in 1..Recipients(call[s].chat)
        /\ \A q \in Slots : q # s => call'[q] = call[q]
        /\ UNCHANGED <<msgSeq, history, sends>>
        /\ returned \subseteq returned'
        /\ call'[s].st = "idle" \/ (call'[s] = a /\ a.st \in {"acked", "ready"})
    BY <1>3, ReceiveFacts, Zenon
  <2>2. a.text = call[s].text
    BY <2>1, AckedType, Zenon DEF Frames
  <2> QED
    BY <2>1, <2>2, HistoryMove, Zenon DEF Running, Publishing
<1>4. CASE \/ ClearGateway \/ FetchStart
           \/ \E c \in Conns : \/ SetGateway(c) \/ ConnectionLost(c) \/ MessageArrives(c)
                               \/ FetchReceive(c) \/ FetchEnds(c) \/ GatewayAnswers(c)
           \/ \E s \in Slots : SendAwait(s) \/ \E chat \in Chats : SendNothing(s, chat)
           \/ UNCHANGED vars
  <2>1. UNCHANGED <<call, returned, msgSeq, history>> /\ sends' \in {sends, sends + 1}
    BY <1>4, GatewayFacts, AwaitFacts, TakeFacts, MessageFacts, LossFacts, FetchFacts,
       AnswerFacts, Zenon DEF vars, bounds, publishVars
  <2> QED
    BY <2>1, HistoryFrame, Zenon
<1> QED
  BY <1>1, <1>2, <1>3, <1>4, HistoryStart, HistoryNumber, HistoryPush, Zenon DEF Next, SendStep
-----------------------------------------------------------------------------
(* Where an id may be.  It comes to life when its envelope is written, stays *)
(* with the connection until the gateway answers, then travels in one        *)
(* acknowledgement, which one call takes, and is returned by that call; so   *)
(* it is never in two places, even where answers go to the wrong calls.      *)

(* The calls have passed this text and recipient.                           *)
Written(id, n, calls) ==
    /\ id[1] <= n
    /\ \A s \in Slots : calls[s].text = id[1] =>
          /\ calls[s].st = "ready" => id[2] < calls[s].peer
          /\ calls[s].st = "wait" => id[2] <= calls[s].peer

AskedFresh ==
    \A c \in Conns : \A i \in 1..Len(asked[c]) :
        asked[c][i] # NoId /\ asked[c][i] \notin accepted /\ Written(asked[c][i], sends, call)

AskedDiffer ==
    \A c, d \in Conns : \A i \in 1..Len(asked[c]), j \in 1..Len(asked[d]) :
        asked[c][i] = asked[d][j] => c = d /\ i = j

AcceptedWritten == \A id \in accepted : id # NoId /\ Written(id, sends, call)

AskInv == AskedFresh /\ AskedDiffer /\ AcceptedWritten

(* An id is a text and a recipient.                                         *)
LEMMA IdParts == \A id \in Ids : id # NoId => id[1] \in Nat /\ id[2] \in Nat
BY DEF Ids, Texts

(* What is asked for is an id.                                              *)
LEMMA AskedIds ==
    BaseInv => \A c \in Conns : \A i \in 1..Len(asked[c]) : asked[c][i] \in Ids
<1> SUFFICES ASSUME BaseInv, NEW c \in Conns, NEW i \in 1..Len(asked[c])
             PROVE  asked[c][i] \in Ids
  BY Zenon
<1>1. asked[c] \in Seq(Ids)
  BY Zenon DEF BaseInv, TypeInv
<1> QED
  BY <1>1

(* How a call moves between its states of writing and waiting.              *)
CallMove(q) ==
    \/ call'[q].text = sends' /\ sends' = sends + 1 /\ sends < MaxSends
    \/ call'[q] = call[q]
    \/ /\ call[q].st = "ready" /\ call'[q].st = "wait"
       /\ call'[q].text = call[q].text /\ call'[q].peer = call[q].peer
    \/ /\ call[q].st = "wait" /\ call'[q].st = "ready"
       /\ call'[q].text = call[q].text /\ call'[q].peer = call[q].peer + 1
    \/ call'[q].st \notin {"ready", "wait"}

(* Every step moves the calls in one of these ways.                         *)
LEMMA CallMoves ==
    ASSUME BaseInv, [Next]_vars
    PROVE  sends <= sends' /\ \A q \in Slots : CallMove(q)
<1> USE DEF BaseInv
<1>0. sends <= sends
  BY Constants DEF TypeInv
<1>1. ASSUME NEW s \in Slots, NEW chat \in Chats, SendText(s, chat)
      PROVE  sends <= sends' /\ \A q \in Slots : CallMove(q)
  BY <1>1, StartFacts, SendsGrow, Zenon DEF CallMove
<1>2. ASSUME NEW s \in Slots, SendWrite(s)
      PROVE  sends <= sends' /\ \A q \in Slots : CallMove(q)
  <2>1. /\ call[s].st = "ready" /\ call'[s].st = "wait"
        /\ call'[s].text = call[s].text /\ call'[s].peer = call[s].peer
        /\ \A q \in Slots : q # s => call'[q] = call[q]
        /\ sends' = sends
    BY <1>2, WriteFacts, Zenon
  <2> QED
    BY <2>1, <1>0, Zenon DEF CallMove
<1>3. ASSUME NEW s \in Slots, SendWriteFails(s) \/ SendReceiveFails(s) \/ PublishFails(s)
      PROVE  sends <= sends' /\ \A q \in Slots : CallMove(q)
  BY <1>0, <1>3, EndFacts, Zenon DEF CallMove
<1>4. ASSUME NEW s \in Slots, SendReceive(s)
      PROVE  sends <= sends' /\ \A q \in Slots : CallMove(q)
  <2> DEFINE f == Head(stream[call[s].conn])
             a == Acknowledged(call[s], f.id)
  <2>1. /\ call[s].st = "wait" /\ call[s] \in CallRecords /\ f \in Frames
        /\ call[s].peer \in 1..Recipients(call[s].chat)
        /\ \A q \in Slots : q # s => call'[q] = call[q]
        /\ sends' = sends
        /\ call'[s].st = "idle" \/ (call'[s] = a /\ a.st \in {"acked", "ready"})
    BY <1>4, ReceiveFacts, Zenon
  <2>2. /\ a.text = call[s].text
        /\ a.peer = IF call[s].peer < Recipients(call[s].chat)
                    THEN call[s].peer + 1 ELSE call[s].peer
        /\ a.st = IF call[s].chat = "cloud" THEN "acked"
                  ELSE IF call[s].peer < Recipients(call[s].chat) THEN "ready" ELSE "done"
    BY <2>1, AckedType, Zenon DEF Frames
  <2> HIDE DEF a
  <2>3. a.st = "ready" => a.peer = call[s].peer + 1
    BY <2>2, Zenon
  <2>4. CallMove(s)
    BY <2>1, <2>2, <2>3, Zenon DEF CallMove
  <2> QED
    BY <1>0, <2>1, <2>4, Zenon DEF CallMove
<1>5. ASSUME NEW s \in Slots, NextCloudMsgSeq(s) \/ PushCloudHistory(s)
      PROVE  sends <= sends' /\ \A q \in Slots : CallMove(q)
  <2>1. /\ call'[s].st \notin {"ready", "wait"} /\ sends' = sends
        /\ \A q \in Slots : q # s => call'[q] = call[q]
    BY <1>5, NumberFacts, PushFacts, Zenon
  <2> QED
    BY <2>1, <1>0, Zenon DEF CallMove
<1>6. CASE \/ ClearGateway \/ FetchStart
           \/ \E c \in Conns : \/ SetGateway(c) \/ ConnectionLost(c) \/ MessageArrives(c)
                               \/ FetchReceive(c) \/ FetchEnds(c) \/ GatewayAnswers(c)
           \/ \E s \in Slots : SendAwait(s) \/ \E chat \in Chats : SendNothing(s, chat)
           \/ UNCHANGED vars
  <2>1. UNCHANGED call /\ sends <= sends'
    BY <1>0, <1>6, GatewayFacts, AwaitFacts, TakeFacts, MessageFacts, LossFacts, FetchFacts,
       AnswerFacts, Zenon DEF vars, bounds
  <2> QED
    BY <2>1, Zenon DEF CallMove
<1> QED
  BY <1>1, <1>2, <1>3, <1>4, <1>5, <1>6, Zenon DEF Next, SendStep

(* What the calls have passed they have passed for good.                    *)
LEMMA WrittenGrows ==
    ASSUME BaseInv, [Next]_vars, NEW id \in Ids, id # NoId, Written(id, sends, call)
    PROVE  Written(id, sends', call')
<1> USE DEF BaseInv
<1>1. id[1] \in Nat /\ id[2] \in Nat /\ id[1] <= sends /\ sends <= sends'
  BY IdParts, CallMoves, Zenon DEF Written
<1>2. sends \in Nat /\ sends' \in Nat
  BY BaseStep, Constants DEF TypeInv
<1>3. id[1] <= sends'
  BY <1>1, <1>2
<1>4. ASSUME NEW q \in Slots, call'[q].text = id[1]
      PROVE  /\ call'[q].st = "ready" => id[2] < call'[q].peer
             /\ call'[q].st = "wait" => id[2] <= call'[q].peer
  <2>1. CallMove(q)
    BY CallMoves, Zenon
  <2>2. call[q].peer \in Nat
    <3>1. call[q].peer \in 0..Peers
      BY Zenon DEF TypeInv, CallRecords
    <3> QED
      BY <3>1, Constants
  <2>3. \A m, n \in Nat : (m < n => m <= n) /\ (m <= n => m < n + 1)
    OBVIOUS
  <2>4. ~(call'[q].text = sends' /\ sends' = sends + 1)
    BY <1>1, <1>2, <1>4
  <2>5. call[q].text = id[1] =>
          /\ call[q].st = "ready" => id[2] < call[q].peer
          /\ call[q].st = "wait" => id[2] <= call[q].peer
    BY Zenon DEF Written
  <2> QED
    BY <1>1, <1>4, <2>1, <2>2, <2>3, <2>4, <2>5, Zenon DEF CallMove
<1> QED
  BY <1>3, <1>4, Zenon DEF Written

(* The ids that were asked for or accepted stay what they are as long as     *)
(* none is added.                                                           *)
LEMMA AskFrame ==
    ASSUME BaseInv, AskInv, [Next]_vars, UNCHANGED <<asked, accepted>>
    PROVE  AskInv'
<1> USE DEF BaseInv, AskInv
<1>1. \A c \in Conns : \A i \in 1..Len(asked[c]) : asked[c][i] \in Ids
  BY AskedIds, Zenon
<1>2. AskedFresh'
  BY <1>1, WrittenGrows, Zenon DEF AskedFresh
<1>3. AcceptedWritten'
  BY WrittenGrows, Zenon DEF AcceptedWritten, TypeInv
<1> QED
  BY <1>2, <1>3 DEF AskedDiffer

(* An envelope is asked for once.                                           *)
LEMMA AskWrite ==
    ASSUME BaseInv, HistoryInv, AskInv, NEW s \in Slots, SendWrite(s), [Next]_vars
    PROVE  AskInv'
<1> USE DEF BaseInv, AskInv
<1> DEFINE k == call[s].conn
           x == <<call[s].text, call[s].peer>>
<1>1. /\ call[s].st = "ready" /\ k \in Conns /\ x \in Ids /\ x # NoId
      /\ call'[s].st = "wait" /\ call'[s].text = call[s].text
      /\ call'[s].peer = call[s].peer
      /\ asked'[k] = Append(asked[k], x)
      /\ \A d \in Conns : d # k => asked'[d] = asked[d]
      /\ UNCHANGED <<accepted, sends>>
  BY WriteFacts, Zenon DEF publishVars
<1>2. x[1] = call[s].text /\ x[2] = call[s].peer
  OBVIOUS
<1> HIDE DEF x
<1>3. x[1] \in Nat /\ x[2] \in Nat /\ x[1] <= sends
  BY <1>1, <1>2, IdParts, TextsSent, Zenon DEF CallInv, Running
<1>4. ~Written(x, sends, call)
  <2>1. ~(x[2] < x[2])
    BY <1>3
  <2> QED
    BY <1>1, <1>2, <2>1, Zenon DEF Written
<1>5. Written(x, sends', call')
  <2>1. x[2] <= x[2]
    BY <1>3
  <2>2. ASSUME NEW q \in Slots, call'[q].text = x[1], call'[q].st \in {"ready", "wait"}
        PROVE  q = s
    BY <1>1, <1>2, <2>2, HistoryStep, Zenon DEF HistoryInv, TextsDiffer, Running
  <2> QED
    BY <1>1, <1>2, <1>3, <2>1, <2>2 DEF Written
<1>6. x \notin accepted
  BY <1>4, Zenon DEF AcceptedWritten
<1>7. ASSUME NEW c \in Conns, NEW i \in 1..Len(asked[c])
      PROVE  asked[c][i] \in Ids /\ asked[c][i] # x
  BY <1>4, AskedIds, Zenon DEF AskedFresh
<1>8. ASSUME NEW c \in Conns, NEW i \in 1..Len(asked'[c])
      PROVE  \/ i \in 1..Len(asked[c]) /\ asked'[c][i] = asked[c][i]
             \/ c = k /\ i = Len(asked[k]) + 1 /\ asked'[c][i] = x
  <2>1. asked[k] \in Seq(Ids)
    BY <1>1, Zenon DEF TypeInv
  <2>2. \A n \in 1..Len(Append(asked[k], x)) :
          \/ n \in 1..Len(asked[k]) /\ Append(asked[k], x)[n] = asked[k][n]
          \/ n = Len(asked[k]) + 1 /\ Append(asked[k], x)[n] = x
    BY <1>1, <2>1, Appended, Zenon
  <2>3. CASE c = k
    BY <1>1, <2>2, <2>3, Zenon
  <2>4. CASE c # k
    BY <1>1, <2>4, Zenon
  <2> QED
    BY <2>3, <2>4, Zenon
<1>9. AskedFresh'
  <2> SUFFICES ASSUME NEW c \in Conns, NEW i \in 1..Len(asked'[c])
               PROVE  /\ asked'[c][i] # NoId /\ asked'[c][i] \notin accepted'
                      /\ Written(asked'[c][i], sends', call')
    BY Zenon DEF AskedFresh
  <2>1. CASE i \in 1..Len(asked[c]) /\ asked'[c][i] = asked[c][i]
    BY <1>1, <1>7, <2>1, WrittenGrows DEF AskedFresh
  <2>2. CASE asked'[c][i] = x
    BY <1>1, <1>5, <1>6, <2>2
  <2> QED
    BY <1>8, <2>1, <2>2, Zenon
<1>10. AskedDiffer'
  <2> SUFFICES ASSUME NEW c \in Conns, NEW d \in Conns, NEW i \in 1..Len(asked'[c]),
                      NEW j \in 1..Len(asked'[d]), asked'[c][i] = asked'[d][j]
               PROVE  c = d /\ i = j
    BY Zenon DEF AskedDiffer
  <2> QED
    <3>1. \/ i \in 1..Len(asked[c]) /\ asked'[c][i] = asked[c][i] /\ asked[c][i] # x
          \/ c = k /\ i = Len(asked[k]) + 1 /\ asked'[c][i] = x
      BY <1>7, <1>8, Zenon
    <3>2. \/ j \in 1..Len(asked[d]) /\ asked'[d][j] = asked[d][j] /\ asked[d][j] # x
          \/ d = k /\ j = Len(asked[k]) + 1 /\ asked'[d][j] = x
      BY <1>7, <1>8, Zenon
    <3> QED
      BY <3>1, <3>2 DEF AskedDiffer
<1>11. AcceptedWritten'
  BY <1>1, WrittenGrows, Zenon DEF AcceptedWritten, TypeInv
<1> QED
  BY <1>9, <1>10, <1>11, Zenon

(* An answer takes the envelope out of what is asked for.                   *)
LEMMA AskAnswer ==
    ASSUME BaseInv, AskInv, NEW k \in Conns, GatewayAnswers(k), [Next]_vars
    PROVE  AskInv'
<1> USE DEF BaseInv, AskInv
<1> DEFINE x == Head(asked[k])
<1>1. /\ asked[k] # << >> /\ x \in Ids /\ asked'[k] = Tail(asked[k])
      /\ \A d \in Conns : d # k => asked'[d] = asked[d]
      /\ accepted' \subseteq accepted \cup {x}
  BY AnswerFacts, Zenon
<1>2. asked[k] \in Seq(Ids)
  BY Zenon DEF TypeInv
<1>3. x = asked[k][1] /\ 1 \in 1..Len(asked[k])
  BY <1>1, <1>2, Shortened, Zenon
<1> HIDE DEF x
<1>4. x # NoId /\ Written(x, sends, call)
  BY <1>3, Zenon DEF AskedFresh
<1> DEFINE from(c, i) == IF c = k THEN i + 1 ELSE i
<1>5. ASSUME NEW c \in Conns, NEW i \in 1..Len(asked'[c])
      PROVE  /\ from(c, i) \in 1..Len(asked[c]) /\ asked'[c][i] = asked[c][from(c, i)]
             /\ c = k => from(c, i) # 1
  <2>1. \A n \in 1..Len(Tail(asked[k])) :
          n + 1 \in 1..Len(asked[k]) /\ n + 1 # 1 /\ Tail(asked[k])[n] = asked[k][n + 1]
    BY <1>1, <1>2, Shortened, Zenon
  <2>2. CASE c = k
    BY <1>1, <2>1, <2>2, Zenon
  <2>3. CASE c # k
    BY <1>1, <2>3, Zenon
  <2> QED
    BY <2>2, <2>3, Zenon
<1>6. ASSUME NEW c \in Conns, NEW i \in 1..Len(asked'[c]), NEW j \in 1..Len(asked'[c]),
             from(c, i) = from(c, j)
      PROVE  i = j
  BY <1>1, <1>2, <1>6, Shortened
<1> HIDE DEF from
<1>7. AskedFresh'
  <2> SUFFICES ASSUME NEW c \in Conns, NEW i \in 1..Len(asked'[c])
               PROVE  /\ asked'[c][i] # NoId /\ asked'[c][i] \notin accepted'
                      /\ Written(asked'[c][i], sends', call')
    BY Zenon DEF AskedFresh
  <2>1. /\ from(c, i) \in 1..Len(asked[c]) /\ asked'[c][i] = asked[c][from(c, i)]
        /\ c = k => from(c, i) # 1
    BY <1>5, Zenon
  <2>2. /\ asked'[c][i] # NoId /\ asked'[c][i] \notin accepted /\ Written(asked'[c][i], sends, call)
        /\ asked'[c][i] \in Ids
    BY <2>1, AskedIds, Zenon DEF AskedFresh
  <2>3. asked'[c][i] # x
    BY <1>3, <2>1 DEF AskedDiffer
  <2> QED
    BY <1>1, <2>2, <2>3, WrittenGrows
<1>8. AskedDiffer'
  <2> SUFFICES ASSUME NEW c \in Conns, NEW d \in Conns, NEW i \in 1..Len(asked'[c]),
                      NEW j \in 1..Len(asked'[d]), asked'[c][i] = asked'[d][j]
               PROVE  c = d /\ i = j
    BY Zenon DEF AskedDiffer
  <2>1. c = d /\ from(c, i) = from(d, j)
    <3>1. from(c, i) \in 1..Len(asked[c]) /\ asked'[c][i] = asked[c][from(c, i)]
      BY <1>5, Zenon
    <3>2. from(d, j) \in 1..Len(asked[d]) /\ asked'[d][j] = asked[d][from(d, j)]
      BY <1>5, Zenon
    <3>3. asked[c][from(c, i)] = asked[d][from(d, j)]
      BY <3>1, <3>2, Zenon
    <3> QED
      BY <3>1, <3>2, <3>3 DEF AskedDiffer
  <2> QED
    BY <1>6, <2>1, Zenon
<1>9. AcceptedWritten'
  BY <1>1, <1>4, WrittenGrows, Zenon DEF AcceptedWritten, TypeInv
<1> QED
  BY <1>7, <1>8, <1>9, Zenon

(* Every step keeps an envelope from being asked for twice.                 *)
LEMMA AskStep == ASSUME BaseInv, HistoryInv, AskInv, [Next]_vars PROVE AskInv'
<1>1. ASSUME NEW k \in Conns, ConnectionLost(k) PROVE AskInv'
  <2>1. /\ asked'[k] = << >> /\ \A d \in Conns : d # k => asked'[d] = asked[d]
        /\ UNCHANGED accepted
    BY <1>1, LossFacts, Zenon DEF publishVars
  <2>2. \A i \in 1..Len(<< >>) : FALSE
    OBVIOUS
  <2>3. \A c \in Conns : \A i \in 1..Len(asked'[c]) :
           i \in 1..Len(asked[c]) /\ asked'[c][i] = asked[c][i]
    BY <2>1, <2>2, Zenon
  <2>4. AskedFresh'
    <3> SUFFICES ASSUME NEW c \in Conns, NEW i \in 1..Len(asked'[c])
                 PROVE  /\ asked'[c][i] # NoId /\ asked'[c][i] \notin accepted'
                        /\ Written(asked'[c][i], sends', call')
      BY Zenon DEF AskedFresh
    <3>1. i \in 1..Len(asked[c]) /\ asked'[c][i] = asked[c][i]
      BY <2>3, Zenon
    <3>2. /\ asked[c][i] \in Ids /\ asked[c][i] # NoId /\ asked[c][i] \notin accepted
          /\ Written(asked[c][i], sends, call)
      BY <3>1, AskedIds, Zenon DEF AskInv, AskedFresh
    <3>3. Written(asked[c][i], sends', call')
      BY <3>2, WrittenGrows, Zenon
    <3> QED
      BY <2>1, <3>1, <3>2, <3>3, Zenon
  <2>5. AskedDiffer'
    BY <2>3 DEF AskInv, AskedDiffer
  <2>6. AcceptedWritten'
    BY <2>1, WrittenGrows, Zenon DEF AskInv, AcceptedWritten, BaseInv, TypeInv
  <2> QED
    BY <2>4, <2>5, <2>6, Zenon DEF AskInv
<1>2. CASE \/ ClearGateway \/ FetchStart
           \/ \E c \in Conns : \/ SetGateway(c) \/ MessageArrives(c)
                               \/ FetchReceive(c) \/ FetchEnds(c)
           \/ \E s \in Slots : \/ SendAwait(s) \/ SendWriteFails(s) \/ SendReceive(s)
                               \/ SendReceiveFails(s) \/ NextCloudMsgSeq(s)
                               \/ PushCloudHistory(s) \/ PublishFails(s)
                               \/ \E chat \in Chats : SendText(s, chat) \/ SendNothing(s, chat)
           \/ UNCHANGED vars
  <2>1. UNCHANGED <<asked, accepted>>
    BY <1>2, GatewayFacts, AwaitFacts, TakeFacts, MessageFacts, FetchFacts, StartFacts,
       EndFacts, ReceiveFacts, NumberFacts, PushFacts, Zenon DEF vars, publishVars
  <2> QED
    BY <2>1, AskFrame, Zenon
<1> QED
  BY <1>1, <1>2, AskWrite, AskAnswer, Zenon DEF Next, SendStep

(* From the acknowledgement on: it is in one stream, at one place, or held by *)
(* one call, or returned by one.                                            *)
IsAck(c, i) == i \in 1..Len(stream[c]) /\ stream[c][i].type = "ack"

Held(s) == Running(s) /\ call[s].id # NoId

AcksAccepted == \A c \in Conns : \A i \in Nat : IsAck(c, i) => stream[c][i].id \in accepted

AcksFree ==
    \A c \in Conns : \A i \in Nat : IsAck(c, i) =>
        /\ \A s \in Slots : Held(s) => call[s].id # stream[c][i].id
        /\ \A r \in returned : r.id # stream[c][i].id

AcksDiffer ==
    \A c, d \in Conns : \A i, j \in Nat :
        (IsAck(c, i) /\ IsAck(d, j) /\ stream[c][i].id = stream[d][j].id) => c = d /\ i = j

HeldFree ==
    \A s \in Slots : Held(s) =>
        call[s].id \in accepted /\ \A r \in returned : r.id # call[s].id

HeldDiffer ==
    \A s, q \in Slots : (Held(s) /\ Held(q) /\ call[s].id = call[q].id) => s = q

PublishHeld == \A s \in Slots : call[s].st \in {"acked", "publish"} => call[s].id # NoId

ReturnedDiffer ==
    \A r \in returned : r.id \in accepted /\ \A q \in returned : q.id = r.id => q = r

AckInv ==
    /\ AcksAccepted /\ AcksFree /\ AcksDiffer
    /\ HeldFree /\ HeldDiffer /\ PublishHeld /\ ReturnedDiffer

(* The acknowledgements of a step come from places o of the old streams.    *)
AcksFrom(o) ==
    \A c \in Conns :
        /\ \A i \in Nat : IsAck(c, i)' =>
              o[c][i] \in Nat /\ IsAck(c, o[c][i]) /\ stream'[c][i] = stream[c][o[c][i]]
        /\ \A i, j \in Nat : o[c][i] = o[c][j] => i = j

Same == [c \in Conns |-> [i \in Nat |-> i]]

Shift(k) == [c \in Conns |-> [i \in Nat |-> IF c = k THEN i + 1 ELSE i]]

(* Streams that stay as they are.                                           *)
LEMMA FromSame == ASSUME UNCHANGED stream PROVE AcksFrom(Same)
<1>1. \A c \in Conns : \A i \in Nat : Same[c][i] = i
  BY Zenon DEF Same
<1> QED
  BY <1>1, Zenon DEF AcksFrom, IsAck

(* A stream that loses its first frame.                                     *)
LEMMA FromTail ==
    ASSUME BaseInv, NEW k \in Conns, stream[k] # << >>, stream'[k] = Tail(stream[k]),
           \A d \in Conns : d # k => stream'[d] = stream[d]
    PROVE  /\ AcksFrom(Shift(k))
           /\ \A i \in Nat : IsAck(k, i)' => Shift(k)[k][i] # 1
<1>1. \A c \in Conns : \A i \in Nat : Shift(k)[c][i] = IF c = k THEN i + 1 ELSE i
  BY Zenon DEF Shift
<1>2. stream[k] \in Seq(Frames)
  BY Zenon DEF BaseInv, TypeInv
<1>3. \A i \in 1..Len(Tail(stream[k])) :
        /\ i + 1 \in 1..Len(stream[k]) /\ i + 1 # 1
        /\ Tail(stream[k])[i] = stream[k][i + 1]
  BY <1>2, Shortened, Zenon
<1>4. \A i \in Nat : i + 1 \in Nat
  OBVIOUS
<1> HIDE DEF Shift
<1>6. ASSUME NEW c \in Conns, NEW i \in Nat, IsAck(c, i)'
      PROVE  /\ Shift(k)[c][i] \in Nat /\ IsAck(c, Shift(k)[c][i])
             /\ stream'[c][i] = stream[c][Shift(k)[c][i]]
             /\ c = k => Shift(k)[c][i] # 1
  <2>1. CASE c = k
    <3>1. i \in 1..Len(Tail(stream[k])) /\ Tail(stream[k])[i].type = "ack"
      BY <1>6, <2>1, Zenon DEF IsAck
    <3>2. /\ i + 1 \in 1..Len(stream[k]) /\ i + 1 # 1
          /\ Tail(stream[k])[i] = stream[k][i + 1]
      BY <1>3, <3>1, Zenon
    <3>3. Shift(k)[c][i] = i + 1
      BY <1>1, <2>1, Zenon
    <3>4. stream[k][i + 1].type = "ack"
      BY <3>1, <3>2, Zenon
    <3> QED
      BY <1>4, <2>1, <3>2, <3>3, <3>4, Zenon DEF IsAck
  <2>2. CASE c # k
    BY <1>1, <1>6, <2>2, Zenon DEF IsAck
  <2> QED
    BY <2>1, <2>2, Zenon
<1>7. ASSUME NEW c \in Conns, NEW i \in Nat, NEW j \in Nat, Shift(k)[c][i] = Shift(k)[c][j]
      PROVE  i = j
  <2>1. CASE c = k
    <3>1. Shift(k)[c][i] = i + 1 /\ Shift(k)[c][j] = j + 1
      BY <1>1, <2>1, Zenon
    <3>2. i + 1 = j + 1
      BY <1>7, <3>1, Zenon
    <3> QED
      BY <3>2, SMT
  <2>2. CASE c # k
    <3>1. Shift(k)[c][i] = i /\ Shift(k)[c][j] = j
      BY <1>1, <2>2, Zenon
    <3> QED
      BY <1>7, <3>1, Zenon
  <2> QED
    BY <2>1, <2>2, Zenon
<1>8. AcksFrom(Shift(k))
  BY <1>6, <1>7, Zenon DEF AcksFrom
<1> QED
  BY <1>6, <1>8, Zenon

(* A stream that grows by a frame: what is not that frame was there before.  *)
LEMMA FromAppend ==
    ASSUME BaseInv, NEW k \in Conns, NEW f \in Frames, stream'[k] = Append(stream[k], f),
           \A d \in Conns : d # k => stream'[d] = stream[d]
    PROVE  /\ \A c \in Conns : \A i \in Nat : IsAck(c, i)' =>
                \/ IsAck(c, i) /\ stream'[c][i] = stream[c][i]
                \/ c = k /\ i = Len(stream[k]) + 1 /\ stream'[c][i] = f /\ f.type = "ack"
           /\ f.type # "ack" => AcksFrom(Same)
<1>1. stream[k] \in Seq(Frames)
  BY Zenon DEF BaseInv, TypeInv
<1>2. \A i \in 1..Len(Append(stream[k], f)) :
        \/ i \in 1..Len(stream[k]) /\ Append(stream[k], f)[i] = stream[k][i]
        \/ i = Len(stream[k]) + 1 /\ Append(stream[k], f)[i] = f
  BY <1>1, Appended, Zenon
<1>3. ASSUME NEW c \in Conns, NEW i \in Nat, IsAck(c, i)'
      PROVE  \/ IsAck(c, i) /\ stream'[c][i] = stream[c][i]
             \/ c = k /\ i = Len(stream[k]) + 1 /\ stream'[c][i] = f /\ f.type = "ack"
  <2>1. CASE c = k
    BY <1>2, <1>3, <2>1, Zenon DEF IsAck
  <2>2. CASE c # k
    BY <1>3, <2>2, Zenon DEF IsAck
  <2> QED
    BY <2>1, <2>2, Zenon
<1>4. \A c \in Conns : \A i \in Nat : Same[c][i] = i
  BY Zenon DEF Same
<1>5. ASSUME f.type # "ack", NEW c \in Conns, NEW i \in Nat, IsAck(c, i)'
      PROVE  /\ Same[c][i] \in Nat /\ IsAck(c, Same[c][i])
             /\ stream'[c][i] = stream[c][Same[c][i]]
  BY <1>3, <1>4, <1>5, Zenon
<1>6. \A c \in Conns : \A i, j \in Nat : Same[c][i] = Same[c][j] => i = j
  BY <1>4, Zenon
<1>7. f.type # "ack" => AcksFrom(Same)
  BY <1>5, <1>6, Zenon DEF AcksFrom
<1> QED
  BY <1>3, <1>7, Zenon

(* Acknowledgements that only move up in their streams stay apart.          *)
LEMMA AcksMoveUp ==
    ASSUME AcksAccepted, AcksDiffer, NEW o, AcksFrom(o), accepted \subseteq accepted'
    PROVE  AcksAccepted' /\ AcksDiffer'
<1>1. AcksAccepted'
  <2> SUFFICES ASSUME NEW c \in Conns, NEW i \in Nat, IsAck(c, i)'
               PROVE  stream'[c][i].id \in accepted'
    BY Zenon DEF AcksAccepted
  <2>1. o[c][i] \in Nat /\ IsAck(c, o[c][i]) /\ stream'[c][i] = stream[c][o[c][i]]
    BY Zenon DEF AcksFrom
  <2> QED
    BY <2>1 DEF AcksAccepted
<1>2. AcksDiffer'
  <2> SUFFICES ASSUME NEW c \in Conns, NEW d \in Conns, NEW i \in Nat, NEW j \in Nat,
                      IsAck(c, i)', IsAck(d, j)', stream'[c][i].id = stream'[d][j].id
               PROVE  c = d /\ i = j
    BY Zenon DEF AcksDiffer
  <2>1. o[c][i] \in Nat /\ IsAck(c, o[c][i]) /\ stream'[c][i] = stream[c][o[c][i]]
    BY Zenon DEF AcksFrom
  <2>2. o[d][j] \in Nat /\ IsAck(d, o[d][j]) /\ stream'[d][j] = stream[d][o[d][j]]
    BY Zenon DEF AcksFrom
  <2>3. c = d /\ o[c][i] = o[d][j]
    BY <2>1, <2>2 DEF AcksDiffer
  <2>4. o[c][i] = o[c][j]
    BY <2>3, Zenon
  <2> QED
    BY <2>3, <2>4, Zenon DEF AcksFrom
<1> QED
  BY <1>1, <1>2, Zenon

(* Steps on which no id changes its place: calls keep the ids they hold or   *)
(* drop them.                                                               *)
LEMMA AckMove ==
    ASSUME AckInv, NEW o, AcksFrom(o), accepted \subseteq accepted', UNCHANGED returned,
           \A q \in Slots : Held(q)' => Held(q) /\ call'[q].id = call[q].id,
           \A q \in Slots : call'[q].st \in {"acked", "publish"} => call'[q].id # NoId
    PROVE  AckInv'
<1> USE DEF AckInv
<1>1. AcksAccepted' /\ AcksDiffer'
  BY AcksMoveUp, Zenon
<1>2. AcksFree'
  <2> SUFFICES ASSUME NEW c \in Conns, NEW i \in Nat, IsAck(c, i)'
               PROVE  /\ \A s \in Slots : Held(s)' => call'[s].id # stream'[c][i].id
                      /\ \A r \in returned : r.id # stream'[c][i].id
    BY Zenon DEF AcksFree
  <2>1. o[c][i] \in Nat /\ IsAck(c, o[c][i]) /\ stream'[c][i] = stream[c][o[c][i]]
    BY Zenon DEF AcksFrom
  <2> QED
    BY <2>1 DEF AcksFree
<1>4. HeldFree'
  BY Zenon DEF HeldFree
<1>5. HeldDiffer'
  BY Zenon DEF HeldDiffer
<1>6. PublishHeld'
  BY Zenon DEF PublishHeld
<1>7. ReturnedDiffer'
  BY Zenon DEF ReturnedDiffer
<1> QED
  BY <1>1, <1>2, <1>4, <1>5, <1>6, <1>7, Zenon

(* Call s has the id z, and nothing else has it.                            *)
OnlyOwner(s, z) ==
    /\ z \in accepted /\ z # NoId
    /\ \A c \in Conns : \A i \in Nat : IsAck(c, i)' => stream'[c][i].id # z
    /\ \A q \in Slots : q # s /\ Held(q) => call[q].id # z
    /\ \A r \in returned : r.id # z

(* Steps on which one id gets to a place of its own: the call that has it    *)
(* goes on with it or returns it.                                           *)
LEMMA AckPlace ==
    ASSUME AckInv, NEW o, AcksFrom(o), UNCHANGED accepted, NEW s \in Slots, NEW z,
           \A q \in Slots : q # s => call'[q] = call[q],
           OnlyOwner(s, z),
           \/ call'[s].id = z /\ UNCHANGED returned
           \/ call'[s].st = "idle" /\ \E r : r.id = z /\ returned' = returned \cup {r}
    PROVE  AckInv'
<1> USE DEF AckInv, OnlyOwner
<1>1. AcksAccepted' /\ AcksDiffer'
  BY AcksMoveUp, Zenon
<1>2. \A q \in Slots : Held(q)' =>
         \/ q # s /\ Held(q) /\ call'[q].id = call[q].id
         \/ q = s /\ call'[q].id = z
  BY Zenon DEF Held, Running
<1>3. \A r \in returned' : r \in returned \/ r.id = z
  BY Zenon
<1>4. AcksFree'
  <2> SUFFICES ASSUME NEW c \in Conns, NEW i \in Nat, IsAck(c, i)'
               PROVE  /\ \A q \in Slots : Held(q)' => call'[q].id # stream'[c][i].id
                      /\ \A r \in returned' : r.id # stream'[c][i].id
    BY Zenon DEF AcksFree
  <2>1. o[c][i] \in Nat /\ IsAck(c, o[c][i]) /\ stream'[c][i] = stream[c][o[c][i]]
    BY Zenon DEF AcksFrom
  <2>2. stream'[c][i].id # z
    BY Zenon
  <2> QED
    BY <1>2, <1>3, <2>1, <2>2 DEF AcksFree
<1>6. HeldFree'
  <2> SUFFICES ASSUME NEW q \in Slots, Held(q)'
               PROVE  call'[q].id \in accepted /\ \A r \in returned' : r.id # call'[q].id
    BY Zenon DEF HeldFree
  <2>1. CASE q # s /\ Held(q) /\ call'[q].id = call[q].id
    BY <1>3, <2>1 DEF HeldFree
  <2>2. CASE q = s
    <3>1. call'[s].id = z /\ UNCHANGED returned
      BY <2>2, Zenon DEF Held, Running
    <3> QED
      BY <2>2, <3>1, Zenon
  <2> QED
    BY <1>2, <2>1, <2>2, Zenon
<1>7. HeldDiffer'
  BY <1>2 DEF HeldDiffer
<1>8. PublishHeld'
  BY Zenon DEF PublishHeld
<1>9. ReturnedDiffer'
  <2>1. CASE UNCHANGED returned
    BY <2>1, Zenon DEF ReturnedDiffer
  <2>2. CASE \E r : r.id = z /\ returned' = returned \cup {r}
    BY <2>2, Zenon DEF ReturnedDiffer
  <2> QED
    BY <2>1, <2>2, Zenon
<1> QED
  BY <1>1, <1>4, <1>6, <1>7, <1>8, <1>9, Zenon

(* The gateway's acknowledgement is the first for that envelope.            *)
LEMMA AckAnswer ==
    ASSUME BaseInv, AskInv, AckInv, NEW k \in Conns, GatewayAnswers(k)
    PROVE  AckInv'
<1> USE DEF BaseInv, AckInv
<1> DEFINE x == Head(asked[k])
<1>1. /\ asked[k] # << >> /\ x \in Ids
      /\ \A d \in Conns : d # k => stream'[d] = stream[d]
      /\ UNCHANGED <<call, returned>>
      /\ \/ stream'[k] = Append(stream[k], SendAck(x)) /\ accepted' = accepted \cup {x}
         \/ stream'[k] = Append(stream[k], ErrorFrame) /\ accepted' = accepted
  BY AnswerFacts, Zenon
<1>2. x \notin accepted
  <2>1. asked[k] \in Seq(Ids)
    BY Zenon DEF TypeInv
  <2>2. x = asked[k][1] /\ 1 \in 1..Len(asked[k])
    BY <1>1, <2>1, Shortened, Zenon
  <2> QED
    BY <2>2, Zenon DEF AskInv, AskedFresh
<1> HIDE DEF x
<1>3. \A q \in Slots : Held(q)' => Held(q) /\ call'[q].id = call[q].id
  BY <1>1, Zenon DEF Held, Running
<1>4. CASE stream'[k] = Append(stream[k], ErrorFrame) /\ accepted' = accepted
  <2>1. ErrorFrame \in Frames /\ ErrorFrame.type # "ack"
    BY FrameTypes, Zenon DEF ErrorFrame
  <2>2. AcksFrom(Same)
    BY <1>1, <1>4, <2>1, FromAppend, Zenon
  <2>3. \A q \in Slots : call'[q].st \in {"acked", "publish"} => call'[q].id # NoId
    BY <1>1, Zenon DEF PublishHeld
  <2> QED
    BY <1>1, <1>3, <1>4, <2>2, <2>3, AckMove, Zenon
<1>5. CASE stream'[k] = Append(stream[k], SendAck(x)) /\ accepted' = accepted \cup {x}
  <2>1. SendAck(x) \in Frames /\ SendAck(x).id = x
    BY <1>1, FrameTypes, Zenon DEF SendAck
  <2>2. \A c \in Conns : \A i \in Nat : IsAck(c, i)' =>
           \/ IsAck(c, i) /\ stream'[c][i] = stream[c][i]
           \/ c = k /\ i = Len(stream[k]) + 1 /\ stream'[c][i].id = x
    <3>1. PICK f \in Frames : f = SendAck(x)
      BY <2>1, Zenon
    <3>2. f.id = x /\ stream'[k] = Append(stream[k], f)
      BY <1>5, <2>1, <3>1, Zenon
    <3>3. \A c \in Conns : \A i \in Nat : IsAck(c, i)' =>
           \/ IsAck(c, i) /\ stream'[c][i] = stream[c][i]
           \/ c = k /\ i = Len(stream[k]) + 1 /\ stream'[c][i] = f /\ f.type = "ack"
      <4>1. \A d \in Conns : d # k => stream'[d] = stream[d]
        BY <1>1, Zenon
      <4> QED
        BY <3>2, <4>1, FromAppend, Zenon
    <3> QED
      BY <3>2, <3>3, Zenon
  <2>3. \A c \in Conns : \A i \in Nat : IsAck(c, i) => stream[c][i].id # x
    BY <1>2, Zenon DEF AcksAccepted
  <2>4. /\ \A q \in Slots : Held(q) => call[q].id # x
        /\ \A r \in returned : r.id # x
    BY <1>2, Zenon DEF HeldFree, ReturnedDiffer
  <2>5. AcksAccepted'
    BY <1>5, <2>2 DEF AcksAccepted
  <2>6. AcksFree'
    BY <1>1, <1>3, <2>2, <2>4 DEF AcksFree
  <2>7. AcksDiffer'
    <3> SUFFICES ASSUME NEW c \in Conns, NEW d \in Conns, NEW i \in Nat, NEW j \in Nat,
                        IsAck(c, i)', IsAck(d, j)', stream'[c][i].id = stream'[d][j].id
                 PROVE  c = d /\ i = j
      BY Zenon DEF AcksDiffer
    <3>1. \/ IsAck(c, i) /\ stream'[c][i] = stream[c][i]
          \/ c = k /\ i = Len(stream[k]) + 1 /\ stream'[c][i].id = x
      BY <2>2, Zenon
    <3>2. \/ IsAck(d, j) /\ stream'[d][j] = stream[d][j]
          \/ d = k /\ j = Len(stream[k]) + 1 /\ stream'[d][j].id = x
      BY <2>2, Zenon
    <3> QED
      BY <2>3, <3>1, <3>2 DEF AcksDiffer
  <2>8. HeldFree'
    BY <1>1, <1>3, <1>5 DEF HeldFree
  <2>9. HeldDiffer'
    BY <1>3 DEF HeldDiffer
  <2>10. PublishHeld' /\ ReturnedDiffer'
    BY <1>1, <1>5, Zenon DEF PublishHeld, ReturnedDiffer
  <2> QED
    BY <2>5, <2>6, <2>7, <2>8, <2>9, <2>10, Zenon
<1> QED
  BY <1>1, <1>4, <1>5, Zenon

(* The call that takes an acknowledgement is the only one to have its id.   *)
LEMMA AckReceive ==
    ASSUME BaseInv, AskInv, AckInv, NEW s \in Slots, SendReceive(s)
    PROVE  AckInv'
<1> USE DEF BaseInv, AckInv
<1>0. PICK k \in Conns : k = call[s].conn
  BY ReceiveFacts, Zenon
<1> DEFINE f == Head(stream[k])
           a == Acknowledged(call[s], f.id)
<1>1. /\ call[s].st = "wait" /\ call[s] \in CallRecords
      /\ call[s].peer \in 1..Recipients(call[s].chat)
      /\ stream[k] # << >> /\ f \in Frames /\ stream'[k] = Tail(stream[k])
      /\ \A d \in Conns : d # k => stream'[d] = stream[d]
      /\ \A q \in Slots : q # s => call'[q] = call[q]
      /\ UNCHANGED accepted
      /\ \/ f.type # "ack" /\ call'[s].st = "idle" /\ returned' = returned
         \/ /\ f.type = "ack"
            /\ \/ call'[s].st = "idle" /\ returned' = returned \cup {Result(a)}
               \/ call'[s] = a /\ returned' = returned
  BY <1>0, ReceiveFacts, Zenon
<1>2. /\ AcksFrom(Shift(k))
      /\ \A i \in Nat : IsAck(k, i)' => Shift(k)[k][i] # 1
  BY <1>1, FromTail, Zenon
<1>3. f = stream[k][1] /\ 1 \in 1..Len(stream[k]) /\ f.id \in Ids
  <2>1. stream[k] \in Seq(Frames)
    BY <1>1, Zenon DEF TypeInv
  <2> QED
    BY <1>1, <2>1, Shortened, Zenon DEF Frames
<1>4. a.id = IF call[s].id = NoId THEN f.id ELSE call[s].id
  BY <1>1, <1>3, AckedType, Zenon
<1> HIDE DEF f, a
<1>5. CASE f.type # "ack"
  <2>1. call'[s].st = "idle" /\ returned' = returned
    BY <1>1, <1>5, Zenon
  <2>2. \A q \in Slots : Held(q)' => Held(q) /\ call'[q].id = call[q].id
    BY <1>1, <2>1, Zenon DEF Held, Running
  <2>3. \A q \in Slots : call'[q].st \in {"acked", "publish"} => call'[q].id # NoId
    BY <1>1, <2>1, Zenon DEF PublishHeld
  <2> QED
    BY <1>1, <1>2, <2>1, <2>2, <2>3, AckMove, Zenon
<1>6. CASE f.type = "ack"
  <2>1. IsAck(k, 1) /\ 1 \in Nat
    BY <1>3, <1>6, Zenon DEF IsAck
  <2>2. ASSUME NEW c \in Conns, NEW i \in Nat, IsAck(c, i)'
        PROVE  stream'[c][i].id # f.id
    <3>1. /\ Shift(k)[c][i] \in Nat /\ IsAck(c, Shift(k)[c][i])
          /\ stream'[c][i] = stream[c][Shift(k)[c][i]]
          /\ c # k \/ Shift(k)[c][i] # 1
      BY <1>2, <2>2, Zenon DEF AcksFrom
    <3> QED
      BY <1>1, <1>3, <2>1, <3>1 DEF AcksDiffer
  <2>3. /\ f.id \in accepted
        /\ \A q \in Slots : Held(q) => call[q].id # f.id
        /\ \A r \in returned : r.id # f.id
    <3>1. f.id \in accepted
      BY <1>1, <1>3, <2>1, Zenon DEF AcksAccepted
    <3>2. /\ \A q \in Slots : Held(q) => call[q].id # f.id
          /\ \A r \in returned : r.id # f.id
      BY <1>1, <1>3, <2>1, Zenon DEF AcksFree
    <3> QED
      BY <3>1, <3>2, Zenon
  <2>4. f.id # NoId
    BY <2>3, Zenon DEF AskInv, AcceptedWritten
  <2> DEFINE z == a.id
  <2>5. OnlyOwner(s, z)
    <3>1. CASE call[s].id = NoId
      BY <1>4, <2>2, <2>3, <2>4, <3>1, Zenon DEF OnlyOwner
    <3>2. CASE call[s].id # NoId
      <4>1. z = call[s].id /\ Held(s)
        BY <1>1, <1>4, <3>2, Zenon DEF Held, Running
      <4>2. ASSUME NEW c \in Conns, NEW i \in Nat, IsAck(c, i)'
            PROVE  stream'[c][i].id # call[s].id
        <5>1. /\ Shift(k)[c][i] \in Nat /\ IsAck(c, Shift(k)[c][i])
              /\ stream'[c][i] = stream[c][Shift(k)[c][i]]
          BY <1>2, <4>2, Zenon DEF AcksFrom
        <5> QED
          BY <4>1, <5>1 DEF AcksFree
      <4>3. \A q \in Slots : q # s /\ Held(q) => call[q].id # call[s].id
        BY <4>1, Zenon DEF HeldDiffer
      <4>4. call[s].id \in accepted /\ \A r \in returned : r.id # call[s].id
        BY <4>1, Zenon DEF HeldFree
      <4> QED
        BY <3>2, <4>1, <4>2, <4>3, <4>4, Zenon DEF OnlyOwner
    <3> QED
      BY <3>1, <3>2, Zenon
  <2>6. \/ call'[s].id = z /\ UNCHANGED returned
        \/ call'[s].st = "idle" /\ \E r : r.id = z /\ returned' = returned \cup {r}
    <3>1. Result(a).id = z
      BY Zenon DEF Result
    <3> QED
      BY <1>1, <1>6, <3>1, Zenon
  <2> HIDE DEF z
  <2> QED
    BY <1>1, <1>2, <2>5, <2>6, AckPlace, Zenon
<1> QED
  BY <1>5, <1>6, Zenon

(* Every step keeps an id in one place.                                     *)
LEMMA AckStep == ASSUME BaseInv, AskInv, AckInv, [Next]_vars PROVE AckInv'
<1>1. ASSUME NEW s \in Slots, PushCloudHistory(s) PROVE AckInv'
  <2> USE DEF AckInv
  <2>1. /\ call[s].st = "publish" /\ call'[s].st = "idle"
        /\ \A q \in Slots : q # s => call'[q] = call[q]
        /\ returned' = returned \cup {Result(call[s])}
        /\ UNCHANGED <<stream, accepted>>
    BY <1>1, PushFacts, Zenon
  <2>2. AcksFrom(Same)
    BY <2>1, FromSame, Zenon
  <2>3. Held(s) /\ call[s].id # NoId
    BY <2>1, Zenon DEF PublishHeld, Held, Running
  <2>4. \A c \in Conns : \A i \in Nat : IsAck(c, i)' => stream'[c][i].id # call[s].id
    BY <2>1, <2>3, Zenon DEF AcksFree, IsAck
  <2>5. \A q \in Slots : q # s /\ Held(q) => call[q].id # call[s].id
    BY <2>3, Zenon DEF HeldDiffer
  <2>6. call[s].id \in accepted /\ \A r \in returned : r.id # call[s].id
    BY <2>3, Zenon DEF HeldFree
  <2>7. \E r : r.id = call[s].id /\ returned' = returned \cup {r}
    <3>1. Result(call[s]).id = call[s].id
      BY Zenon DEF Result
    <3> QED
      BY <2>1, <3>1, Zenon
  <2>8. OnlyOwner(s, call[s].id)
    BY <2>3, <2>4, <2>5, <2>6, Zenon DEF OnlyOwner
  <2> QED
    BY <2>1, <2>2, <2>7, <2>8, AckPlace, Zenon
<1>2. CASE \/ ClearGateway \/ FetchStart
           \/ \E c \in Conns : SetGateway(c) \/ ConnectionLost(c) \/ FetchEnds(c)
           \/ \E s \in Slots : SendAwait(s) \/ \E chat \in Chats : SendNothing(s, chat)
           \/ UNCHANGED vars
  <2>1. UNCHANGED <<stream, call, accepted, returned>>
    BY <1>2, GatewayFacts, AwaitFacts, LossFacts, FetchFacts, Zenon DEF vars, publishVars
  <2>2. AcksFrom(Same)
    BY <2>1, FromSame, Zenon
  <2>3. \A q \in Slots : Held(q)' => Held(q) /\ call'[q].id = call[q].id
    BY <2>1, Zenon DEF Held, Running
  <2> QED
    BY <2>1, <2>2, <2>3, AckMove, Zenon DEF AckInv, PublishHeld
<1>3. ASSUME NEW s \in Slots,
             \/ SendWrite(s) \/ SendWriteFails(s) \/ SendReceiveFails(s) \/ PublishFails(s)
             \/ NextCloudMsgSeq(s) \/ \E chat \in Chats : SendText(s, chat)
      PROVE  AckInv'
  <2>1. /\ UNCHANGED <<stream, accepted, returned>>
        /\ \A q \in Slots : q # s => call'[q] = call[q]
    BY <1>3, StartFacts, WriteFacts, EndFacts, NumberFacts, Zenon DEF publishVars
  <2>2. AcksFrom(Same)
    BY <2>1, FromSame, Zenon
  <2>3. \/ call'[s].st = "idle"
        \/ call'[s].id = NoId /\ call'[s].st = "ready"
        \/ /\ Running(s) /\ call'[s].id = call[s].id
           /\ call'[s].st = "wait" \/ call[s].st = "acked"
    BY <1>3, StartFacts, WriteFacts, EndFacts, NumberFacts, Zenon DEF Running
  <2>4. \A q \in Slots : Held(q)' => Held(q) /\ call'[q].id = call[q].id
    BY <2>1, <2>3, Zenon DEF Held, Running
  <2>5. \A q \in Slots : call'[q].st \in {"acked", "publish"} => call'[q].id # NoId
    BY <2>1, <2>3, Zenon DEF AckInv, PublishHeld
  <2> QED
    BY <2>1, <2>2, <2>4, <2>5, AckMove, Zenon
<1>4. ASSUME NEW c \in Conns, FetchReceive(c) \/ MessageArrives(c) PROVE AckInv'
  <2>1. UNCHANGED <<call, accepted, returned>>
    BY <1>4, TakeFacts, MessageFacts, Zenon DEF publishVars
  <2>2. \E o : AcksFrom(o)
    <3>1. CASE FetchReceive(c)
      BY <3>1, TakeFacts, FromTail, Zenon
    <3>2. CASE MessageArrives(c)
      <4>1. IncomingMessage \in Frames /\ IncomingMessage.type # "ack"
        BY FrameTypes, Zenon DEF IncomingMessage
      <4> QED
        BY <3>2, <4>1, MessageFacts, FromAppend, Zenon
    <3> QED
      BY <1>4, <3>1, <3>2, Zenon
  <2>3. \A q \in Slots : Held(q)' => Held(q) /\ call'[q].id = call[q].id
    BY <2>1, Zenon DEF Held, Running
  <2> QED
    BY <2>1, <2>2, <2>3, AckMove, Zenon DEF AckInv, PublishHeld
<1> QED
  BY <1>1, <1>2, <1>3, <1>4, AckAnswer, AckReceive, Zenon DEF Next, SendStep
-----------------------------------------------------------------------------
(* On a connection where sends meet no other traffic, a call that writes or  *)
(* waits is alone, and what is on the way belongs to it.                    *)
Talking(s) == call[s].st \in {"ready", "wait"}

Present(s) == <<call[s].text, call[s].peer>>

(* The recipients before the present one were acknowledged, and the call     *)
(* holds the id it was given for the first.                                 *)
FanOut(s) ==
    /\ call[s].id = IF call[s].peer = 1 THEN NoId ELSE <<call[s].text, 1>>
    /\ \A p \in 1..Peers : p < call[s].peer => <<call[s].text, p>> \in accepted

Silent(c) == asked[c] = << >> /\ stream[c] = << >>

(* The question is on the way, or its answer, or neither any more.          *)
OwnTraffic(s, c) ==
    \/ Len(asked[c]) = 1 /\ Head(asked[c]) = Present(s) /\ stream[c] = << >>
    \/ /\ asked[c] = << >> /\ Len(stream[c]) = 1
       /\ Head(stream[c]).type = "error" \/ Head(stream[c]) = SendAck(Present(s))
    \/ Silent(c)

QuietCall(s, c) ==
    /\ c \notin fetching
    /\ FanOut(s)
    /\ call[s].st = "ready" => Silent(c)
    /\ call[s].st = "wait" => OwnTraffic(s, c)
    /\ \A q \in Slots : Talking(q) /\ call[q].conn = c => q = s

QuietInv ==
    \A c \in Conns : c \notin disturbed =>
        \A s \in Slots : call[s].conn = c =>
            /\ Talking(s) => QuietCall(s, c)
            /\ call[s].st \in {"acked", "publish"} => call[s].id = <<call[s].text, 1>>

(* A call and a connection a step leaves alone.                             *)
LEMMA QuietFrame ==
    ASSUME NEW s \in Slots, NEW c \in Conns, Talking(s), QuietCall(s, c), call'[s] = call[s],
           accepted \subseteq accepted', c \notin fetching',
           asked'[c] = asked[c], stream'[c] = stream[c],
           \A q \in Slots : Talking(q)' /\ call'[q].conn = c => Talking(q) /\ call[q].conn = c
    PROVE  QuietCall(s, c)'
<1>1. FanOut(s)'
  BY Zenon DEF QuietCall, FanOut
<1>2. (Silent(c) => Silent(c)') /\ (OwnTraffic(s, c) => OwnTraffic(s, c)')
  BY Zenon DEF Silent, OwnTraffic, Present
<1> QED
  BY <1>1, <1>2, Zenon DEF QuietCall

(* What a step has to keep, one connection and one call at a time.          *)
LEMMA QuietGoal ==
    ASSUME \A c \in Conns : c \notin disturbed' =>
              \A s \in Slots : call'[s].conn = c =>
                  /\ Talking(s)' => QuietCall(s, c)'
                  /\ call'[s].st \in {"acked", "publish"} =>
                       call'[s].id = <<call'[s].text, 1>>
    PROVE  QuietInv'
BY Zenon DEF QuietInv

(* The answer a call takes on an undisturbed connection is its own.         *)
LEMMA OwnAnswer ==
    ASSUME BaseInv, AckInv, QuietInv, NEW s \in Slots, SendReceive(s),
           call[s].conn \notin disturbed, Head(stream[call[s].conn]).type = "ack"
    PROVE  LET a == Acknowledged(call[s], Head(stream[call[s].conn]).id)
           IN  /\ asked[call[s].conn] = << >> /\ Tail(stream[call[s].conn]) = << >>
               /\ a.id = <<call[s].text, 1>>
               /\ \A p \in 1..Peers : p < call[s].peer => <<call[s].text, p>> \in accepted
               /\ <<call[s].text, call[s].peer>> \in accepted
<1> USE DEF BaseInv
<1>0. PICK c \in Conns : c = call[s].conn
  BY ReceiveFacts, Zenon
<1> DEFINE f == Head(stream[c])
           a == Acknowledged(call[s], f.id)
<1>1. /\ call[s].st = "wait" /\ call[s] \in CallRecords /\ f \in Frames /\ f.type = "ack"
      /\ call[s].peer \in 1..Recipients(call[s].chat)
      /\ stream[c] # << >> /\ stream[c] \in Seq(Frames) /\ c \notin disturbed
  BY <1>0, ReceiveFacts, Zenon DEF TypeInv
<1>2. /\ f = stream[c][1] /\ 1 \in 1..Len(stream[c]) /\ f.id \in Ids
      /\ Len(stream[c]) = 1 => Tail(stream[c]) = << >>
  BY <1>1, Shortened, Zenon DEF Frames
<1>3. a.id = IF call[s].id = NoId THEN f.id ELSE call[s].id
  BY <1>1, <1>2, AckedType, Zenon
<1>4. FanOut(s) /\ OwnTraffic(s, c)
  BY <1>0, <1>1, Zenon DEF QuietInv, QuietCall, Talking
<1>5. asked[c] = << >> /\ Len(stream[c]) = 1 /\ f = SendAck(Present(s))
  BY <1>1, <1>4, Zenon DEF OwnTraffic, Silent
<1>6. f.id = Present(s)
  <2>1. SendAck(Present(s)).id = Present(s)
    BY Zenon DEF SendAck
  <2> QED
    BY <1>5, <2>1, Zenon
<1>7. f.id \in accepted
  <2>1. IsAck(c, 1) /\ 1 \in Nat
    BY <1>1, <1>2, Zenon DEF IsAck
  <2> QED
    BY <1>2, <2>1, Zenon DEF AckInv, AcksAccepted
<1>8. a.id = <<call[s].text, 1>>
  <2>1. CASE call[s].peer = 1
    BY <1>3, <1>4, <1>6, <2>1, Zenon DEF FanOut, Present
  <2>2. CASE call[s].peer # 1
    <3>1. call[s].id = <<call[s].text, 1>>
      BY <1>4, <2>2, Zenon DEF FanOut
    <3>2. <<call[s].text, 1>> # NoId
      BY DEF NoId
    <3> QED
      BY <1>3, <3>1, <3>2, Zenon
  <2> QED
    BY <2>1, <2>2, Zenon
<1> QED
  BY <1>0, <1>2, <1>4, <1>5, <1>6, <1>7, <1>8, Zenon DEF FanOut, Present

(* A send begins on a quiet connection, or disturbs it.                     *)
LEMMA QuietStart ==
    ASSUME BaseInv, QuietInv, NEW s \in Slots, NEW chat \in Chats, SendText(s, chat)
    PROVE  QuietInv'
<1>1. /\ call'[s].st = "ready" /\ call'[s].conn = gateway /\ call'[s].peer = 1
      /\ call'[s].id = NoId
      /\ \A q \in Slots : q # s => call'[q] = call[q]
      /\ disturbed \subseteq disturbed'
      /\ gateway \notin disturbed' => gateway \notin fetching /\ ~Calling(gateway) /\ Silent(gateway)
      /\ UNCHANGED <<asked, stream, fetching, accepted>>
  BY StartFacts, Zenon DEF publishVars, Silent
<1>2. ASSUME NEW c \in Conns, c \notin disturbed', NEW t \in Slots, call'[t].conn = c
      PROVE  /\ Talking(t)' => QuietCall(t, c)'
             /\ call'[t].st \in {"acked", "publish"} => call'[t].id = <<call'[t].text, 1>>
  <2>1. CASE t = s
    <3>1. c = gateway
      BY <1>1, <1>2, <2>1, Zenon
    <3>2. FanOut(s)'
      <4>1. \A p \in 1..Peers : ~(p < 1)
        BY Constants
      <4> QED
        BY <1>1, <4>1, Zenon DEF FanOut
    <3>3. Silent(c)' /\ c \notin fetching'
      BY <1>1, <1>2, <3>1, Zenon DEF Silent
    <3>4. \A q \in Slots : Talking(q)' /\ call'[q].conn = c => q = s
      BY <1>1, <1>2, <3>1, Zenon DEF Talking, Calling
    <3> QED
      BY <1>1, <2>1, <3>2, <3>3, <3>4, Zenon DEF QuietCall
  <2>2. CASE t # s
    <3>1. /\ call'[t] = call[t] /\ call[t].conn = c /\ c \notin disturbed
          /\ Talking(t)' = Talking(t)
      BY <1>1, <1>2, <2>2, Zenon DEF Talking
    <3>2. ASSUME Talking(t) PROVE QuietCall(t, c)'
      <4>1. gateway # c
        BY <1>1, <1>2, <3>1, <3>2, Zenon DEF Talking, Calling
      <4>2. QuietCall(t, c)
        BY <3>1, <3>2, Zenon DEF QuietInv
      <4>3. \A q \in Slots : Talking(q)' /\ call'[q].conn = c => Talking(q) /\ call[q].conn = c
        BY <1>1, <4>1, Zenon DEF Talking
      <4>4. /\ accepted \subseteq accepted' /\ c \notin fetching'
            /\ asked'[c] = asked[c] /\ stream'[c] = stream[c]
        BY <1>1, <4>2, Zenon DEF QuietCall
      <4> QED
        BY <3>1, <3>2, <4>2, <4>3, <4>4, QuietFrame, Zenon
    <3> QED
      BY <3>1, <3>2, Zenon DEF QuietInv
  <2> QED
    BY <2>1, <2>2, Zenon
<1> QED
  BY <1>2, QuietGoal, Zenon

(* The other calls, when one call moves on along its connection.            *)
LEMMA QuietOthers ==
    ASSUME QuietInv, NEW s \in Slots, NEW c \in Conns, NEW t \in Slots, t # s, Running(s),
           \A q \in Slots : q # s => call'[q] = call[q],
           Talking(s)' => Talking(s) /\ call'[s].conn = call[s].conn,
           \A d \in Conns : d # call[s].conn => asked'[d] = asked[d] /\ stream'[d] = stream[d],
           Talking(s) \/ UNCHANGED <<asked, stream>>,
           UNCHANGED <<disturbed, fetching>>, accepted \subseteq accepted',
           c \notin disturbed', call'[t].conn = c
    PROVE  /\ Talking(t)' => QuietCall(t, c)'
           /\ call'[t].st \in {"acked", "publish"} => call'[t].id = <<call'[t].text, 1>>
<1>1. /\ call'[t] = call[t] /\ call[t].conn = c /\ c \notin disturbed
      /\ Talking(t)' = Talking(t)
  BY Zenon DEF Talking
<1>2. ASSUME Talking(t) PROVE QuietCall(t, c)'
  <2>1. QuietCall(t, c)
    BY <1>1, <1>2, Zenon DEF QuietInv
  <2>2. asked'[c] = asked[c] /\ stream'[c] = stream[c]
    BY <2>1, Zenon DEF QuietCall
  <2>3. \A q \in Slots : Talking(q)' /\ call'[q].conn = c => Talking(q) /\ call[q].conn = c
    BY Zenon DEF Talking
  <2>4. c \notin fetching'
    BY <2>1, Zenon DEF QuietCall
  <2> QED
    BY <1>1, <1>2, <2>1, <2>2, <2>3, <2>4, QuietFrame, Zenon
<1> QED
  BY <1>1, <1>2, Zenon DEF QuietInv

(* A question is written.                                                   *)
LEMMA QuietWrite ==
    ASSUME BaseInv, QuietInv, NEW s \in Slots, SendWrite(s)
    PROVE  QuietInv'
<1>0. PICK k \in Conns : k = call[s].conn
  BY WriteFacts, Zenon
<1>1. /\ call[s].st = "ready" /\ call'[s].st = "wait" /\ call'[s].conn = k
      /\ call'[s].text = call[s].text /\ call'[s].peer = call[s].peer
      /\ call'[s].id = call[s].id /\ Present(s) \in Ids
      /\ \A q \in Slots : q # s => call'[q] = call[q]
      /\ asked'[k] = Append(asked[k], Present(s))
      /\ \A d \in Conns : d # k => asked'[d] = asked[d]
      /\ UNCHANGED <<stream, fetching, accepted, disturbed>>
  BY <1>0, WriteFacts, Zenon DEF Present, publishVars
<1>2. Talking(s) /\ Talking(s)' /\ Running(s)
  BY <1>1, Zenon DEF Talking, Running
<1>3. ASSUME NEW c \in Conns, c \notin disturbed', NEW t \in Slots, call'[t].conn = c
      PROVE  /\ Talking(t)' => QuietCall(t, c)'
             /\ call'[t].st \in {"acked", "publish"} => call'[t].id = <<call'[t].text, 1>>
  <2>1. CASE t = s
    <3>1. c = k /\ QuietCall(s, c)
      BY <1>0, <1>1, <1>2, <1>3, <2>1, Zenon DEF QuietInv
    <3>2. FanOut(s)' /\ Present(s)' = Present(s)
      BY <1>1, <3>1, Zenon DEF QuietCall, FanOut, Present
    <3>3. Silent(c) /\ asked[c] \in Seq(Ids)
      BY <1>1, <3>1, Zenon DEF QuietCall, BaseInv, TypeInv
    <3>4. Len(asked'[c]) = 1 /\ Head(asked'[c]) = Present(s) /\ stream'[c] = << >>
      <4>1. /\ asked[c] = << >> /\ stream[c] = << >>
            /\ asked[c] \in Seq(Ids) /\ Present(s) \in Ids
        BY <1>1, <3>3, Zenon DEF Silent
      <4>2. /\ Len(Append(asked[c], Present(s))) = 1
            /\ Head(Append(asked[c], Present(s))) = Present(s)
        BY <4>1, Appended, SMT
      <4> QED
        BY <1>1, <3>1, <4>1, <4>2, Zenon
    <3>5. OwnTraffic(s, c)'
      BY <3>2, <3>4, Zenon DEF OwnTraffic
    <3>6. c \notin fetching' /\ \A q \in Slots : Talking(q)' /\ call'[q].conn = c => q = s
      BY <1>1, <3>1, Zenon DEF QuietCall, Talking
    <3>7. call'[s].st = "wait"
      BY <1>1, Zenon
    <3>8. QuietCall(s, c)'
      BY <3>2, <3>5, <3>6, <3>7, Zenon DEF QuietCall
    <3> QED
      BY <2>1, <3>7, <3>8, Zenon
  <2>2. CASE t # s
    BY <1>0, <1>1, <1>2, <1>3, <2>2, QuietOthers, Zenon
  <2> QED
    BY <2>1, <2>2, Zenon
<1> QED
  BY <1>3, QuietGoal, Zenon

(* Steps of a call that take nothing from its connection: it ends, or a cloud *)
(* text moves on to its publication.                                        *)
LEMMA QuietLeave ==
    ASSUME QuietInv, NEW s \in Slots, Running(s), ~Talking(s)',
           \A q \in Slots : q # s => call'[q] = call[q],
           call'[s].st \in {"acked", "publish"} =>
              /\ call[s].st \in {"acked", "publish"} /\ call'[s].conn = call[s].conn
              /\ call'[s].text = call[s].text /\ call'[s].id = call[s].id,
           UNCHANGED <<asked, stream, fetching, accepted, disturbed>>
    PROVE  QuietInv'
<1>1. ASSUME NEW c \in Conns, c \notin disturbed', NEW t \in Slots, call'[t].conn = c
      PROVE  /\ Talking(t)' => QuietCall(t, c)'
             /\ call'[t].st \in {"acked", "publish"} => call'[t].id = <<call'[t].text, 1>>
  <2>1. CASE t = s
    BY <1>1, <2>1, Zenon DEF QuietInv
  <2>2. CASE t # s
    BY <1>1, <2>2, QuietOthers, Zenon
  <2> QED
    BY <2>1, <2>2, Zenon
<1> QED
  BY <1>1, QuietGoal, Zenon

(* An answer is taken.                                                      *)
LEMMA QuietReceive ==
    ASSUME BaseInv, AckInv, QuietInv, NEW s \in Slots, SendReceive(s)
    PROVE  QuietInv'
<1>0. PICK k \in Conns : k = call[s].conn
  BY ReceiveFacts, Zenon
<1> DEFINE f == Head(stream[k])
           a == Acknowledged(call[s], f.id)
<1>1. /\ call[s].st = "wait" /\ call[s] \in CallRecords
      /\ call[s].peer \in 1..Recipients(call[s].chat)
      /\ f \in Frames /\ stream'[k] = Tail(stream[k])
      /\ \A d \in Conns : d # k => stream'[d] = stream[d]
      /\ \A q \in Slots : q # s => call'[q] = call[q]
      /\ UNCHANGED <<asked, fetching, accepted, disturbed>>
      /\ \/ call'[s].st = "idle"
         \/ f.type = "ack" /\ a.st \in {"acked", "ready"} /\ call'[s] = a
  BY <1>0, ReceiveFacts, Zenon
<1>2. /\ a.text = call[s].text /\ a.conn = k
      /\ a.peer = IF call[s].peer < Recipients(call[s].chat)
                  THEN call[s].peer + 1 ELSE call[s].peer
      /\ a.st = IF call[s].chat = "cloud" THEN "acked"
                ELSE IF call[s].peer < Recipients(call[s].chat) THEN "ready" ELSE "done"
  BY <1>0, <1>1, AckedType, Zenon DEF Frames
<1>3. k \notin disturbed /\ f.type = "ack" =>
        /\ asked[k] = << >> /\ Tail(stream[k]) = << >>
        /\ a.id = <<call[s].text, 1>>
        /\ \A p \in 1..Peers : p < call[s].peer => <<call[s].text, p>> \in accepted
        /\ <<call[s].text, call[s].peer>> \in accepted
  BY <1>0, OwnAnswer, Zenon
<1> HIDE DEF f, a
<1>4. Talking(s) /\ Running(s) /\ (Talking(s)' => call'[s].conn = k)
  BY <1>1, <1>2, Zenon DEF Talking, Running
<1>5. ASSUME NEW c \in Conns, c \notin disturbed', NEW t \in Slots, call'[t].conn = c
      PROVE  /\ Talking(t)' => QuietCall(t, c)'
             /\ call'[t].st \in {"acked", "publish"} => call'[t].id = <<call'[t].text, 1>>
  <2>1. CASE t = s
    <3>1. CASE call'[s].st = "idle"
      BY <2>1, <3>1, Zenon DEF Talking
    <3>2. CASE f.type = "ack" /\ a.st \in {"acked", "ready"} /\ call'[s] = a
      <4>1. c = k /\ k \notin disturbed /\ QuietCall(s, k)
        BY <1>0, <1>1, <1>2, <1>4, <1>5, <2>1, <3>2, Zenon DEF QuietInv
      <4>2. call'[s].id = <<call'[s].text, 1>>
        BY <1>2, <1>3, <3>2, <4>1, Zenon
      <4>3. ASSUME a.st = "ready" PROVE QuietCall(s, c)'
        <5>1. a.peer = call[s].peer + 1 /\ call[s].peer \in Nat \ {0}
          BY <1>1, <1>2, <4>3, RecipientsRange
        <5>2. a.peer # 1 /\ \A p \in 1..Peers : p < a.peer => p < call[s].peer \/ p = call[s].peer
          BY <5>1
        <5>3. FanOut(s)'
          BY <1>1, <1>2, <1>3, <3>2, <4>1, <4>2, <5>2, Zenon DEF FanOut
        <5>4. Silent(c)'
          BY <1>1, <1>3, <3>2, <4>1, Zenon DEF Silent
        <5>5. c \notin fetching' /\ \A q \in Slots : Talking(q)' /\ call'[q].conn = c => q = s
          BY <1>1, <4>1, Zenon DEF QuietCall, Talking
        <5> QED
          BY <3>2, <4>3, <5>3, <5>4, <5>5, Zenon DEF QuietCall
      <4> QED
        BY <2>1, <3>2, <4>2, <4>3, Zenon DEF Talking
    <3> QED
      BY <1>1, <3>1, <3>2, Zenon
  <2>2. CASE t # s
    BY <1>0, <1>1, <1>4, <1>5, <2>2, QuietOthers, Zenon
  <2> QED
    BY <2>1, <2>2, Zenon
<1> QED
  BY <1>5, QuietGoal, Zenon

(* A question is answered, or lost with the connection.                     *)
LEMMA QuietConn ==
    ASSUME BaseInv, QuietInv, NEW k \in Conns, GatewayAnswers(k) \/ ConnectionLost(k)
    PROVE  QuietInv'
<1>1. /\ UNCHANGED <<call, fetching, disturbed>> /\ accepted \subseteq accepted'
      /\ \A d \in Conns : d # k => asked'[d] = asked[d] /\ stream'[d] = stream[d]
  BY AnswerFacts, LossFacts, Zenon DEF publishVars
<1>2. ASSUME NEW s \in Slots PROVE Talking(s)' = Talking(s) /\ Present(s)' = Present(s)
  BY <1>1, Zenon DEF Talking, Present
<1>3. ASSUME NEW s \in Slots, Silent(k) PROVE Silent(k)'
  BY <1>3, AnswerFacts, LossFacts, Zenon DEF Silent
<1>4. ASSUME NEW s \in Slots, OwnTraffic(s, k) PROVE OwnTraffic(s, k)'
  <2>1. CASE ConnectionLost(k)
    <3>1. asked'[k] = << >> /\ stream'[k] = stream[k]
      BY <2>1, LossFacts, Zenon
    <3> QED
      BY <1>2, <1>4, <3>1, Zenon DEF OwnTraffic, Silent
  <2>2. CASE GatewayAnswers(k)
    <3>1. asked[k] # << >> /\ Head(asked[k]) \in Ids /\ asked'[k] = Tail(asked[k])
      BY <2>2, AnswerFacts, Zenon
    <3>2. Len(asked[k]) = 1 /\ Head(asked[k]) = Present(s) /\ stream[k] = << >>
      BY <1>4, <3>1, Zenon DEF OwnTraffic, Silent
    <3>3. asked[k] \in Seq(Ids) /\ stream[k] \in Seq(Frames)
      BY Zenon DEF BaseInv, TypeInv
    <3>4. asked'[k] = << >>
      BY <3>1, <3>2, <3>3, Shortened, Zenon
    <3>5. PICK f \in Frames : /\ stream'[k] = Append(stream[k], f)
                              /\ f.type = "error" \/ f = SendAck(Present(s))
      <4>1. SendAck(Present(s)) \in Frames /\ ErrorFrame \in Frames /\ ErrorFrame.type = "error"
        BY <3>1, <3>2, FrameTypes, Zenon DEF ErrorFrame
      <4> QED
        BY <2>2, <3>2, <4>1, AnswerFacts, Zenon
    <3>6. Len(stream'[k]) = 1 /\ Head(stream'[k]) = f
      <4>1. stream[k] = << >> /\ stream[k] \in Seq(Frames) /\ f \in Frames
        BY <3>2, <3>3, Zenon
      <4>2. Len(Append(stream[k], f)) = 1 /\ Head(Append(stream[k], f)) = f
        BY <4>1, Appended, SMT
      <4> QED
        BY <3>5, <4>2, Zenon
    <3> QED
      BY <1>2, <3>4, <3>5, <3>6, Zenon DEF OwnTraffic
  <2> QED
    BY <2>1, <2>2, Zenon
<1>5. ASSUME NEW c \in Conns, c \notin disturbed', NEW t \in Slots, call'[t].conn = c
      PROVE  /\ Talking(t)' => QuietCall(t, c)'
             /\ call'[t].st \in {"acked", "publish"} => call'[t].id = <<call'[t].text, 1>>
  <2>1. ASSUME Talking(t) PROVE QuietCall(t, c)'
    <3>1. QuietCall(t, c) /\ call'[t] = call[t] /\ c \notin fetching'
      BY <1>1, <1>5, <2>1, Zenon DEF QuietInv, QuietCall
    <3>2. \A q \in Slots : Talking(q)' /\ call'[q].conn = c => Talking(q) /\ call[q].conn = c
      BY <1>1, <1>2, Zenon
    <3>3. CASE c = k
      <4>1. FanOut(t)'
        BY <1>1, <3>1, Zenon DEF QuietCall, FanOut
      <4> QED
        BY <1>3, <1>4, <3>1, <3>2, <3>3, <4>1, Zenon DEF QuietCall
    <3>4. CASE c # k
      BY <1>1, <2>1, <3>1, <3>2, <3>4, QuietFrame, Zenon
    <3> QED
      BY <3>3, <3>4, Zenon
  <2> QED
    BY <1>1, <1>2, <1>5, <2>1, Zenon DEF QuietInv
<1> QED
  BY <1>5, QuietGoal, Zenon

(* Traffic of others, which disturbs the connection when a send is on it.   *)
LEMMA QuietTraffic ==
    ASSUME BaseInv, QuietInv,
           FetchStart \/ \E k \in Conns : FetchEnds(k) \/ FetchReceive(k) \/ MessageArrives(k)
    PROVE  QuietInv'
<1>1. UNCHANGED <<asked, call, accepted>> /\ disturbed \subseteq disturbed'
  BY TakeFacts, MessageFacts, FetchFacts, Zenon DEF publishVars
<1>2. ASSUME NEW c \in Conns, c \notin disturbed', NEW t \in Slots, call'[t].conn = c
      PROVE  /\ Talking(t)' => QuietCall(t, c)'
             /\ call'[t].st \in {"acked", "publish"} => call'[t].id = <<call'[t].text, 1>>
  <2>1. call'[t] = call[t] /\ call[t].conn = c /\ c \notin disturbed /\ Talking(t)' = Talking(t)
    BY <1>1, <1>2, Zenon DEF Talking
  <2>2. ASSUME Talking(t) PROVE QuietCall(t, c)'
    <3>1. QuietCall(t, c) /\ c \notin fetching /\ Calling(c)
      BY <2>1, <2>2, Zenon DEF QuietInv, QuietCall, Talking, Calling
    <3>2. c \notin fetching' /\ stream'[c] = stream[c]
      <4>1. CASE FetchStart \/ \E k \in Conns : FetchEnds(k)
        BY <1>2, <3>1, <4>1, FetchFacts, Zenon
      <4>2. CASE \E k \in Conns : FetchReceive(k)
        BY <3>1, <4>2, TakeFacts, Zenon
      <4>3. CASE \E k \in Conns : MessageArrives(k)
        BY <1>2, <3>1, <4>3, MessageFacts, Zenon
      <4> QED
        BY <4>1, <4>2, <4>3, Zenon
    <3>3. \A q \in Slots : Talking(q)' /\ call'[q].conn = c => Talking(q) /\ call[q].conn = c
      BY <1>1, Zenon DEF Talking
    <3> QED
      BY <1>1, <2>1, <2>2, <3>1, <3>2, <3>3, QuietFrame, Zenon
  <2> QED
    BY <2>1, <2>2, Zenon DEF QuietInv
<1> QED
  BY <1>2, QuietGoal, Zenon

(* Every step keeps the answers with their questions.                       *)
LEMMA QuietStep == ASSUME BaseInv, AckInv, QuietInv, [Next]_vars PROVE QuietInv'
<1>1. ASSUME NEW s \in Slots,
             \/ SendWriteFails(s) \/ SendReceiveFails(s) \/ PublishFails(s)
             \/ NextCloudMsgSeq(s) \/ PushCloudHistory(s)
      PROVE  QuietInv'
  <2>1. /\ Running(s)
        /\ \A q \in Slots : q # s => call'[q] = call[q]
        /\ UNCHANGED <<asked, stream, fetching, accepted, disturbed>>
        /\ \/ call'[s].st = "idle"
           \/ /\ call[s].st = "acked" /\ call'[s].st = "publish"
              /\ call'[s].conn = call[s].conn
              /\ call'[s].text = call[s].text /\ call'[s].id = call[s].id
    BY <1>1, EndFacts, NumberFacts, PushFacts, Zenon DEF Running, publishVars
  <2> QED
    BY <2>1, QuietLeave, Zenon DEF Talking
<1>2. CASE \/ ClearGateway \/ \E c \in Conns : SetGateway(c)
           \/ \E s \in Slots : SendAwait(s) \/ \E chat \in Chats : SendNothing(s, chat)
           \/ UNCHANGED vars
  <2>1. UNCHANGED <<asked, stream, call, fetching, accepted, disturbed>>
    BY <1>2, GatewayFacts, AwaitFacts, Zenon DEF vars, publishVars, ghosts
  <2>2. ASSUME NEW c \in Conns, NEW s \in Slots PROVE QuietCall(s, c) => QuietCall(s, c)'
    <3>1. /\ FanOut(s) => FanOut(s)'
          /\ Silent(c) => Silent(c)'
          /\ OwnTraffic(s, c) => OwnTraffic(s, c)'
      BY <2>1, Zenon DEF FanOut, Silent, OwnTraffic, Present
    <3> QED
      BY <2>1, <3>1, Zenon DEF QuietCall, Talking
  <2> QED
    BY <2>1, <2>2, Zenon DEF QuietInv, Talking
<1> QED
  BY <1>1, <1>2, QuietStart, QuietWrite, QuietReceive, QuietConn, QuietTraffic, Zenon
     DEF Next, SendStep
-----------------------------------------------------------------------------
(* What was returned on an undisturbed connection.                          *)
Relayed(r) ==
    r.conn \notin disturbed =>
        /\ r.id = <<r.text, 1>>
        /\ \A p \in 1..Recipients(r.chat) : <<r.text, p>> \in accepted

RelayedInv == \A r \in returned : Relayed(r)

GatewayInvariant == BaseInv /\ HistoryInv /\ AskInv /\ AckInv /\ QuietInv /\ RelayedInv

(* What was accepted stays accepted, and a connection disturbed.            *)
LEMMA AcceptedGrows ==
    ASSUME BaseInv, [Next]_vars
    PROVE  accepted \subseteq accepted' /\ disturbed \subseteq disturbed'
BY GatewayFacts, StartFacts, WriteFacts, EndFacts, AwaitFacts, ReceiveFacts, NumberFacts,
   PushFacts, AnswerFacts, TakeFacts, MessageFacts, LossFacts, FetchFacts, Zenon
   DEF Next, SendStep, vars, publishVars, ghosts

(* A call that returns an id on an undisturbed connection was acknowledged   *)
(* for all its recipients.                                                  *)
LEMMA ReturnedNew ==
    ASSUME GatewayInvariant, [Next]_vars, NEW r \in returned', r \notin returned,
           r.conn \notin disturbed
    PROVE  /\ r.id = <<r.text, 1>>
           /\ \A p \in 1..Recipients(r.chat) : <<r.text, p>> \in accepted
<1> USE DEF GatewayInvariant
<1>1. ASSUME NEW s \in Slots, SendReceive(s)
      PROVE  /\ r.id = <<r.text, 1>>
             /\ \A p \in 1..Recipients(r.chat) : <<r.text, p>> \in accepted
  <2>0. PICK k \in Conns : k = call[s].conn
    BY <1>1, ReceiveFacts, Zenon
  <2> DEFINE f == Head(stream[k])
             a == Acknowledged(call[s], f.id)
  <2>1. /\ call[s] \in CallRecords /\ call[s].peer \in 1..Recipients(call[s].chat)
        /\ f \in Frames
        /\ \/ returned' = returned
           \/ f.type = "ack" /\ a.st = "done" /\ returned' = returned \cup {Result(a)}
    BY <1>1, <2>0, ReceiveFacts, Zenon
  <2>1a. f.type = "ack" /\ a.st = "done" /\ r = Result(a) /\ f.id \in Ids
    BY <2>1, Zenon DEF Frames
  <2>2. /\ a.text = call[s].text /\ a.conn = k /\ a.chat = call[s].chat
        /\ a.st = IF call[s].chat = "cloud" THEN "acked"
                  ELSE IF call[s].peer < Recipients(call[s].chat) THEN "ready" ELSE "done"
    BY <2>0, <2>1, <2>1a, AckedType, Zenon
  <2>3. /\ r.text = call[s].text /\ r.conn = k /\ r.chat = call[s].chat /\ r.id = a.id
    <3>1. /\ Result(a).text = a.text /\ Result(a).conn = a.conn
          /\ Result(a).chat = a.chat /\ Result(a).id = a.id
      BY Zenon DEF Result
    <3> QED
      BY <2>1a, <2>2, <3>1, Zenon
  <2>4. /\ a.id = <<call[s].text, 1>>
        /\ \A p \in 1..Peers : p < call[s].peer => <<call[s].text, p>> \in accepted
        /\ <<call[s].text, call[s].peer>> \in accepted
    BY <1>1, <2>0, <2>1a, <2>3, OwnAnswer, Zenon
  <2> HIDE DEF f, a
  <2>5. ~(call[s].peer < Recipients(call[s].chat))
    BY <2>1a, <2>2, Zenon
  <2>6. \A p \in 1..Recipients(call[s].chat) :
          p \in 1..Peers /\ (p < call[s].peer \/ p = call[s].peer)
    BY <2>1, <2>5, RecipientsRange
  <2> QED
    BY <2>3, <2>4, <2>6, Zenon
<1>2. ASSUME NEW s \in Slots, PushCloudHistory(s)
      PROVE  /\ r.id = <<r.text, 1>>
             /\ \A p \in 1..Recipients(r.chat) : <<r.text, p>> \in accepted
  <2>1. /\ call[s].st = "publish" /\ call[s].chat = "cloud" /\ r = Result(call[s])
    BY <1>2, PushFacts, Zenon
  <2>2. /\ r.text = call[s].text /\ r.conn = call[s].conn
        /\ r.chat = "cloud" /\ r.id = call[s].id
    BY <2>1, Zenon DEF Result
  <2>3. call[s].conn \in Conns /\ Held(s)
    BY <2>1, Zenon DEF BaseInv, CallInv, AckInv, PublishHeld, Held, Running
  <2>4. r.id = <<r.text, 1>>
    BY <2>1, <2>2, <2>3, Zenon DEF QuietInv
  <2>5. r.id \in accepted
    BY <2>2, <2>3, Zenon DEF AckInv, HeldFree
  <2>6. \A p \in 1..Recipients(r.chat) : p = 1
    BY <2>2 DEF Recipients
  <2> QED
    BY <2>4, <2>5, <2>6, Zenon
<1>3. \/ UNCHANGED returned
      \/ \E s \in Slots : SendReceive(s) \/ PushCloudHistory(s)
  BY GatewayFacts, StartFacts, WriteFacts, EndFacts, AwaitFacts, NumberFacts,
     AnswerFacts, TakeFacts, MessageFacts, LossFacts, FetchFacts, Zenon
     DEF Next, SendStep, vars, publishVars
<1> QED
  BY <1>1, <1>2, <1>3, Zenon

(* Every step keeps what was returned relayed.                              *)
LEMMA RelayedStep == ASSUME GatewayInvariant, [Next]_vars PROVE RelayedInv'
<1>1. accepted \subseteq accepted' /\ disturbed \subseteq disturbed'
  BY AcceptedGrows, Zenon DEF GatewayInvariant
<1> SUFFICES ASSUME NEW r \in returned', r.conn \notin disturbed'
             PROVE  /\ r.id = <<r.text, 1>>
                    /\ \A p \in 1..Recipients(r.chat) : <<r.text, p>> \in accepted'
  BY Zenon DEF RelayedInv, Relayed
<1>2. r.conn \notin disturbed
  BY <1>1, Zenon
<1>3. CASE r \in returned
  BY <1>1, <1>2, <1>3, Zenon DEF GatewayInvariant, RelayedInv, Relayed
<1>4. CASE r \notin returned
  BY <1>1, <1>2, <1>4, ReturnedNew, Zenon
<1> QED
  BY <1>3, <1>4, Zenon

(* At the start nothing is on the way.                                      *)
LEMMA InitInvariant == Init => GatewayInvariant
<1> SUFFICES ASSUME Init PROVE GatewayInvariant
  BY Zenon
<1>1. BaseInv
  BY InitType, Zenon DEF BaseInv
<1>2. /\ \A s \in Slots : call[s].st = "idle"
      /\ history = {} /\ returned = {} /\ accepted = {}
      /\ \A c \in Conns : asked[c] = << >> /\ stream[c] = << >>
  BY IdleType, Zenon DEF Init
<1>3. \A i \in 1..Len(<< >>) : FALSE
  OBVIOUS
<1>4. HistoryInv
  BY <1>2, Zenon DEF HistoryInv, TextsDiffer, SeqsDiffer, EntriesBelow, EntriesApart,
     EntriesDiffer, EntriesReturned, Running, Publishing
<1>5. AskInv
  BY <1>2, <1>3, Zenon DEF AskInv, AskedFresh, AskedDiffer, AcceptedWritten
<1>6. \A c \in Conns : \A i \in Nat : ~IsAck(c, i)
  BY <1>2, <1>3, Zenon DEF IsAck
<1>7. \A s \in Slots : ~Held(s)
  BY <1>2, Zenon DEF Held, Running
<1>8. AckInv
  BY <1>2, <1>6, <1>7, Zenon DEF AckInv, AcksAccepted, AcksFree, AcksDiffer, HeldFree,
     HeldDiffer, PublishHeld, ReturnedDiffer
<1>9. QuietInv /\ RelayedInv
  BY <1>2, Zenon DEF QuietInv, Talking, RelayedInv
<1> QED
  BY <1>1, <1>4, <1>5, <1>8, <1>9, Zenon DEF GatewayInvariant

(* Every step keeps the invariant.                                          *)
LEMMA StepInvariant == GatewayInvariant /\ [Next]_vars => GatewayInvariant'
BY BaseStep, HistoryStep, AskStep, AckStep, QuietStep, RelayedStep, Zenon DEF GatewayInvariant

(* A send that returns a message id (send_text, chat_common.rs) returns one  *)
(* the relay gave to a text of this client and no other send returns, for    *)
(* any number of connections, calls, recipients and texts and whatever shares *)
(* the connections; on a connection where sends meet no other traffic it is  *)
(* the id of the very text, which the relay took for every recipient.       *)
THEOREM OkMeansRelayedHolds == Spec => []OkMeansRelayed
<1>1. GatewayInvariant => OkMeansRelayed
  BY Zenon DEF GatewayInvariant, AckInv, ReturnedDiffer, RelayedInv, Relayed, OkMeansRelayed
<1> QED
  BY <1>1, InitInvariant, StepInvariant, PTL DEF Spec

(* The cloud history holds each text once, under a sequence number and a     *)
(* message id of its own (cloud_publish_at_rest), however publications       *)
(* overlap and whichever call an answer goes to; without other traffic it is *)
(* filed under the id of that very text.                                    *)
THEOREM HistorySoundHolds == Spec => []HistorySound
<1>1. GatewayInvariant => HistorySound
  <2> SUFFICES ASSUME GatewayInvariant PROVE HistorySound
    BY Zenon
  <2> USE DEF GatewayInvariant
  <2>1. ASSUME NEW h \in history, NEW g \in history, h.id = g.id PROVE h = g
    <3>1. PICK r \in returned : r.text = h.text /\ r.id = h.id
      BY Zenon DEF HistoryInv, EntriesReturned
    <3>2. PICK q \in returned : q.text = g.text /\ q.id = g.id
      BY Zenon DEF HistoryInv, EntriesReturned
    <3>3. q = r
      BY <2>1, <3>1, <3>2, Zenon DEF AckInv, ReturnedDiffer
    <3>4. h.text = g.text
      BY <3>1, <3>2, <3>3, Zenon
    <3> QED
      BY <3>4, Zenon DEF HistoryInv, EntriesDiffer
  <2>2. ASSUME NEW h \in history, h.conn \notin disturbed PROVE h.id = <<h.text, 1>>
    <3>1. PICK r \in returned : r.text = h.text /\ r.conn = h.conn /\ r.id = h.id
      BY Zenon DEF HistoryInv, EntriesReturned
    <3>2. r.id = <<r.text, 1>>
      BY <2>2, <3>1, Zenon DEF RelayedInv, Relayed
    <3> QED
      BY <3>1, <3>2, Zenon
  <2> QED
    BY <2>1, <2>2, Zenon DEF HistorySound, HistoryInv, EntriesDiffer
<1> QED
  BY <1>1, InitInvariant, StepInvariant, PTL DEF Spec
=============================================================================
