------------------------------ MODULE MqttFrames ------------------------------
(***************************************************************************)
(* One connection through the gateway of                                   *)
(* internal/controller/mqtt_gateway_controller.go, seen as two byte        *)
(* streams: HandleWebSocket collects the CONNECT packet from WebSocket     *)
(* messages, checks the credentials, dials the broker and forwards the     *)
(* packet; then one pump cuts the client's messages into MQTT frames,      *)
(* drops what a user may not address and writes the rest to the broker,    *)
(* and another reads frames from the broker and hands them to the client.  *)
(*                                                                         *)
(* What a connection does to the registries and to the device's presence   *)
(* is in MqttGateway; this module is about which bytes arrive, and whose.  *)
(***************************************************************************)
EXTENDS MqttCodec

CONSTANTS Devices,         \* the device identifiers; any other topic byte is a malformed topic
          Clients,         \* the clients a behaviour may be about, see client below
          MaxPings,        \* bound on the frames a client adds to stay alive
          MaxChanges,      \* bound on the changes of the devices' rows
          TopicLists,      \* the lists of topics the property of them is about
          MinIdle,         \* bounds of the idle threshold, in half seconds (15 s, 30 min)
          MaxIdle,
          ConfiguredIdle,  \* idle-timeout-sec, 0 when not configured
          DefaultIdle      \* 5 min

ASSUME FramesAssumptions ==
    /\ Devices \subseteq 1 .. Base - 1
    /\ MaxPings \in Nat
    /\ MaxChanges \in Nat
    /\ MinIdle \in Nat \ {0}
    /\ MaxIdle \in Nat
    /\ MinIdle <= MaxIdle
    /\ ConfiguredIdle \in Nat
    /\ DefaultIdle \in Nat \ {0}
    /\ \A c \in Clients :
          /\ WellFormed(c.connect)
          /\ \A frames \in {c.plan, c.down} : /\ frames \in Seq(Seq(Byte))
                                              /\ \A i \in DOMAIN frames : IsPacket(frames[i])
    /\ \A topics \in TopicLists :
          /\ topics \in Seq(Byte)
          /\ \A level \in Byte : Encodable(Len(SubscribeBody(level, topics)))

\* How a connection that is over ended.
Ended == {"late",       \* no whole CONNECT in time
          "refused",    \* CONNACK not authorized
          "unreached",  \* the broker could not be dialled, or CONNECT not written
          "idle",       \* no message for the idle threshold
          "broken"}     \* a read or a write failed on either side
Phases == {"connect", "credentials", "dial", "bridged"} \cup Ended

VARIABLES
    client,      \* the client: how it authenticates (how, genuine), the CONNECT it sends
                 \* (connect), the frames it and the broker will send (plan, down), whether it
                 \* awaits CONNACK before anything else (patient) and whether it sends
                 \* something every keepalive (lively)
    hello,       \* the bytes of that CONNECT
    phase,       \* where HandleWebSocket is
    stream,      \* the bytes the client sends after its CONNECT
    out,         \* bytes the client has still to send
    buf,         \* connectBytes, later buf of the pump: bytes read and not consumed
    packet,      \* the CONNECT packet, once complete
    lost,        \* bytes that came in the message that completed it, after its end
    parsed,      \* what parseConnectCredentials returned
    taken,       \* bytes of the frames the pump has taken out of buf
    cuts,        \* where in taken each frame ends
    refused,     \* which of the frames userFrameAllowed refused
    acl,         \* conn.acl
    timeout,     \* conn.timeout
    quiet,       \* time since the pump began to wait for a message
    owned,       \* devices whose row says they belong to the user
    copies,      \* what older reads of a row, cached or on their way there, may still answer
    changes,     \* changes of the rows so far (bound)
    held,        \* devices the user owned at some moment of the connection, or as a copy that
                 \* was there when it began says
    missed,      \* devices it did not own, in the same sense, or whose lookup failed
    toDevice,    \* bytes the broker has still to write
    tcp,         \* bytes it has written and the reader has not consumed
    received,    \* bytes handed to the client
    deliveries   \* where in received each frame ends

clientVars == <<client, hello, stream, out>>
connectVars == <<packet, lost, parsed>>
pumpVars == <<buf, taken, cuts, refused, acl>>
idleVars == <<timeout, quiet>>
ownerVars == <<owned, copies, changes, held, missed>>
downVars == <<toDevice, tcp, received, deliveries>>
vars == <<phase, clientVars, connectVars, pumpVars, idleVars, ownerVars, downVars>>

Verdicts == {"unknown", "yes", "no"}
Answers == {"yes", "no"}

TypeOK ==
    /\ phase \in Phases
    /\ hello \in Seq(Byte) /\ stream \in Seq(Byte) /\ out \in Seq(Byte)
    /\ packet \in Seq(Byte) /\ lost \in Seq(Byte) /\ parsed.keepAlive \in Byte
    /\ buf \in Seq(Byte) /\ taken \in Seq(Byte) /\ cuts \in Seq(Nat)
    /\ refused \in SUBSET Nat
    /\ acl \in [Devices -> Verdicts]
    /\ timeout \in Nat /\ quiet \in Nat
    /\ owned \in SUBSET Devices /\ held \in SUBSET Devices /\ missed \in SUBSET Devices
    /\ copies \in [Devices -> SUBSET Answers]
    /\ changes \in 0 .. MaxChanges
    /\ toDevice \in Seq(Byte) /\ tcp \in Seq(Byte)
    /\ received \in Seq(Byte) /\ deliveries \in Seq(Nat)

\* What a read of d's row says now, and what GetByDeviceID may say.
Row(d) == IF d \in owned THEN "yes" ELSE "no"
MayAnswer(d) == copies[d] \cup {Row(d)}

Init ==
    /\ client \in Clients
    /\ hello = ConnectPacket(client.connect)
    /\ phase = "connect"
    /\ stream = FlattenSeq(client.plan)
    /\ out = hello \o stream
    /\ buf = <<>> /\ packet = <<>> /\ lost = <<>> /\ parsed = Unparsed
    /\ taken = <<>> /\ cuts = <<>> /\ refused = {}
    /\ acl = [d \in Devices |-> "unknown"]
    /\ timeout = 0 /\ quiet = 0
    /\ IF client.how = "login"
       THEN owned \in SUBSET Devices /\ copies \in [Devices -> SUBSET Answers]
       ELSE owned = {} /\ copies = [d \in Devices |-> {}]
    /\ changes = 0
    /\ held = {d \in Devices : "yes" \in MayAnswer(d)}
    /\ missed = {d \in Devices : "no" \in MayAnswer(d)}
    /\ toDevice = FlattenSeq(client.down)
    /\ tcp = <<>> /\ received = <<>> /\ deliveries = <<>>

FirstOf(bytes, n) == SubSeq(bytes, 1, n)
RestOf(bytes, n) == SubSeq(bytes, n + 1, Len(bytes))

-----------------------------------------------------------------------------
(* The client: it sends its bytes in binary messages cut anywhere.         *)

Sends(n) ==
    /\ n \in 1 .. Len(out)
    /\ out' = RestOf(out, n)
    /\ UNCHANGED <<client, hello, stream>>

\* Everything is sent and taken: a PINGREQ follows.
Ping ==
    /\ phase = "bridged"
    /\ out = <<>> /\ buf = <<>>
    /\ Len(cuts) < Len(client.plan) + MaxPings
    /\ stream' = stream \o PingPacket
    /\ out' = PingPacket
    /\ UNCHANGED <<client, hello, phase, connectVars, pumpVars, idleVars, ownerVars, downVars>>

-----------------------------------------------------------------------------
(* HandleWebSocket up to the bridge.                                       *)

\* A message before CONNECT is complete; what the last one carries after it is cut off.
ReadConnect(n) ==
    LET bytes == buf \o FirstOf(out, n)
        total == TotalLength(bytes)
    IN  /\ phase = "connect"
        /\ client.patient => Len(buf) + n <= Len(hello)
        /\ Sends(n)
        /\ IF HasPacket(bytes)
           THEN /\ packet' = FirstOf(bytes, total)
                /\ lost' = RestOf(bytes, total)
                /\ buf' = <<>>
                /\ phase' = "credentials"
           ELSE /\ buf' = bytes
                /\ UNCHANGED <<packet, lost, phase>>
        /\ UNCHANGED <<parsed, taken, cuts, refused, acl, idleVars, ownerVars, downVars>>

\* connectReadTimeout runs out, or the read fails.
ConnectTimeout ==
    /\ phase = "connect"
    /\ phase' = "late"
    /\ UNCHANGED <<clientVars, connectVars, pumpVars, idleVars, ownerVars, downVars>>

\* The device a token was issued to: token byte Base + d is device d's.
TokenOf(username) == [i \in 1 .. Len(username) |-> Base + username[i]]

\* authenticateDevice.
AuthenticateDevice(c) ==
    /\ c.username # <<>> /\ c.password # <<>>
    /\ c.password = TokenOf(c.username)

\* The three ways, in the code's order of preference; only the last needs a CONNECT that parses.
Authenticated(c) ==
    IF client.how = "connect" THEN c.ok /\ AuthenticateDevice(c) ELSE client.genuine

Authenticate ==
    /\ phase = "credentials"
    /\ parsed' = ParseConnect(packet)
    /\ phase' = IF Authenticated(parsed') THEN "dial" ELSE "refused"
    /\ UNCHANGED <<clientVars, packet, lost, pumpVars, idleVars, ownerVars, downVars>>

\* (Mutant of IdleTimeout: the keepalive is taken for half seconds.)
IdleTimeoutTooShort(keepAlive) ==
    IF keepAlive = 0 THEN DefaultIdle ELSE IF keepAlive < MinIdle THEN MinIdle ELSE keepAlive

\* computeIdleTimeout: one and a half keepalives, in half seconds, within bounds.
IdleTimeout(keepAlive) ==
    CASE keepAlive = 0 -> IF ConfiguredIdle > 0 THEN ConfiguredIdle ELSE DefaultIdle
      [] keepAlive # 0 /\ 3 * keepAlive < MinIdle -> MinIdle
      [] keepAlive # 0 /\ 3 * keepAlive > MaxIdle -> MaxIdle
      [] OTHER -> 3 * keepAlive

\* The broker is dialled, CONNECT is forwarded and both pumps start.
Bridge ==
    /\ phase = "dial"
    /\ phase' = "bridged"
    /\ timeout' = IdleTimeout(parsed.keepAlive)
    /\ quiet' = 0
    /\ UNCHANGED <<clientVars, connectVars, pumpVars, ownerVars, downVars>>

BrokerUnreached ==
    /\ phase = "dial"
    /\ phase' = "unreached"
    /\ UNCHANGED <<clientVars, connectVars, pumpVars, idleVars, ownerVars, downVars>>

-----------------------------------------------------------------------------
(* The pump from the client to the broker.                                 *)

\* A binary message is read once no whole frame is left in buf.
ReadMessage(n) ==
    /\ phase = "bridged"
    /\ ~HasPacket(buf)
    /\ Sends(n)
    /\ buf' = buf \o FirstOf(out, n)
    /\ quiet' = 0
    /\ UNCHANGED <<phase, connectVars, taken, cuts, refused, acl, timeout, ownerVars, downVars>>

\* (Mutant of Verdict: a device found in conn.acl is taken for allowed.)
VerdictOnceAsked(d, says) == acl[d] # "unknown" \/ says[d] = "yes"

\* What the lookups of a frame come to; any of them may fail.
Lookups == {says \in [Devices -> Answers \cup {"error"}] :
               \A d \in Devices : says[d] \in MayAnswer(d) \cup {"error"}}

\* userOwnsDevice, and the verdict the connection keeps.
Owns(d, says) == says[d] = "yes"
Verdict(d, says) == IF acl[d] # "unknown" THEN acl[d] = "yes" ELSE Owns(d, says)

Addressable(topic, says) == topic \in Devices /\ Verdict(topic, says)

\* Lookups of userOwnsDevice for the topics looked at, kept in conn.acl; a row read is cached.
LookUp(looked, says) ==
    LET asked == {d \in looked \cap Devices : acl[d] = "unknown"}
    IN  /\ acl' = [d \in Devices |-> IF d \notin asked THEN acl[d]
                                     ELSE IF Owns(d, says) THEN "yes" ELSE "no"]
        /\ copies' = [d \in Devices |-> copies[d] \cup (IF d \in asked THEN {says[d]} \cap Answers
                                                                       ELSE {})]
        /\ missed' = missed \cup {d \in asked : says[d] = "error"}

\* The frame at the head of buf leaves it.
Take(frame) ==
    /\ buf' = RestOf(buf, Len(frame))
    /\ taken' = taken \o frame
    /\ cuts' = Append(cuts, Len(taken'))
    /\ UNCHANGED <<phase, clientVars, connectVars, idleVars, owned, changes, held, downVars>>

\* userFrameAllowed says yes: every topic is addressable, and the frame is written.
Forward(frame, topics, says) ==
    /\ \A i \in DOMAIN topics : Addressable(topics[i], says)
    /\ Take(frame)
    /\ LookUp(ToSet(topics), says)
    /\ refused' = refused

\* It says no at the first topic that is not; those behind it are not looked at.
Drop(frame, topics, stop, says) ==
    /\ ~Addressable(topics[stop], says)
    /\ \A i \in DOMAIN topics : i < stop => Addressable(topics[i], says)
    /\ Take(frame)
    /\ LookUp({topics[stop]} \cup {topics[i] : i \in {j \in DOMAIN topics : j < stop}}, says)
    /\ refused' = refused \cup {Len(cuts')}

TakeDeviceFrame ==
    /\ phase = "bridged" /\ client.how # "login"
    /\ HasPacket(buf)
    /\ Forward(FirstOf(buf, TotalLength(buf)), <<>>, [d \in Devices |-> "error"])

TakeUserFrame ==
    /\ phase = "bridged" /\ client.how = "login"
    /\ HasPacket(buf)
    /\ \E frame \in {FirstOf(buf, TotalLength(buf))}, says \in Lookups :
       \E topics \in {Topics(frame, parsed.level)} :
          \/ Forward(frame, topics, says)
          \/ \E stop \in DOMAIN topics : Drop(frame, topics, stop, says)

\* A text message is skipped, and counts as a sign of life.
TextMessage ==
    /\ phase = "bridged"
    /\ ~HasPacket(buf)
    /\ quiet' = 0
    /\ UNCHANGED <<phase, clientVars, connectVars, pumpVars, timeout, ownerVars, downVars>>

\* Half a second passes while the pump waits; a lively client does not let a keepalive pass.
Tick ==
    /\ phase = "bridged"
    /\ ~HasPacket(buf)
    /\ quiet < timeout
    /\ client.lively => quiet < 2 * client.connect.keepAlive
    /\ quiet' = quiet + 1
    /\ UNCHANGED <<phase, clientVars, connectVars, pumpVars, timeout, ownerVars, downVars>>

\* The read deadline has passed: conn.close().
Idle ==
    /\ phase = "bridged"
    /\ ~HasPacket(buf)
    /\ quiet = timeout
    /\ phase' = "idle"
    /\ UNCHANGED <<clientVars, connectVars, pumpVars, idleVars, ownerVars, downVars>>

\* A read or a write fails on either side, or the reader cannot parse a length: conn.close().
Break ==
    /\ phase = "bridged"
    /\ phase' = "broken"
    /\ UNCHANGED <<clientVars, connectVars, pumpVars, idleVars, ownerVars, downVars>>

-----------------------------------------------------------------------------
(* The pump from the broker to the client.                                 *)

BrokerWrites(n) ==
    /\ phase = "bridged"
    /\ n \in 1 .. Len(toDevice)
    /\ tcp' = tcp \o FirstOf(toDevice, n)
    /\ toDevice' = RestOf(toDevice, n)
    /\ UNCHANGED <<phase, clientVars, connectVars, pumpVars, idleVars, ownerVars,
                   received, deliveries>>

\* (Mutant of ReadFrame: a buffered reader of its own for every frame.)
ReadFrameAfresh ==
    /\ phase = "bridged"
    /\ ReaderHasFrame(tcp)
    /\ received' = received \o FirstOf(tcp, ReaderLength(tcp))
    /\ deliveries' = Append(deliveries, Len(received'))
    /\ tcp' = <<>>
    /\ UNCHANGED <<phase, clientVars, connectVars, pumpVars, idleVars, ownerVars, toDevice>>

\* ReadFrame returns and the frame goes out as one message.
ReadFrame ==
    /\ phase = "bridged"
    /\ ReaderHasFrame(tcp)
    /\ received' = received \o FirstOf(tcp, ReaderLength(tcp))
    /\ deliveries' = Append(deliveries, Len(received'))
    /\ tcp' = RestOf(tcp, ReaderLength(tcp))
    /\ UNCHANGED <<phase, clientVars, connectVars, pumpVars, idleVars, ownerVars, toDevice>>

-----------------------------------------------------------------------------
(* The devices' rows, and the two caches GetByDeviceID answers from.        *)

\* The user registers a device, or its row is deleted; the owner of a row never changes.
RowChanges(d) ==
    /\ client.how = "login"
    /\ changes < MaxChanges
    /\ changes' = changes + 1
    /\ owned' = IF d \in owned THEN owned \ {d} ELSE owned \cup {d}
    /\ held' = held \cup owned'
    /\ missed' = missed \cup (Devices \ owned')
    /\ UNCHANGED <<phase, clientVars, connectVars, pumpVars, idleVars, copies, downVars>>

\* Somebody else reads the row, and caches it now or later.
CopyRow(d) ==
    /\ client.how = "login"
    /\ copies' = [copies EXCEPT ![d] = @ \cup {Row(d)}]
    /\ UNCHANGED <<phase, clientVars, connectVars, pumpVars, idleVars, owned, changes, held,
                   missed, downVars>>

\* The last copy that says so expires or is evicted.
DropCopy(d, answer) ==
    /\ copies' = [copies EXCEPT ![d] = @ \ {answer}]
    /\ UNCHANGED <<phase, clientVars, connectVars, pumpVars, idleVars, owned, changes, held,
                   missed, downVars>>

Receives == \E n \in 1 .. Len(out) : ReadConnect(n) \/ ReadMessage(n)
Sending == \E n \in 1 .. Len(toDevice) : BrokerWrites(n)
Pumps == TakeDeviceFrame \/ TakeUserFrame
Elsewhere == \E d \in Devices : \/ RowChanges(d) \/ CopyRow(d)
                               \/ \E answer \in copies[d] : DropCopy(d, answer)

Next ==
    \/ Receives \/ Ping
    \/ ConnectTimeout \/ Authenticate \/ Bridge \/ BrokerUnreached
    \/ Pumps
    \/ TextMessage \/ Tick \/ Idle \/ Break
    \/ Sending \/ ReadFrame
    \/ Elsewhere

Spec == Init /\ [][Next]_vars

\* The client and the broker go on sending, the two pumps go on reading.
FairSpec ==
    /\ Spec
    /\ WF_vars(Receives) /\ WF_vars(Pumps)
    /\ WF_vars(Sending) /\ WF_vars(ReadFrame)

-----------------------------------------------------------------------------
(* Properties.                                                             *)

\* What of the CONNECT the client sent the gateway should see.
Meant(c) == [ok |-> TRUE, username |-> c.username, password |-> c.password,
             level |-> c.level, keepAlive |-> c.keepAlive]

\* The length of the will's properties is read as one byte; a longer one is out of reach.
Understandable(c) == c.level = V5 /\ c.will => Len(c.willProperties) < Base

(* However the CONNECT was cut into messages, the packet forwarded to the broker is the one
   the client sent, and the credentials, the level and the keepalive the gateway acts on are
   those the client encoded (HandleWebSocket, parseConnectCredentials). *)
ConnectUnderstood ==
    /\ packet # <<>> => packet = hello
    /\ packet # <<>> /\ phase # "credentials" /\ Understandable(client.connect) =>
           parsed = Meant(client.connect)

(* No byte is duplicated, reordered or dropped on the way to the broker, but for those that
   came in the message that completed CONNECT; nor on the way to the client. *)
BytesConserved ==
    /\ packet \o lost \o taken \o buf \o out = hello \o stream
    /\ received \o tcp \o toDevice = FlattenSeq(client.down)

\* Where the i-th frame of a list of frames ends, with only PINGREQs after the list.
EndOf(frames, i) ==
    IF i <= Len(frames) THEN Len(FlattenSeq(SubSeq(frames, 1, i)))
    ELSE Len(FlattenSeq(frames)) + (i - Len(frames)) * Len(PingPacket)

(* The pumps cut both streams exactly where the sender's frames end (mqttPacketTotalLength,
   ReadFrame), unless the client lost bytes by not waiting for CONNACK. *)
CutAtFrames ==
    /\ lost = <<>> => \A i \in 1 .. Len(cuts) : cuts[i] = EndOf(client.plan, i)
    /\ \A i \in 1 .. Len(deliveries) : deliveries[i] = EndOf(client.down, i)

\* The i-th frame taken.
Frame(i) == SubSeq(taken, (IF i = 1 THEN 0 ELSE cuts[i - 1]) + 1, cuts[i])

\* The frame is the encoding of a PUBLISH to this topic, or of a SUBSCRIBE to these topics.
Names(frame, level, topics) ==
    \/ Len(topics) = 1 /\ frame = PublishPacket(topics)
    \/ frame = SubscribePacket(level, topics)

(* A frame a user's client encoded goes to the broker only if each topic in it names a device
   the user owned at some moment of the connection, or as a copy of the row that was already
   cached when it began says; it is dropped only if one of them does not name a device, or one
   the user did not own in that sense or whose lookup failed (userFrameAllowed, the verdicts
   kept in conn.acl, and the caches behind userOwnsDevice).  A device's frames are never
   dropped.  The frames are those of the client's own protocol level, and the CONNECT one the
   gateway reads right (ConnectUnderstood). *)
OnlyOwnTopics ==
    \A i \in 1 .. Len(cuts) :
        /\ i \in refused => client.how = "login"
        /\ client.how = "login" /\ Understandable(client.connect) =>
              \A topics \in TopicLists : Names(Frame(i), client.connect.level, topics) =>
                  IF i \in refused THEN \E d \in ToSet(topics) : d \in missed \/ d \notin Devices
                                   ELSE ToSet(topics) \subseteq held

(* A client that sends something every keepalive is not taken for dead, as long as the
   keepalive is below the gateway's upper bound (computeIdleTimeout). *)
LivelyStaysConnected ==
    phase = "idle" /\ client.lively =>
        \/ client.connect.keepAlive = 0
        \/ 2 * client.connect.keepAlive >= MaxIdle
        \/ ~Understandable(client.connect)

(* Whatever a patient client sends over a bridge reaches the pump's decision, and whatever the
   broker sends reaches the client, unless the connection ends. *)
FramesArrive ==
    (phase = "bridged" /\ lost = <<>>) ~>
        \/ phase # "bridged"
        \/ Len(taken) = Len(stream) /\ toDevice = <<>> /\ tcp = <<>>

=============================================================================
