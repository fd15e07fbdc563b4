------------------------------ MODULE MqttCodec ------------------------------
(***************************************************************************)
(* The MQTT frame tools of                                                 *)
(* internal/controller/mqtt_gateway_controller.go, byte by byte, next to   *)
(* the encoder of the protocol they must invert.                           *)
(*                                                                         *)
(* The numbers are scaled down: a byte is below 2 * Base, it carries a     *)
(* digit below Base and says by its upper half that another digit follows  *)
(* (Base is 128 in the code), and a variable integer has at most MaxDigits *)
(* of them (4).  The two-byte big-endian lengths and integers of the       *)
(* protocol are one byte wide, the type of a packet is its whole first     *)
(* byte, and a topic is one byte, the device it names.                     *)
(***************************************************************************)
EXTENDS Integers, Sequences, FiniteSetsExt, SequencesExt

CONSTANTS Base, MaxDigits

ASSUME CodecAssumptions ==
    /\ Base \in Nat /\ Base > 3       \* the types of the packets are bytes, and the shortest have one digit
    /\ MaxDigits \in Nat \ {0}

Byte == 0 .. 2 * Base - 1

CONNECT == 1
PUBLISH == 2
SUBSCRIBE == 3
PINGREQ == 4

V5 == 5       \* the protocol level of MQTT 5.0; MQTT 3.1.1 is 4

\* The three bits of the CONNECT flags the code looks at.
Will(flags) == flags % 2 = 1
HasPassword(flags) == (flags \div 2) % 2 = 1
HasUsername(flags) == (flags \div 4) % 2 = 1

-----------------------------------------------------------------------------
(* The encoder of the protocol, the reference for what follows.  A CONNECT *)
(* is a record; an empty user name or password is one that is left out.    *)

\* What is left of n after i digits, for every i.
Rest(n) ==
    LET rest[i \in 0 .. MaxDigits] == IF i = 0 THEN n ELSE rest[i - 1] \div Base
    IN  rest

\* n has no more than MaxDigits digits.
Encodable(n) == \E k \in 1 .. MaxDigits : Rest(n)[k - 1] < Base

EncodeVarint(n) ==
    LET digits == Min({k \in 1 .. MaxDigits : Rest(n)[k - 1] < Base})
    IN  [i \in 1 .. digits |-> (Rest(n)[i - 1] % Base) + (IF i < digits THEN Base ELSE 0)]

Field(text) == <<Len(text)>> \o text
Optional(text) == IF text = <<>> THEN <<>> ELSE Field(text)
Block(bytes) == EncodeVarint(Len(bytes)) \o bytes

Packet(type, body) == <<type>> \o Block(body)

\* These bytes are one whole packet.
IsPacket(bytes) ==
    /\ bytes \in Seq(Byte)
    /\ \E start \in 3 .. Len(bytes) + 1 :
          LET body == SubSeq(bytes, start, Len(bytes))
          IN  bytes[1] # 0 /\ Encodable(Len(body)) /\ bytes = Packet(bytes[1], body)

Flags(c) == (IF c.will THEN 1 ELSE 0) + (IF c.password # <<>> THEN 2 ELSE 0)
            + (IF c.username # <<>> THEN 4 ELSE 0)

Properties(level, bytes) == IF level = V5 THEN Block(bytes) ELSE <<>>

WillFields(c) ==
    IF c.will THEN Properties(c.level, c.willProperties) \o Field(<<1>>) \o Field(<<>>) ELSE <<>>

ConnectBody(c) ==
    Field(<<>>) \o <<c.level, Flags(c), c.keepAlive>> \o Properties(c.level, c.properties)
    \o Field(c.clientID) \o WillFields(c) \o Optional(c.username) \o Optional(c.password)

ConnectPacket(c) == Packet(CONNECT, ConnectBody(c))

\* No field of c is longer than the protocol can say.
WellFormed(c) ==
    /\ c.level \in Byte /\ c.keepAlive \in Byte /\ Flags(c) \in Byte /\ c.will \in BOOLEAN
    /\ \A bytes \in {c.properties, c.willProperties, c.clientID, c.username, c.password} :
          bytes \in Seq(Byte)
    /\ \A text \in {c.clientID, c.username, c.password} : Len(text) \in Byte
    /\ \A bytes \in {c.properties, c.willProperties, ConnectBody(c)} : Encodable(Len(bytes))

PublishPacket(topic) == Packet(PUBLISH, Field(topic) \o <<0>>)

\* Every topic with its length before it and the quality of service it asks for behind it.
Filters(topics) == [j \in 1 .. 3 * Len(topics) |-> CASE j % 3 = 1 -> 1
                                                     [] j % 3 = 2 -> topics[(j + 1) \div 3]
                                                     [] OTHER     -> 0]
SubscribeBody(level, topics) ==
    <<1>> \o Properties(level, <<>>) \o Filters(topics)
SubscribePacket(level, topics) == Packet(SUBSCRIBE, SubscribeBody(level, topics))
PingPacket == Packet(PINGREQ, <<>>)

-----------------------------------------------------------------------------
(* The code's side.  A position outside the packet stands for "no valid    *)
(* position": every read there fails, as the code's bounds checks do.      *)

Nowhere == 0
Outside == [ok |-> FALSE, value |-> 0, next |-> Nowhere]

\* The number whose digits these bytes carry, the lowest first.
Number(bytes) ==
    LET value[i \in 0 .. Len(bytes)] ==  \* of the last i bytes
            IF i = 0 THEN 0 ELSE (bytes[Len(bytes) + 1 - i] % Base) + Base * value[i - 1]
    IN  value[Len(bytes)]

\* mqttVarint: the digits from start on, up to the first byte without the continuation bit.
Varint(buf, start) ==
    LET ends == {i \in start .. start + MaxDigits - 1 :
                    i \in 1 .. Len(buf) /\ buf[i] < Base}
        last == Min(ends)
    IN  IF start = Nowhere \/ ends = {} THEN Outside
        ELSE [ok |-> TRUE, value |-> Number(SubSeq(buf, start, last)), next |-> last + 1]

\* (Mutant of SkipProperties: the length is read as one byte, as the will's is.)
SkipPropertiesShort(buf, pos) == IF pos \in 1 .. Len(buf) THEN pos + 1 + buf[pos] ELSE Nowhere

\* mqttSkipProperties.
SkipProperties(buf, pos) ==
    LET length == Varint(buf, pos)
    IN  IF length.ok /\ length.next + length.value <= Len(buf) + 1
        THEN length.next + length.value ELSE Nowhere

\* Past a field, its length included; where the field ends is not checked.
Skip(buf, pos) == IF pos \in 1 .. Len(buf) THEN pos + 1 + buf[pos] ELSE Nowhere

\* The text of a field that must lie inside the packet.
Readable(buf, pos) == pos \in 1 .. Len(buf) /\ pos + buf[pos] <= Len(buf)
Text(buf, pos) == SubSeq(buf, pos + 1, pos + buf[pos])

\* (Mutant of TotalLength: the byte of the type is not counted.)
TotalLengthShort(buf) ==
    LET remaining == Varint(buf, 2)
    IN  IF Len(buf) < 2 \/ buf[1] = 0 \/ ~remaining.ok THEN 0
        ELSE remaining.next - 2 + remaining.value

\* mqttPacketTotalLength: bytes of the packet at the head of buf, 0 when not known yet.
TotalLength(buf) ==
    LET remaining == Varint(buf, 2)
    IN  IF Len(buf) < 2 \/ buf[1] = 0 \/ ~remaining.ok THEN 0
        ELSE remaining.next - 1 + remaining.value

\* A whole packet is at the head of buf.
HasPacket(buf) == TotalLength(buf) \in 1 .. Len(buf)

\* mqttFrameReader.ReadFrame: the same digits, read one by one; the type is not looked at.
ReaderLength(buf) == LET remaining == Varint(buf, 2)
                     IN  IF remaining.ok THEN remaining.next - 1 + remaining.value ELSE 0

\* (Mutant of ReaderHasFrame: off by one.)
ReaderHasFrameAndMore(buf) == ReaderLength(buf) \in 1 .. Len(buf) - 1

\* A whole frame can be read.
ReaderHasFrame(buf) == ReaderLength(buf) \in 1 .. Len(buf)

Unparsed == [ok |-> FALSE, username |-> <<>>, password |-> <<>>, level |-> 0, keepAlive |-> 0]

\* parseConnectCredentials: the cursor goes past the name, the fixed part, the properties,
\* the client identifier and the will (whose properties' length is read as one byte).
ParseConnect(packet) ==
    LET fixed == Skip(packet, Varint(packet, 2).next)
        level == packet[fixed]
        flags == packet[fixed + 1]
        id    == IF level = V5 THEN SkipProperties(packet, fixed + 3) ELSE fixed + 3
        will  == Skip(packet, id)
        topic == IF level = V5 THEN Skip(packet, will) ELSE will
        user  == IF Will(flags) THEN Skip(packet, Skip(packet, topic)) ELSE will
        pass  == IF HasUsername(flags) THEN Skip(packet, user) ELSE user
        whole == /\ id \in 1 .. Len(packet)
                 /\ user # Nowhere
                 /\ HasUsername(flags) => Readable(packet, user)
                 /\ HasPassword(flags) => Readable(packet, pass)
    IN  IF packet[1] = CONNECT /\ fixed # Nowhere /\ fixed + 2 <= Len(packet) /\ whole
        THEN [ok        |-> TRUE,
              username  |-> IF HasUsername(flags) THEN Text(packet, user) ELSE <<>>,
              password  |-> IF HasPassword(flags) THEN Text(packet, pass) ELSE <<>>,
              level     |-> level,
              keepAlive |-> packet[fixed + 2]]
        ELSE Unparsed

\* parsePublishTopic and parseSubscribeTopics: the devices named; none when it does not parse.
PublishTopics(frame) ==
    LET pos == Varint(frame, 2).next
    IN  IF pos # Nowhere /\ Readable(frame, pos) /\ frame[pos] > 0
        THEN <<frame[pos + 1]>> ELSE <<>>

SubscribeTopics(frame, level) ==
    LET pos   == Varint(frame, 2).next + 1
        first == IF level = V5 THEN SkipProperties(frame, pos) ELSE pos
        count == (Len(frame) + 1 - first) \div 3
    IN  IF pos = 1 \/ first = Nowhere \/ (Len(frame) + 1 - first) % 3 # 0 THEN <<>>
        ELSE [i \in 1 .. count |-> frame[first + 3 * i - 2]]

Topics(frame, level) ==
    CASE frame[1] = PUBLISH -> PublishTopics(frame)
      [] frame[1] = SUBSCRIBE -> SubscribeTopics(frame, level)
      [] OTHER -> <<>>

=============================================================================
