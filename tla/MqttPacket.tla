----------------------------- MODULE MqttPacket -----------------------------
(***************************************************************************)
(* The packets of core_mqtt_serializer.c, and the vectors in which         *)
(* core_mqtt.c hands them to the transport without a copy.                 *)
(*                                                                         *)
(* Packets are sequences of bytes.  A field that may be NULL is a sequence *)
(* of at most one value.  Sizes are also computed from lengths alone, so   *)
(* that the largest packets can be asked about.                            *)
(***************************************************************************)
EXTENDS Integers, Sequences

CONSTANT MQTT_SUB_UNSUB_MAX_VECTORS
ASSUME VectorsAssumption == MQTT_SUB_UNSUB_MAX_VECTORS \in Nat /\ MQTT_SUB_UNSUB_MAX_VECTORS >= 3

Type == [CONNECT |-> 16, CONNACK |-> 32, PUBLISH |-> 48, PUBACK |-> 64, PUBREC |-> 80, PUBREL |-> 98,
         PUBCOMP |-> 112, SUBSCRIBE |-> 130, SUBACK |-> 144, UNSUBSCRIBE |-> 162, UNSUBACK |-> 176,
         PINGREQ |-> 192, PINGRESP |-> 208, DISCONNECT |-> 224]
MQTT_MAX_REMAINING_LENGTH == 268435455

Bit(position, set) == IF set THEN 2^position ELSE 0
CheckBit(x, position) == (x \div 2^position) % 2 = 1
UINT16(n) == <<n \div 256, n % 256>>
UINT16_DECODE(bytes) == bytes[1] * 256 + bytes[2]
From(bytes, i) == SubSeq(bytes, i, Len(bytes))

\* The parts one after the other, and the sum of the numbers: loops over a
\* list, as functions of how far they are.
Concat(parts) ==
  LET upTo[k \in 0..Len(parts)] == IF k = 0 THEN <<>> ELSE upTo[k - 1] \o parts[k] IN upTo[Len(parts)]
Total(numbers) ==
  LET upTo[k \in 0..Len(numbers)] == IF k = 0 THEN 0 ELSE upTo[k - 1] + numbers[k] IN upTo[Len(numbers)]

-----------------------------------------------------------------------------
\* Lengths and strings.

remainingLengthEncodedSize(length) ==
  IF length < 128 THEN 1 ELSE IF length < 16384 THEN 2 ELSE IF length < 2097152 THEN 3 ELSE 4

\* The weight of each byte of a length: five of them hold any 32 bits.
Weight == <<1, 128, 16384, 2097152, 268435456>>
\* A byte is written while something is left, and the first one always; the
\* high bit says that there is more.
encodeRemainingLength(length) ==
  LET left(i) == IF i > 5 THEN 0 ELSE length \div Weight[i]
  IN [i \in {j \in 1..5 : j = 1 \/ left(j) > 0} |-> (left(i) % 128) + IF left(i + 1) > 0 THEN 128 ELSE 0]
encodeString(string) == UINT16(Len(string)) \o string

FixedHeader(type, remainingLength) == <<type>> \o encodeRemainingLength(remainingLength)

Refused == [status |-> "MQTTBadParameter"]
Sizes(remaining) == [status |-> "MQTTSuccess", remaining |-> remaining,
                     packet |-> remaining + 1 + remainingLengthEncodedSize(remaining)]
\* Into a buffer of that size, if all of the packet fits.
Serialize(bytes, packetSize, bufferSize) ==
  IF packetSize > bufferSize THEN [status |-> "MQTTNoMemory"] ELSE [status |-> "MQTTSuccess", bytes |-> bytes]

-----------------------------------------------------------------------------
\* PUBLISH: p is [qos, retain, dup, topic, payload].

calculatePublishPacketSize(topicLength, payloadLength, qos) ==
  LET header == topicLength + 2 + IF qos > 0 THEN 2 ELSE 0
      limit == MQTT_MAX_REMAINING_LENGTH - header - 1
  IN IF \/ payloadLength > limit
        \/ payloadLength > limit - remainingLengthEncodedSize(header + payloadLength)
       THEN Refused ELSE Sizes(header + payloadLength)
MQTT_GetPublishPacketSize(topicLength, payloadLength, qos) ==
  IF topicLength = 0 THEN Refused ELSE calculatePublishPacketSize(topicLength, payloadLength, qos)

PublishFlags(p) == Type.PUBLISH + Bit(1, p.qos = 1) + Bit(2, p.qos = 2) + Bit(0, p.retain) + Bit(3, p.dup)
PacketId(p, packetId) == IF p.qos > 0 THEN UINT16(packetId) ELSE <<>>

MQTT_SerializePublishHeaderWithoutTopic(p, remainingLength) ==
  FixedHeader(PublishFlags(p), remainingLength) \o UINT16(Len(p.topic))
serializePublishCommon(p, remainingLength, packetId, serializePayload) ==
  FixedHeader(PublishFlags(p), remainingLength) \o encodeString(p.topic) \o PacketId(p, packetId)
    \o IF serializePayload THEN p.payload ELSE <<>>

PublishRefused(p, packetId) == p.topic = <<>> \/ (p.qos # 0 /\ packetId = 0) \/ (p.dup /\ p.qos = 0)
MQTT_SerializePublish(p, packetId, remainingLength, bufferSize) ==
  IF PublishRefused(p, packetId) THEN Refused
  ELSE Serialize(serializePublishCommon(p, remainingLength, packetId, TRUE), Sizes(remainingLength).packet, bufferSize)
MQTT_SerializePublishHeader(p, packetId, remainingLength, bufferSize) ==
  IF PublishRefused(p, packetId) THEN Refused
  ELSE Serialize(serializePublishCommon(p, remainingLength, packetId, FALSE),
                 Sizes(remainingLength).packet - Len(p.payload), bufferSize)

validatePublishParams(p, packetId, records) == ~(p.qos # 0 /\ packetId = 0) /\ (p.qos > 0 => records)
\* What MQTT_Publish hands to the transport.
sendPublishWithoutCopy(p, header, packetId) ==
  <<header, p.topic>> \o (IF p.qos > 0 THEN <<UINT16(packetId)>> ELSE <<>>)
    \o IF p.payload # <<>> THEN <<p.payload>> ELSE <<>>

-----------------------------------------------------------------------------
\* CONNECT: c is [cleanSession, keepAlive, clientId, will, user, password],
\* and a will is a publish.

MQTT_SerializeConnectFixedHeader(c, remainingLength) ==
  LET will(Test(_)) == c.will # <<>> /\ Test(c.will[1])
      flags == Bit(1, c.cleanSession) + Bit(7, c.user # <<>>) + Bit(6, c.password # <<>>)
               + Bit(2, c.will # <<>>) + Bit(3, will(LAMBDA w : w.qos = 1)) + Bit(4, will(LAMBDA w : w.qos = 2))
               + Bit(5, will(LAMBDA w : w.retain))
  IN FixedHeader(Type.CONNECT, remainingLength) \o encodeString(<<77, 81, 84, 84>>) \o <<4, flags>> \o UINT16(c.keepAlive)

\* The strings of the payload, in their order.
ConnectStrings(c) == <<c.clientId>> \o (IF c.will = <<>> THEN <<>> ELSE <<c.will[1].topic, c.will[1].payload>>)
                       \o c.user \o c.password
serializeConnectPacket(c, remainingLength) ==
  MQTT_SerializeConnectFixedHeader(c, remainingLength)
    \o Concat([i \in DOMAIN ConnectStrings(c) |-> encodeString(ConnectStrings(c)[i])])

MQTT_GetConnectPacketSize(c) ==
  IF c.clientId = <<>> \/ (c.will # <<>> /\ Len(c.will[1].payload) > 65535) THEN Refused
  ELSE Sizes(10 + Total([i \in DOMAIN ConnectStrings(c) |-> Len(ConnectStrings(c)[i]) + 2]))
MQTT_SerializeConnect(c, remainingLength, bufferSize) ==
  Serialize(serializeConnectPacket(c, remainingLength), Sizes(remainingLength).packet, bufferSize)

addEncodedStringToVector(string) == IF string = <<>> THEN <<UINT16(0)>> ELSE <<UINT16(Len(string)), string>>
sendConnectWithoutCopy(c, remainingLength) ==
  <<MQTT_SerializeConnectFixedHeader(c, remainingLength)>>
    \o Concat([i \in DOMAIN ConnectStrings(c) |-> addEncodedStringToVector(ConnectStrings(c)[i])])

-----------------------------------------------------------------------------
\* SUBSCRIBE and UNSUBSCRIBE: a subscription is [filter, qos].

QosByte(type, subscription) == IF type = "SUBSCRIBE" THEN <<subscription.qos>> ELSE <<>>

calculateSubscriptionPacketSize(list, type) ==
  LET size == 2 + Total([i \in DOMAIN list |-> Len(list[i].filter) + 2 + Len(QosByte(type, list[i]))])
  IN IF (\E i \in DOMAIN list : list[i].filter = <<>>) \/ size > MQTT_MAX_REMAINING_LENGTH THEN Refused ELSE Sizes(size)
MQTT_GetSubscribePacketSize(list) == IF list = <<>> THEN Refused ELSE calculateSubscriptionPacketSize(list, "SUBSCRIBE")
MQTT_GetUnsubscribePacketSize(list) == IF list = <<>> THEN Refused ELSE calculateSubscriptionPacketSize(list, "UNSUBSCRIBE")

MQTT_SerializeSubscribeHeader(remainingLength, packetId) == FixedHeader(Type.SUBSCRIBE, remainingLength) \o UINT16(packetId)
MQTT_SerializeUnsubscribeHeader(remainingLength, packetId) == FixedHeader(Type.UNSUBSCRIBE, remainingLength) \o UINT16(packetId)

validateSubscriptionSerializeParams(list, packetId) == list # <<>> /\ packetId # 0
Topics(list, type) == Concat([i \in DOMAIN list |-> encodeString(list[i].filter) \o QosByte(type, list[i])])
MQTT_SerializeSubscribe(list, packetId, remainingLength, bufferSize) ==
  IF ~validateSubscriptionSerializeParams(list, packetId) THEN Refused
  ELSE Serialize(MQTT_SerializeSubscribeHeader(remainingLength, packetId) \o Topics(list, "SUBSCRIBE"),
                 Sizes(remainingLength).packet, bufferSize)
MQTT_SerializeUnsubscribe(list, packetId, remainingLength, bufferSize) ==
  IF ~validateSubscriptionSerializeParams(list, packetId) THEN Refused
  ELSE Serialize(MQTT_SerializeUnsubscribeHeader(remainingLength, packetId) \o Topics(list, "UNSUBSCRIBE"),
                 Sizes(remainingLength).packet, bufferSize)

\* Without records for QoS > 0 the loop tests the first subscription each time.
validateSubscribeUnsubscribeParams(list, packetId, records) ==
  list # <<>> /\ packetId # 0 /\ (~records => list[1].qos = 0)

\* The calls of the transport, each with its vectors: a topic is added while
\* no more than room vectors are filled, or else goes to the next call.
Batches(vectors, topics, room) ==
  LET after[k \in 0..Len(topics)] ==
        IF k = 0 THEN [sent |-> <<>>, filled |-> vectors]
        ELSE LET before == after[k - 1] IN
             IF Len(before.filled) <= room THEN [sent |-> before.sent, filled |-> before.filled \o topics[k]]
             ELSE [sent |-> Append(before.sent, before.filled), filled |-> topics[k]]
  IN Append(after[Len(topics)].sent, after[Len(topics)].filled)
SubscribeVectors(list) == [i \in DOMAIN list |-> addEncodedStringToVector(list[i].filter) \o <<<<list[i].qos>>>>]
\* Mutant: a topic is added while any vector is free.
sendSubscribeAnyVector(list, packetId, remainingLength) ==
  Batches(<<MQTT_SerializeSubscribeHeader(remainingLength, packetId)>>, SubscribeVectors(list), MQTT_SUB_UNSUB_MAX_VECTORS - 1)
sendSubscribeWithoutCopy(list, packetId, remainingLength) ==
  Batches(<<MQTT_SerializeSubscribeHeader(remainingLength, packetId)>>, SubscribeVectors(list), MQTT_SUB_UNSUB_MAX_VECTORS - 3)
sendUnsubscribeWithoutCopy(list, packetId, remainingLength) ==
  Batches(<<MQTT_SerializeUnsubscribeHeader(remainingLength, packetId)>>,
          [i \in DOMAIN list |-> addEncodedStringToVector(list[i].filter)], MQTT_SUB_UNSUB_MAX_VECTORS - 2)

\* The batches of MQTT_Subscribe and MQTT_Unsubscribe, if they send any.
Requested(list, packetId, records, size, Send(_, _, _)) ==
  IF ~validateSubscribeUnsubscribeParams(list, packetId, records) \/ size.status # "MQTTSuccess" THEN <<>>
  ELSE Send(list, packetId, size.remaining)
MQTT_Subscribe(list, packetId, records) ==
  Requested(list, packetId, records, MQTT_GetSubscribePacketSize(list), sendSubscribeWithoutCopy)
MQTT_Unsubscribe(list, packetId, records) ==
  Requested(list, packetId, records, MQTT_GetUnsubscribePacketSize(list), sendUnsubscribeWithoutCopy)

-----------------------------------------------------------------------------
\* The small packets.

MQTT_SerializeAck(type, packetId, bufferSize) ==
  IF bufferSize < 4 THEN [status |-> "MQTTNoMemory"]
  ELSE IF packetId = 0 \/ type \notin {Type.PUBACK, Type.PUBREC, Type.PUBREL, Type.PUBCOMP} THEN Refused
  ELSE [status |-> "MQTTSuccess", bytes |-> <<type, 2>> \o UINT16(packetId)]
MQTT_SerializePingreq(bufferSize) == Serialize(<<Type.PINGREQ, 0>>, 2, bufferSize)
MQTT_SerializeDisconnect(bufferSize) == Serialize(<<Type.DISCONNECT, 0>>, 2, bufferSize)

-----------------------------------------------------------------------------
\* Incoming: the type and the length, from the bytes there are.

BadResponse == [status |-> "MQTTBadResponse"]

\* The loop of the two decoders goes on over the bytes with the high bit, four
\* at most; what is missing has the status given.
DecodeLength(bytes, missing) ==
  LET more == CHOOSE n \in 0..4 : /\ n <= Len(bytes) /\ \A i \in 1..n : bytes[i] >= 128
                                  /\ n = 4 \/ n = Len(bytes) \/ bytes[n + 1] < 128
      length == Total([i \in 1 .. more + 1 |-> (bytes[i] % 128) * Weight[i]])
  IN IF more = 4 THEN BadResponse
     ELSE IF more = Len(bytes) THEN [status |-> missing]
     ELSE IF more + 1 # remainingLengthEncodedSize(length) THEN BadResponse
     ELSE [status |-> "MQTTSuccess", remainingLength |-> length, headerLength |-> more + 2]
getRemainingLength(bytes) == DecodeLength(bytes, "MQTTBadResponse")
processRemainingLength(bytes) == DecodeLength(bytes, "MQTTNeedMoreBytes")

incomingPacketValid(type) ==
  LET kind == (type \div 16) * 16 IN
  \/ kind \in {Type.CONNACK, Type.PUBLISH, Type.PUBACK, Type.PUBREC, Type.PUBCOMP, Type.SUBACK, Type.UNSUBACK, Type.PINGRESP}
  \/ kind = 96 /\ CheckBit(type, 1)

Incoming(bytes, Decode(_)) ==
  IF bytes = <<>> THEN [status |-> "MQTTNoDataAvailable"]
  ELSE IF incomingPacketValid(bytes[1]) THEN Decode(Tail(bytes)) ELSE BadResponse
MQTT_GetIncomingPacketTypeAndLength(bytes) == Incoming(bytes, getRemainingLength)
MQTT_ProcessIncomingPacketTypeAndLength(bytes) == Incoming(bytes, processRemainingLength)

-----------------------------------------------------------------------------
\* Incoming: the packet, from its type and the bytes after its header.

checkPublishRemainingLength(remainingLength, qos, qos0Minimum) ==
  remainingLength >= qos0Minimum + IF qos = 0 THEN 0 ELSE 2
processPublishFlags(flags) == ~(CheckBit(flags, 1) /\ CheckBit(flags, 2))

deserializePublish(type, data) ==
  LET qos == (type \div 2) % 4
      topicLength == UINT16_DECODE(data)
      rest == From(data, topicLength + 3)
      payload == IF qos = 0 THEN rest ELSE From(rest, 3)
      packetId == IF qos = 0 THEN 0 ELSE UINT16_DECODE(rest)
  IN IF ~processPublishFlags(type) THEN BadResponse
     ELSE IF ~checkPublishRemainingLength(Len(data), qos, 3) THEN BadResponse
     ELSE IF ~checkPublishRemainingLength(Len(data), qos, topicLength + 2) THEN BadResponse
     ELSE IF qos > 0 /\ packetId = 0 THEN BadResponse
     ELSE [status |-> "MQTTSuccess", packetId |-> packetId,
           publish |-> [qos |-> qos, retain |-> CheckBit(type, 0), dup |-> CheckBit(type, 3),
                        topic |-> SubSeq(data, 3, topicLength + 2), payload |-> payload]]
MQTT_DeserializePublish(type, data) == IF type \div 16 # 3 THEN Refused ELSE deserializePublish(type, data)

\* The session is present for the first bit of a CONNACK that goes with no error.
deserializeConnack(data) ==
  IF \/ Len(data) # 2 \/ data[1] \notin {0, 1} \/ (data[1] = 1 /\ data[2] # 0) \/ data[2] > 5 THEN BadResponse
  ELSE [status |-> IF data[2] > 0 THEN "MQTTServerRefused" ELSE "MQTTSuccess", sessionPresent |-> data[1] = 1]

readSubackStatus(codes) ==
  IF \E i \in DOMAIN codes : codes[i] \notin {0, 1, 2, 128} THEN "MQTTBadResponse"
  ELSE IF \E i \in DOMAIN codes : codes[i] = 128 THEN "MQTTServerRefused" ELSE "MQTTSuccess"
deserializeSuback(data) ==
  IF Len(data) < 3 \/ UINT16_DECODE(data) = 0 THEN BadResponse
  ELSE [status |-> readSubackStatus(From(data, 3)), packetId |-> UINT16_DECODE(data)]
deserializeSimpleAck(data) ==
  IF Len(data) # 2 \/ UINT16_DECODE(data) = 0 THEN BadResponse
  ELSE [status |-> "MQTTSuccess", packetId |-> UINT16_DECODE(data)]
deserializePingresp(data) == IF data # <<>> THEN BadResponse ELSE [status |-> "MQTTSuccess"]

MQTT_DeserializeAck(type, data) ==
  CASE type = Type.CONNACK  -> deserializeConnack(data)
    [] type = Type.SUBACK   -> deserializeSuback(data)
    [] type = Type.PINGRESP -> deserializePingresp(data)
    [] type \in {Type.UNSUBACK, Type.PUBACK, Type.PUBREC, Type.PUBREL, Type.PUBCOMP} -> deserializeSimpleAck(data)
    [] OTHER -> BadResponse
MQTT_GetSubAckStatusCodes(type, data) ==
  IF type # Type.SUBACK \/ Len(data) < 3 THEN Refused ELSE [status |-> "MQTTSuccess", codes |-> From(data, 3)]
=============================================================================
