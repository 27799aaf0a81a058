----------------------------- MODULE PacketCodec -----------------------------
(***************************************************************************)
(* What the packets of MqttPacket have to be: a reader of what is written, *)
(* field by field, and what may be accepted of what comes in.  A step asks *)
(* about one packet, list, length or size of the inputs given.             *)
(***************************************************************************)
EXTENDS MqttPacket

CONSTANTS Publishes, PacketIds, PublishSizes, Connects, SubscriptionLists,  \* what is written
          LengthFields, IncomingPackets                                     \* what is read

UINT8_MAX == 255
UINT16_MAX == 65535
Octet == 0..UINT8_MAX
Word == 0..UINT16_MAX
Text == {s \in Seq(Octet) : Len(s) <= UINT16_MAX}  \* what a length of 16 bits counts
Optional(set) == {s \in Seq(set) : Len(s) <= 1}
PublishInfo == [qos : 0..2, retain : BOOLEAN, dup : BOOLEAN, topic : Text, payload : Seq(Octet)]
ConnectInfo == [cleanSession : BOOLEAN, keepAlive : Word, clientId : Text,
                will : Optional(PublishInfo), user : Optional(Text), password : Optional(Text)]
SubscribeInfo == [filter : Text, qos : 0..2]

\* The arguments are what the types of core_mqtt_serializer.h can hold.
ASSUME PacketsAssumption ==
  /\ Publishes \subseteq PublishInfo /\ PacketIds \subseteq Word
  /\ PublishSizes \subseteq [topic : Word, payload : Nat, qos : 0..2]
  /\ Connects \subseteq ConnectInfo /\ SubscriptionLists \subseteq Seq(SubscribeInfo)
  /\ LengthFields \subseteq Seq(Octet)
  /\ IncomingPackets \subseteq [type : Octet, data : {s \in Seq(Octet) : Len(s) <= MQTT_MAX_REMAINING_LENGTH}]

VARIABLE packet  \* what the codec is asked about, with its kind

-----------------------------------------------------------------------------
\* The fixed header.

\* What follows a header of that many bytes.
Body(bytes) == From(bytes, 1 + processRemainingLength(Tail(bytes)).headerLength)
\* The type and the length of the bytes' packet, in both readers; and that a
\* part of the header is not taken for one.
HeaderRight(bytes, type, remaining) ==
  LET header == [status |-> "MQTTSuccess", remainingLength |-> remaining, headerLength |-> 1 + remainingLengthEncodedSize(remaining)]
  IN /\ bytes[1] = type
     /\ processRemainingLength(Tail(bytes)) = header /\ getRemainingLength(Tail(bytes)) = header
     /\ Len(bytes) = remaining + header.headerLength
     /\ \A n \in 1 .. header.headerLength - 1 : processRemainingLength(SubSeq(bytes, 2, n)).status = "MQTTNeedMoreBytes"
Fits(Serialized(_), size) == Serialized(size - 1) = [status |-> "MQTTNoMemory"]

\* Any bytes for a length: a decoder that accepts them got the encoding of what it says.
LengthRight(bytes) ==
  LET size == processRemainingLength(bytes) IN
  /\ size.status = "MQTTSuccess" =>
       /\ encodeRemainingLength(size.remainingLength) = SubSeq(bytes, 1, size.headerLength - 1)
       /\ getRemainingLength(bytes) = size
  /\ size.status = "MQTTNeedMoreBytes" <=> Len(bytes) < 4 /\ \A i \in DOMAIN bytes : bytes[i] >= 128
  /\ size.status # "MQTTSuccess" => getRemainingLength(bytes) = BadResponse

-----------------------------------------------------------------------------
\* PUBLISH, read back.

PublishRight(p, packetId) ==
  LET size == MQTT_GetPublishPacketSize(Len(p.topic), Len(p.payload), p.qos)
      Whole(buffer) == MQTT_SerializePublish(p, packetId, size.remaining, buffer)
      bytes == Whole(size.packet).bytes
      header == MQTT_SerializePublishHeader(p, packetId, size.remaining, size.packet)
      vectors == sendPublishWithoutCopy(p, MQTT_SerializePublishHeaderWithoutTopic(p, size.remaining), packetId)
  IN size.status = "MQTTSuccess" =>
       IF PublishRefused(p, packetId) \/ ~validatePublishParams(p, packetId, TRUE) THEN Whole(size.packet) = Refused
       ELSE /\ HeaderRight(bytes, PublishFlags(p), size.remaining) /\ Len(bytes) = size.packet
            /\ MQTT_ProcessIncomingPacketTypeAndLength(bytes).status = "MQTTSuccess"
            /\ MQTT_DeserializePublish(bytes[1], Body(bytes)) =
                 [status |-> "MQTTSuccess", packetId |-> IF p.qos = 0 THEN 0 ELSE packetId, publish |-> p]
            /\ bytes = header.bytes \o p.payload /\ bytes = Concat(vectors)
            /\ Fits(Whole, size.packet)

\* The largest sizes, from lengths: what is accepted has a length that four
\* bytes can hold.
SizeRight(topic, payload, qos) ==
  LET size == MQTT_GetPublishPacketSize(topic, payload, qos)
      remaining == topic + 2 + payload + IF qos > 0 THEN 2 ELSE 0
  IN IF topic = 0 \/ remaining + 5 > MQTT_MAX_REMAINING_LENGTH THEN size = Refused
     ELSE /\ size = Sizes(remaining)
          /\ LET bytes == encodeRemainingLength(remaining) IN
             /\ Len(bytes) = remainingLengthEncodedSize(remaining)
             /\ processRemainingLength(bytes).remainingLength = remaining

-----------------------------------------------------------------------------
\* CONNECT, SUBSCRIBE and UNSUBSCRIBE, read back.

\* Where n strings start in bytes, each behind its length and before that many
\* other bytes, and where one more would; and the strings.
StringStarts(bytes, n, others) ==
  LET start[k \in 1 .. n + 1] ==
        IF k = 1 THEN 1 ELSE LET last == start[k - 1] IN last + 2 + UINT16_DECODE(From(bytes, last)) + others
  IN start
Strings(bytes, n, others) ==
  LET start == StringStarts(bytes, n, others) IN [k \in 1..n |-> SubSeq(bytes, start[k] + 2, start[k + 1] - 1 - others)]
AreAll(bytes, n, others) == StringStarts(bytes, n, others)[n + 1] = Len(bytes) + 1

ConnectRight(c) ==
  LET size == MQTT_GetConnectPacketSize(c)
      Whole(buffer) == MQTT_SerializeConnect(c, size.remaining, buffer)
      bytes == Whole(size.packet).bytes
      body == Body(bytes)
      flags == body[8]
      will == CheckBit(flags, 2)
      payload == From(body, 11)
      n == 1 + (IF will THEN 2 ELSE 0) + Len(c.user) + Len(c.password)
      strings == Strings(payload, n, 0)
  IN IF c.clientId = <<>> \/ (c.will # <<>> /\ c.will[1].payload \notin Text) THEN size = Refused
     ELSE /\ HeaderRight(bytes, 16, size.remaining) /\ Len(bytes) = size.packet
          /\ SubSeq(body, 1, 7) = <<0, 4, 77, 81, 84, 84, 4>>
          /\ CheckBit(flags, 1) = c.cleanSession /\ UINT16_DECODE(From(body, 9)) = c.keepAlive
          /\ ~CheckBit(flags, 0)
          /\ CheckBit(flags, 7) = (c.user # <<>>) /\ CheckBit(flags, 6) = (c.password # <<>>) /\ will = (c.will # <<>>)
          /\ IF will THEN (flags \div 8) % 4 = c.will[1].qos /\ CheckBit(flags, 5) = c.will[1].retain
                     ELSE (flags \div 8) % 8 = 0
          /\ AreAll(payload, n, 0) /\ strings[1] = c.clientId
          /\ will => strings[2] = c.will[1].topic /\ strings[3] = c.will[1].payload
          /\ c.password # <<>> => strings[n] = c.password[1]
          /\ c.user # <<>> => strings[IF will THEN 4 ELSE 2] = c.user[1]
          /\ bytes = Concat(sendConnectWithoutCopy(c, size.remaining))
          /\ Fits(Whole, size.packet)

\* The calls one after the other send the bytes, in as many vectors as there are.
BatchesRight(batches, bytes) ==
  /\ \A i \in DOMAIN batches : Len(batches[i]) <= MQTT_SUB_UNSUB_MAX_VECTORS
  /\ Concat([i \in DOMAIN batches |-> Concat(batches[i])]) = bytes

\* A request with a byte of QoS after each filter, or with none.
RequestRight(list, packetId, type, size, Whole(_), batches, others) ==
  LET bytes == Whole(size.packet).bytes
      payload == From(Body(bytes), 3)
      start == StringStarts(payload, Len(list), others)
  IN IF size.status # "MQTTSuccess" \/ packetId = 0 THEN batches = <<>>
     ELSE /\ HeaderRight(bytes, type, size.remaining) /\ Len(bytes) = size.packet
          /\ UINT16_DECODE(Body(bytes)) = packetId
          /\ AreAll(payload, Len(list), others)
          /\ Strings(payload, Len(list), others) = [i \in DOMAIN list |-> list[i].filter]
          /\ others = 1 => \A i \in DOMAIN list : payload[start[i + 1] - 1] = list[i].qos
          /\ BatchesRight(batches, bytes)
          /\ Fits(Whole, size.packet)
\* A request is refused for what it lacks, or if its bytes are too many.
Acceptable(list, type) == /\ list # <<>> /\ \A i \in DOMAIN list : list[i].filter # <<>>
                          /\ 2 + Len(Topics(list, type)) <= MQTT_MAX_REMAINING_LENGTH
SubscribeRight(list, packetId) ==
  LET size == MQTT_GetSubscribePacketSize(list)  unsize == MQTT_GetUnsubscribePacketSize(list)
      Whole(buffer) == MQTT_SerializeSubscribe(list, packetId, size.remaining, buffer)
      Unwhole(buffer) == MQTT_SerializeUnsubscribe(list, packetId, unsize.remaining, buffer)
  IN /\ size.status = "MQTTSuccess" <=> Acceptable(list, "SUBSCRIBE")
     /\ unsize.status = "MQTTSuccess" <=> Acceptable(list, "UNSUBSCRIBE")
     /\ RequestRight(list, packetId, 130, size, Whole, MQTT_Subscribe(list, packetId, TRUE), 1)
     /\ RequestRight(list, packetId, 162, unsize, Unwhole, MQTT_Unsubscribe(list, packetId, TRUE), 0)

-----------------------------------------------------------------------------
\* The small packets, and incoming ones.

SmallRight == /\ MQTT_SerializePingreq(2).bytes = <<192, 0>> /\ MQTT_SerializeDisconnect(2).bytes = <<224, 0>>
              /\ MQTT_SerializePingreq(1) = MQTT_SerializeDisconnect(1)

\* Any bytes after any type: what is accepted is what a peer could have meant,
\* and means it.
IncomingRight(type, rest) ==
  LET ack == MQTT_DeserializeAck(type, rest)
      publish == MQTT_DeserializePublish(type, rest)
      codes == From(rest, 3)
      bytes == FixedHeader(type, Len(rest)) \o rest
  IN /\ type \in {64, 80, 98, 112} /\ ack.status = "MQTTSuccess" => MQTT_SerializeAck(type, ack.packetId, 4).bytes = bytes
     /\ type = 144 => /\ ack.status \in {"MQTTSuccess", "MQTTServerRefused"} <=>
                           Len(rest) > 2 /\ UINT16_DECODE(rest) > 0 /\ \A i \in DOMAIN codes : codes[i] \in {0, 1, 2, 128}
                      /\ ack.status # "MQTTBadResponse" =>
                           /\ MQTT_GetSubAckStatusCodes(type, rest).codes = codes
                           /\ ack.status = "MQTTServerRefused" <=> \E i \in DOMAIN codes : codes[i] = 128
     /\ type = 32 => /\ ack.status = "MQTTSuccess" <=> rest \in {<<0, 0>>, <<1, 0>>}
                     /\ ack.status = "MQTTServerRefused" <=> Len(rest) = 2 /\ rest[1] = 0 /\ rest[2] \in 1..5
     /\ publish.status = "MQTTSuccess" =>
          serializePublishCommon(publish.publish, Len(rest), publish.packetId, TRUE) = bytes
     /\ MQTT_GetIncomingPacketTypeAndLength(bytes) = MQTT_ProcessIncomingPacketTypeAndLength(bytes)
     /\ ack.status # "MQTTBadResponse" => incomingPacketValid(type)

-----------------------------------------------------------------------------
Ask(kind, value) == packet.kind = "none" /\ packet' = [kind |-> kind, value |-> value]

AskPublish == \E p \in Publishes, id \in PacketIds : Ask("publish", [publish |-> p, packetId |-> id])
AskSize == \E size \in PublishSizes : Ask("size", size)
AskConnect == \E c \in Connects : Ask("connect", c)
AskSubscribe == \E list \in SubscriptionLists, id \in PacketIds : Ask("subscribe", [list |-> list, packetId |-> id])
AskLength == \E bytes \in LengthFields : Ask("length", bytes)
AskIncoming == \E p \in IncomingPackets : Ask("incoming", p)

PacketInit == packet = [kind |-> "none"]
PacketNext == AskPublish \/ AskSize \/ AskConnect \/ AskSubscribe \/ AskLength \/ AskIncoming
PacketSpec == PacketInit /\ [][PacketNext]_packet

\* What is written can be read back field by field, has the size announced for
\* it, is sent by the vectors byte for byte in calls of no more vectors than
\* there is room for; what is accepted is what a peer may send, and no length
\* is read in two ways.
PacketsFaithful ==
  CASE packet.kind = "publish"   -> PublishRight(packet.value.publish, packet.value.packetId)
    [] packet.kind = "size"      -> SizeRight(packet.value.topic, packet.value.payload, packet.value.qos)
    [] packet.kind = "connect"   -> ConnectRight(packet.value)
    [] packet.kind = "subscribe" -> SubscribeRight(packet.value.list, packet.value.packetId)
    [] packet.kind = "length"    -> LengthRight(packet.value)
    [] packet.kind = "incoming"  -> IncomingRight(packet.value.type, packet.value.data)
    [] OTHER                     -> SmallRight
=============================================================================
