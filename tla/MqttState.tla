----------------------------- MODULE MqttState -----------------------------
(***************************************************************************)
(* The publish state engine of coreMQTT (core_mqtt_state.c): the records   *)
(* that a client keeps of the QoS 1 and QoS 2 publishes under way, one     *)
(* array per direction, and the operations on them.  An operation that can *)
(* fail returns a record with its status and the array it leaves behind.   *)
(***************************************************************************)
EXTENDS Naturals, FiniteSets

\* A publish that has not been completed is in one of these states.
OutgoingPublishStates == {"PublishSend", "PubAckPending", "PubRecPending"}
OutgoingRelStates     == {"PubRelSend", "PubCompPending"}
IncomingStates        == {"PubAckSend", "PubRecSend", "PubRelPending", "PubCompSend"}
PublishStates ==
  {"Null", "Done"} \cup OutgoingPublishStates \cup OutgoingRelStates \cup IncomingStates

\* Packet identifier 0 (MQTT_PACKET_ID_INVALID) marks a free slot.
PubAckInfo == [packetId: Nat, qos: 0..2, publishState: PublishStates]
EmptySlot  == [packetId |-> 0, qos |-> 0, publishState |-> "Null"]
NoRecords(size) == [i \in 1..size |-> EmptySlot]

Occupied(slots) == {i \in DOMAIN slots : slots[i].packetId # 0}

validateTransitionPublish(current, new, opType, qos) ==
  \/ current = "Null" /\ opType = "RECEIVE" /\ new \in {"PubAckSend", "PubRecSend"}
  \/ current = "PublishSend" /\ qos = 1 /\ new = "PubAckPending"
  \/ current = "PublishSend" /\ qos = 2 /\ new = "PubRecPending"
  \/ current \in {"PubAckPending", "PubRecPending"} /\ new = current

validateTransitionAck(current, new) ==
  <<current, new>> \in
    {<<"PubAckSend", "Done">>, <<"PubAckPending", "Done">>, <<"PubRecSend", "PubRelPending">>,
     <<"PubRelPending", "PubCompSend">>, <<"PubRelPending", "PubRelPending">>,
     <<"PubCompSend", "Done">>, <<"PubCompSend", "PubCompSend">>,
     <<"PubRecPending", "PubRelSend">>, <<"PubRelSend", "PubCompPending">>,
     <<"PubCompPending", "Done">>, <<"PubCompPending", "PubCompPending">>}

isPublishOutgoing(packetType, opType) ==
  IF packetType = "PUBREL" THEN opType = "SEND" ELSE opType = "RECEIVE"

\* Every index of a slot that holds packetId; the code takes the first.
Holding(slots, packetId) == {i \in DOMAIN slots : slots[i].packetId = packetId}
First(indexes) == CHOOSE i \in indexes : \A j \in indexes : i <= j

\* Slides the records to the front, in their order.
Rank(slots, i) == Cardinality({j \in Occupied(slots) : j <= i})
compactRecords(slots) ==
  [k \in DOMAIN slots |->
     IF \E i \in Occupied(slots) : Rank(slots, i) = k
       THEN slots[CHOOSE i \in Occupied(slots) : Rank(slots, i) = k]
       ELSE EmptySlot]

\* The free slots after the last record.
Trailing(slots) == {k \in DOMAIN slots : \A j \in Occupied(slots) : j < k}

\* Mutant: an identifier that is in use gets a second record.
addRecordUnchecked(slots, packetId, qos, publishState) ==
  IF Trailing(slots) = {} THEN [status |-> "MQTTNoMemory", slots |-> slots]
  ELSE [status |-> "MQTTSuccess",
        slots  |-> [slots EXCEPT ![First(Trailing(slots))] =
                      [packetId |-> packetId, qos |-> qos, publishState |-> publishState]]]
\* Mutant: a new record goes into the first free slot.
addRecordFirstFree(slots, packetId, qos, publishState) ==
  LET free == DOMAIN slots \ Occupied(slots)
  IN  IF Holding(slots, packetId) # {} THEN [status |-> "MQTTStateCollision", slots |-> slots]
      ELSE IF free = {}                THEN [status |-> "MQTTNoMemory", slots |-> slots]
      ELSE [status |-> "MQTTSuccess",
            slots  |-> [slots EXCEPT ![First(free)] =
                          [packetId |-> packetId, qos |-> qos, publishState |-> publishState]]]
\* A new record goes behind all the others; the array is compacted when its
\* last slot is taken, whether or not the record can then be added.
addRecord(slots, packetId, qos, publishState) ==
  LET s == IF slots[Cardinality(DOMAIN slots)].packetId # 0 THEN compactRecords(slots) ELSE slots
  IN  IF Holding(s, packetId) # {} THEN [status |-> "MQTTStateCollision", slots |-> s]
      ELSE IF Trailing(s) = {}     THEN [status |-> "MQTTNoMemory", slots |-> s]
      ELSE [status |-> "MQTTSuccess",
            slots  |-> [s EXCEPT ![First(Trailing(s))] =
                          [packetId |-> packetId, qos |-> qos, publishState |-> publishState]]]

updateRecord(slots, i, newState, shouldDelete) ==
  [slots EXCEPT ![i] = IF shouldDelete THEN EmptySlot ELSE [@ EXCEPT !.publishState = newState]]

\* The next record at or behind the cursor in one of the states; the cursor
\* counts the slots already looked at.
stateSelect(slots, searchStates, cursor) ==
  LET hits == {i \in DOMAIN slots : i > cursor /\ slots[i].publishState \in searchStates}
  IN  IF hits = {} THEN [packetId |-> 0, cursor |-> Cardinality(DOMAIN slots)]
      ELSE [packetId |-> slots[First(hits)].packetId, cursor |-> First(hits)]

MQTT_CalculateStateAck(packetType, opType, qos) ==
  CASE packetType = "PUBACK"  /\ qos = 1 -> "Done"
    [] packetType = "PUBREC"  /\ qos = 2 -> IF opType = "SEND" THEN "PubRelPending" ELSE "PubRelSend"
    [] packetType = "PUBREL"  /\ qos = 2 -> IF opType = "SEND" THEN "PubCompPending" ELSE "PubCompSend"
    [] packetType = "PUBCOMP" /\ qos = 2 -> "Done"
    [] OTHER -> "Null"

\* newState is the state of the publish after the acknowledgement, "Null"
\* when the call fails and leaves the caller's variable as it was.  A received
\* PUBREC moves the record behind the others, so that PUBRELs are resent in
\* the order of the PUBRECs.
updateStateAck(slots, i, packetId, current, new) ==
  IF ~validateTransitionAck(current, new)
    THEN [status |-> "MQTTIllegalState", newState |-> "Null", slots |-> slots]
  ELSE IF new = "PubRelSend"
    THEN LET moved == addRecord(updateRecord(slots, i, new, TRUE), packetId, 2, new)
         IN  [status |-> moved.status, slots |-> moved.slots,
              newState |-> IF moved.status = "MQTTSuccess" THEN new ELSE "Null"]
  ELSE [status |-> "MQTTSuccess", newState |-> new,
        slots |-> IF current = new THEN slots ELSE updateRecord(slots, i, new, new = "Done")]

MQTT_CalculateStatePublish(opType, qos) ==
  CASE qos = 0 -> "Done"
    [] qos = 1 -> IF opType = "SEND" THEN "PubAckPending" ELSE "PubAckSend"
    [] qos = 2 -> IF opType = "SEND" THEN "PubRecPending" ELSE "PubRecSend"

\* From here on, records is the pair of arrays of a context.

MQTT_ReserveState(records, packetId, qos) ==
  LET r == addRecord(records.outgoing, packetId, qos, "PublishSend")
  IN  [status |-> r.status, records |-> [records EXCEPT !.outgoing = r.slots]]

updateStatePublishSend(records, i, qos, new) ==
  IF validateTransitionPublish(records.outgoing[i].publishState, new, "SEND", qos)
    THEN [status |-> "MQTTSuccess",
          records |-> [records EXCEPT !.outgoing = updateRecord(@, i, new, FALSE)]]
    ELSE [status |-> "MQTTIllegalState", records |-> records]

MQTT_UpdateStatePublish(records, packetId, opType, qos) ==
  LET found == Holding(records.outgoing, packetId)
      new   == MQTT_CalculateStatePublish(opType, qos)
      added == addRecord(records.incoming, packetId, qos, new)
  IN  IF opType = "RECEIVE"
        THEN [status |-> added.status, records |-> [records EXCEPT !.incoming = added.slots]]
      ELSE IF found = {} \/ records.outgoing[First(found)].qos # qos
        THEN [status |-> "MQTTBadParameter", records |-> records]
      ELSE updateStatePublishSend(records, First(found), qos, new)

\* Mutant: an incoming publish is forgotten once its PUBREC has gone out.
MQTT_UpdateStateAckForgets(records, packetId, packetType, opType) ==
  LET slots == IF isPublishOutgoing(packetType, opType) THEN records.outgoing ELSE records.incoming
      i     == First(Holding(slots, packetId))
      new   == MQTT_CalculateStateAck(packetType, opType, slots[i].qos)
  IN  IF Holding(slots, packetId) = {}
        THEN [status |-> "MQTTBadResponse", newState |-> "Null", slots |-> slots]
      ELSE IF new = "PubRelPending"
        THEN [status |-> "MQTTSuccess", newState |-> new, slots |-> updateRecord(slots, i, new, TRUE)]
      ELSE updateStateAck(slots, i, packetId, slots[i].publishState, new)
\* The array it returns is the one of the direction of the publish.
MQTT_UpdateStateAck(records, packetId, packetType, opType) ==
  LET slots == IF isPublishOutgoing(packetType, opType) THEN records.outgoing ELSE records.incoming
      i     == First(Holding(slots, packetId))
  IN  IF Holding(slots, packetId) = {}
        THEN [status |-> "MQTTBadResponse", newState |-> "Null", slots |-> slots]
        ELSE updateStateAck(slots, i, packetId, slots[i].publishState,
                            MQTT_CalculateStateAck(packetType, opType, slots[i].qos))
AfterAck(records, packetType, opType, r) ==
  IF isPublishOutgoing(packetType, opType) THEN [records EXCEPT !.outgoing = r.slots]
  ELSE [records EXCEPT !.incoming = r.slots]

\* Mutant: only the PUBRELs that never went out are sent again.
MQTT_UnsentPubrelToResend(records, cursor) == stateSelect(records.outgoing, {"PubRelSend"}, cursor)
MQTT_PubrelToResend(records, cursor)  == stateSelect(records.outgoing, OutgoingRelStates, cursor)
MQTT_PublishToResend(records, cursor) == stateSelect(records.outgoing, OutgoingPublishStates, cursor)
=============================================================================
