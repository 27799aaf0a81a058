---------------------------- MODULE MqttSession ----------------------------
(***************************************************************************)
(* An MQTT client session of coreMQTT over connections that break: the     *)
(* publish calls, the incoming-packet handlers and the session resumption  *)
(* of core_mqtt.c, used by one task as the examples in its headers use     *)
(* them, against a broker that follows MQTT 3.1.1 (external).              *)
(*                                                                         *)
(* A connection is a pair of FIFO channels.  When it breaks, what is under *)
(* way in either direction is gone; a send that fails breaks it.           *)
(***************************************************************************)
EXTENDS MqttState, Sequences

CONSTANTS OutQ1, OutQ2, InQ1, InQ2,   \* messages of the application and of the broker, by QoS
          NoMessage,                  \* in a packet that carries none
          OutgoingSlots, IncomingSlots,
          MaxPacketId,                \* UINT16_MAX in the code
          MaxDrops, MaxLosses         \* bounds: broken connections, lost sessions

Out == OutQ1 \cup OutQ2
In  == InQ1 \cup InQ2
Messages == Out \cup In
Qos(m) == IF m \in OutQ1 \cup InQ1 THEN 1 ELSE 2

ASSUME SlotsAssumption ==
  OutgoingSlots \in Nat \ {0} /\ IncomingSlots \in Nat \ {0} /\ MaxPacketId \in Nat \ {0}
\* A message goes one way, with one QoS.
ASSUME MessagesAssumption == Out \cap In = {} /\ (OutQ1 \cup InQ1) \cap (OutQ2 \cup InQ2) = {}

VARIABLES
  records,        \* outgoingPublishRecords and incomingPublishRecords of the context
  nextPacketId,
  app,            \* where the application's task is
  cursor,         \* its MQTTStateCursor_t
  published,      \* the publishes it can give again, by packet identifier
  owed,           \* identifiers it has still to resend after a resumption
  up, toBroker, toClient,              \* the connection
  brokerSends, brokerHolds,            \* external: the broker's half of the session
  sentOrder, relOrder,                 \* order of the publishes, and of the PUBRECs for them
  stage, copies,                       \* of each message, as in MqttDelivery
  drops, losses

net    == <<up, toBroker, toClient, drops>>
client == <<nextPacketId, app, cursor, published, owed>>
broker == <<brokerSends, brokerHolds>>
ghost  == <<sentOrder, relOrder, stage, copies>>
vars   == <<records, client, net, broker, ghost, losses>>

\* packetId is what makes a record in use: an identifier of the code's range.
PacketIds == 1..MaxPacketId
Ack(type, id) == [type |-> type, id |-> id, msg |-> NoMessage]
Publish(id, m) == [type |-> "PUBLISH", id |-> id, msg |-> m]
\* A sequence without its first item id.
Without(seq, id) ==
  LET places == {k \in DOMAIN seq : seq[k] = id}
  IN  IF places = {} THEN seq
      ELSE [k \in 1..(Len(seq) - 1) |-> seq[IF k < First(places) THEN k ELSE k + 1]]
IdOf(m) == CHOOSE id \in DOMAIN published : published[id] = m

Init ==
  /\ records = [outgoing |-> NoRecords(OutgoingSlots), incoming |-> NoRecords(IncomingSlots)]
  /\ nextPacketId = 1 /\ app = "disconnected" /\ cursor = 0
  /\ published = <<>> /\ owed = {}
  /\ up = FALSE /\ toBroker = <<>> /\ toClient = <<>>
  /\ brokerSends = <<>> /\ brokerHolds = {}
  /\ sentOrder = <<>> /\ relOrder = <<>>
  /\ stage = [m \in Messages |-> "new"] /\ copies = [m \in Messages |-> 0]
  /\ drops = 0 /\ losses = 0

-----------------------------------------------------------------------------
\* The connection.  rest is what the client has not taken out of toClient.

Break == /\ up => drops < MaxDrops
         /\ drops' = IF up THEN drops + 1 ELSE drops
         /\ up' = FALSE /\ toBroker' = <<>> /\ toClient' = <<>>

Sent(packet, rest) == /\ up
                      /\ toBroker' = Append(toBroker, packet) /\ toClient' = rest
                      /\ UNCHANGED <<up, drops>>

\* The connection breaks while nobody is sending.
LinkLost == /\ up /\ Break
            /\ UNCHANGED <<records, client, broker, ghost, losses>>

\* recv fails in MQTT_ProcessLoop: the application gives the connection up.
RecvFailed == /\ ~up /\ app = "running"
              /\ app' = "disconnected"
              /\ UNCHANGED <<records, nextPacketId, cursor, published, owed, net, broker, ghost, losses>>

-----------------------------------------------------------------------------
\* Publishing.

MQTT_GetPacketId == nextPacketId' = IF nextPacketId = MaxPacketId THEN 1 ELSE nextPacketId + 1

\* MQTT_Publish after its state has been reserved in r; a state that is there
\* already is accepted from a duplicate only.
Reserved(r, dup) == r.status = "MQTTSuccess" \/ (r.status = "MQTTStateCollision" /\ dup)
MQTT_Publish(r, id, m) ==
  \/ /\ Sent(Publish(id, m), toClient)
     /\ records' = MQTT_UpdateStatePublish(r.records, id, "SEND", Qos(m)).records
     /\ UNCHANGED app
  \/ /\ Break
     /\ records' = r.records
     /\ app' = "disconnected"

AppPublish(m) ==
  \E r \in {MQTT_ReserveState(records, nextPacketId, Qos(m))} :
  /\ app = "running" /\ stage[m] = "new"
  /\ MQTT_GetPacketId
  /\ IF Reserved(r, FALSE)
       THEN /\ MQTT_Publish(r, nextPacketId, m)
            /\ published' = [i \in DOMAIN published \cup {nextPacketId} |->
                               IF i = nextPacketId THEN m ELSE published[i]]
            /\ sentOrder' = Append(sentOrder, nextPacketId)
            /\ stage' = [stage EXCEPT ![m] = "open"]
       ELSE records' = r.records /\ UNCHANGED <<net, app, published, sentOrder, stage>>
  /\ UNCHANGED <<cursor, owed, broker, relOrder, copies, losses>>

\* One turn of the loop of core_mqtt_state.h: MQTT_PublishToResend, then the
\* publish again with its DUP flag, until there is none left.
Resend ==
  /\ app = "resending"
  /\ \E next \in {MQTT_PublishToResend(records, cursor)} :
       /\ cursor' = next.cursor
       /\ IF next.packetId = 0 THEN app' = "running" /\ UNCHANGED <<records, net, owed>>
          ELSE /\ \E r \in {MQTT_ReserveState(records, next.packetId, Qos(published[next.packetId]))} :
                    Reserved(r, TRUE) /\ MQTT_Publish(r, next.packetId, published[next.packetId])
               /\ owed' = owed \ {next.packetId}
  /\ UNCHANGED <<nextPacketId, published, broker, ghost, losses>>

-----------------------------------------------------------------------------
\* Receiving: one packet per MQTT_ProcessLoop.

getAckTypeToSend == [PubAckSend |-> "PUBACK", PubRecSend |-> "PUBREC",
                     PubRelSend |-> "PUBREL", PubCompSend |-> "PUBCOMP"]

\* Nothing is sent in a state that calls for no acknowledgement.
sendPublishAcks(recs, id, state, rest) ==
  IF state \notin DOMAIN getAckTypeToSend
    THEN /\ records' = recs /\ toClient' = rest
         /\ UNCHANGED <<app, up, toBroker, drops>>
    ELSE \/ /\ Sent(Ack(getAckTypeToSend[state], id), rest)
            /\ \E r \in {MQTT_UpdateStateAck(recs, id, getAckTypeToSend[state], "SEND")} :
                 records' = AfterAck(recs, getAckTypeToSend[state], "SEND", r)
            /\ UNCHANGED app
         \/ /\ Break
            /\ records' = recs
            /\ app' = "disconnected"

Deliver(m) == copies' = [copies EXCEPT ![m] = IF @ = 2 THEN 2 ELSE @ + 1]

Received == up /\ app = "running" /\ toClient # <<>>

\* A publish whose identifier has a record already is a duplicate: it is
\* acknowledged again and not given to the application.
handleIncomingPublish ==
  LET p == Head(toClient) IN
  /\ Received /\ p.type = "PUBLISH"
  /\ \E r \in {MQTT_UpdateStatePublish(records, p.id, "RECEIVE", Qos(p.msg))} :
       /\ IF r.status = "MQTTSuccess" THEN Deliver(p.msg) ELSE UNCHANGED copies
       /\ sendPublishAcks(r.records, p.id,
            IF r.status \in {"MQTTSuccess", "MQTTStateCollision"}
              THEN MQTT_CalculateStatePublish("RECEIVE", Qos(p.msg)) ELSE "Null",
            Tail(toClient))
  /\ UNCHANGED <<nextPacketId, cursor, published, owed, broker, sentOrder, relOrder, stage, losses>>

\* The callback sees a PUBACK or PUBCOMP: the application is done with it.
handlePublishAcks ==
  LET p == Head(toClient) IN
  /\ Received /\ p.type # "PUBLISH"
  /\ \E r \in {MQTT_UpdateStateAck(records, p.id, p.type, "RECEIVE")} :
       /\ sendPublishAcks(AfterAck(records, p.type, "RECEIVE", r), p.id, r.newState, Tail(toClient))
       /\ sentOrder' = IF r.newState \in {"Done", "PubRelSend"} THEN Without(sentOrder, p.id)
                       ELSE sentOrder
       /\ relOrder' = IF r.newState = "PubRelSend" THEN Append(relOrder, p.id)
                      ELSE IF r.newState = "Done" THEN Without(relOrder, p.id) ELSE relOrder
       /\ IF r.newState = "Done"
            THEN /\ stage' = [stage EXCEPT ![published[p.id]] = "done"]
                 /\ published' = [i \in DOMAIN published \ {p.id} |-> published[i]]
            ELSE UNCHANGED <<stage, published>>
  /\ UNCHANGED <<nextPacketId, cursor, owed, broker, copies, losses>>

-----------------------------------------------------------------------------
\* Connecting.

\* What the broker sends again on a resumption (external).
Again == [i \in DOMAIN brokerSends |->
            IF brokerSends[i].rel THEN Ack("PUBREL", brokerSends[i].id)
            ELSE Publish(brokerSends[i].id, brokerSends[i].msg)]

\* MQTT_Connect on a new connection to a broker that still has the session.
Connect ==
  /\ app = "disconnected"
  /\ app' = "resuming" /\ up' = TRUE /\ toBroker' = <<>> /\ toClient' = Again
  /\ cursor' = 0
  /\ owed' = {i \in DOMAIN published :
                \E s \in Holding(records.outgoing, i) :
                   records.outgoing[s].publishState \in OutgoingPublishStates}
  /\ UNCHANGED <<records, nextPacketId, published, drops, broker, ghost, losses>>

\* Every PUBREL under way is sent again; a send that fails ends MQTT_Connect.
handleSessionResumption ==
  /\ app = "resuming"
  /\ \E next \in {MQTT_PubrelToResend(records, cursor)} :
       IF next.packetId = 0
         THEN app' = "resending" /\ cursor' = 0 /\ UNCHANGED <<records, net>>
         ELSE cursor' = next.cursor /\ sendPublishAcks(records, next.packetId, "PubRelSend", toClient)
  /\ UNCHANGED <<nextPacketId, published, owed, broker, ghost, losses>>

\* MQTT_Connect with a clean session, or to a broker that has lost it: both
\* sides forget what they had not completed.
ConnectWithoutSession ==
  /\ app = "disconnected" /\ losses < MaxLosses
  /\ losses' = losses + 1
  /\ records' = [outgoing |-> NoRecords(OutgoingSlots), incoming |-> NoRecords(IncomingSlots)]
  /\ app' = "running" /\ up' = TRUE /\ toBroker' = <<>> /\ toClient' = <<>>
  /\ published' = <<>> /\ owed' = {} /\ cursor' = 0
  /\ brokerSends' = <<>> /\ brokerHolds' = {}
  /\ sentOrder' = <<>> /\ relOrder' = <<>>
  /\ stage' = [m \in Messages |-> IF stage[m] = "open" THEN "dropped" ELSE stage[m]]
  /\ UNCHANGED <<nextPacketId, drops, copies>>

\* MQTT_Disconnect, between two publishes: what is under way is dropped with
\* the connection, and the session is kept.
MQTT_Disconnect ==
  /\ app = "running" /\ up /\ drops < MaxDrops
  /\ Break
  /\ app' = "disconnected"
  /\ UNCHANGED <<records, nextPacketId, cursor, published, owed, broker, ghost, losses>>

-----------------------------------------------------------------------------
\* The broker (external): MQTT 3.1.1, section 4.3.

BrokerReplies(packet) == /\ toBroker' = Tail(toBroker) /\ toClient' = Append(toClient, packet)
                         /\ UNCHANGED <<up, drops>>

BrokerPublish(m) ==
  LET used == {brokerSends[i].id : i \in DOMAIN brokerSends}
      id   == First(PacketIds \ used)
  IN
  /\ up /\ m \in In /\ stage[m] = "new" /\ PacketIds # used
  /\ brokerSends' = Append(brokerSends, [id |-> id, msg |-> m, rel |-> FALSE])
  /\ toClient' = Append(toClient, Publish(id, m))
  /\ stage' = [stage EXCEPT ![m] = "open"]
  /\ UNCHANGED <<records, client, up, toBroker, drops, brokerHolds, sentOrder, relOrder, copies, losses>>

BrokerTakesPublish ==
  LET p == Head(toBroker) IN
  /\ toBroker # <<>> /\ p.type = "PUBLISH"
  /\ IF p.id \in brokerHolds THEN UNCHANGED copies ELSE Deliver(p.msg)
  /\ brokerHolds' = IF Qos(p.msg) = 2 THEN brokerHolds \cup {p.id} ELSE brokerHolds
  /\ BrokerReplies(Ack(IF Qos(p.msg) = 2 THEN "PUBREC" ELSE "PUBACK", p.id))
  /\ UNCHANGED <<records, client, brokerSends, sentOrder, relOrder, stage, losses>>

BrokerTakesPubrel ==
  LET p == Head(toBroker) IN
  /\ toBroker # <<>> /\ p.type = "PUBREL"
  /\ brokerHolds' = brokerHolds \ {p.id}
  /\ BrokerReplies(Ack("PUBCOMP", p.id))
  /\ UNCHANGED <<records, client, brokerSends, ghost, losses>>

BrokerTakesPubrec ==
  LET p == Head(toBroker) IN
  /\ toBroker # <<>> /\ p.type = "PUBREC"
  /\ brokerSends' = [i \in DOMAIN brokerSends |->
                       IF brokerSends[i].id = p.id THEN [brokerSends[i] EXCEPT !.rel = TRUE]
                       ELSE brokerSends[i]]
  /\ BrokerReplies(Ack("PUBREL", p.id))
  /\ UNCHANGED <<records, client, brokerHolds, ghost, losses>>

\* PUBACK or PUBCOMP: the broker is done with the message.
BrokerTakesLast ==
  LET p == Head(toBroker) IN
  /\ toBroker # <<>> /\ p.type \in {"PUBACK", "PUBCOMP"}
  /\ toBroker' = Tail(toBroker)
  /\ \E i \in DOMAIN brokerSends :
       /\ brokerSends[i].id = p.id
       /\ brokerSends' = [k \in 1..(Len(brokerSends) - 1) |-> brokerSends[IF k < i THEN k ELSE k + 1]]
       /\ stage' = [stage EXCEPT ![brokerSends[i].msg] = "done"]
  /\ UNCHANGED <<records, client, up, toClient, drops, brokerHolds, sentOrder, relOrder, copies, losses>>

-----------------------------------------------------------------------------
ProcessLoop == handleIncomingPublish \/ handlePublishAcks \/ RecvFailed
BrokerStep  == BrokerTakesPublish \/ BrokerTakesPubrel \/ BrokerTakesPubrec \/ BrokerTakesLast
\* Everything has been said and done.
Settled == /\ toBroker = <<>> /\ toClient = <<>> /\ up /\ app = "running"
           /\ \A m \in Messages : stage[m] # "new"
           /\ UNCHANGED vars

Next == \/ \E m \in Out : AppPublish(m)
        \/ Resend
        \/ ProcessLoop
        \/ Connect \/ handleSessionResumption \/ ConnectWithoutSession \/ MQTT_Disconnect
        \/ LinkLost
        \/ \E m \in In : BrokerPublish(m)
        \/ BrokerStep
        \/ Settled

\* The task goes on calling the library, and the broker answers.  That the
\* task takes what has arrived is a step of ProcessLoop, stated by its effect
\* alone: TLC then tells that it is enabled without computing the records.
TakesPacket == Received /\ toClient' = Tail(toClient)
Fairness == /\ WF_toClient(TakesPacket) /\ WF_vars(RecvFailed) /\ WF_vars(Resend)
            /\ WF_vars(Connect) /\ WF_vars(handleSessionResumption) /\ WF_vars(BrokerStep)

Spec     == Init /\ [][Next]_vars
LiveSpec == Spec /\ Fairness
-----------------------------------------------------------------------------
\* No identifier has two records in one direction, and a record is in a state
\* of its direction and its QoS: the search by identifier finds the publish
\* that an acknowledgement is about, and no sequence of calls, failures and
\* resumptions leaves a record no packet can move on.
WellFormed(slots, states) ==
  /\ \A i, j \in Occupied(slots) : slots[i].packetId = slots[j].packetId => i = j
  /\ \A i \in Occupied(slots) :
       /\ slots[i].qos \in {1, 2} /\ slots[i].publishState \in states
       /\ slots[i].publishState \in {"PubAckPending", "PubAckSend"} => slots[i].qos = 1
       /\ slots[i].publishState \notin {"PublishSend", "PubAckPending", "PubAckSend"} => slots[i].qos = 2
RecordsWellFormed ==
  /\ WellFormed(records.outgoing, OutgoingPublishStates \cup OutgoingRelStates)
  /\ WellFormed(records.incoming, IncomingStates)

\* The record of identifier x stands before that of y.
Precedes(slots, x, y) ==
  \E i, j \in Occupied(slots) : i < j /\ slots[i].packetId = x /\ slots[j].packetId = y
\* A sequence names the records in one of the states, in the order of the array.
Lists(seq, slots, states) ==
  /\ {seq[k] : k \in DOMAIN seq} =
       {slots[i].packetId : i \in {j \in Occupied(slots) : slots[j].publishState \in states}}
  /\ \A j, k \in DOMAIN seq : j < k => Precedes(slots, seq[j], seq[k])

\* The array holds the publishes in the order they were sent, and the PUBRELs
\* in the order of the PUBRECs: what the two resend cursors walk is the order
\* MQTT asks for ("in the correct order", core_mqtt_state.h:223).
ResendOrder == /\ Lists(sentOrder, records.outgoing, OutgoingPublishStates)
               /\ Lists(relOrder, records.outgoing, OutgoingRelStates)

\* Every message in either direction is delivered as its QoS promises,
\* whatever breaks: nothing reported as done was lost, nothing with QoS 2 was
\* delivered twice.
Promise == INSTANCE MqttDelivery WITH ExactlyOnce <- OutQ2 \cup InQ2
Delivered == Promise!Spec

\* When the loop over MQTT_PublishToResend ends, it has given every publish
\* that was to be sent again.
ResendComplete == app = "running" => owed = {}

\* A publish the application has made is acknowledged, or dropped with its session:
\* resumptions do not leave it waiting for ever, the one excepted whose loop passed
\* over it (against ResendComplete): that one waits until the connection breaks again.
PassedOver(m) == app = "running" /\ \E i \in owed \cap DOMAIN published : published[i] = m
PublishSettles ==
  \A m \in Out : stage[m] = "open" ~> stage[m] \in {"done", "dropped"} \/ PassedOver(m)
=============================================================================
