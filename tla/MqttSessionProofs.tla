-------------------------- MODULE MqttSessionProofs --------------------------
(***************************************************************************)
(* For any number of slots, identifiers, messages, broken connections and  *)
(* lost sessions: that the records of a session stay well formed, whatever *)
(* the packets are that come in, that a session implements MqttDelivery,   *)
(* and that the records stay in the order they are to be resent in.        *)
(***************************************************************************)
EXTENDS MqttSession, TLAPS, FiniteSetTheorems, WellFoundedInduction, SequenceTheorems

\* A slot has the fields of MQTTPubAckInfo_t.
IsSlot(s) == s \in [packetId : {s.packetId}, qos : 0..2, publishState : PublishStates]
\* A state that a record of a direction and a QoS may be in.
Fits(qos, state, states) ==
  /\ qos \in {1, 2} /\ state \in states
  /\ state \in {"PubAckPending", "PubAckSend"} => qos = 1
  /\ state \notin {"PublishSend", "PubAckPending", "PubAckSend"} => qos = 2
Array(slots, states) == (\A k \in DOMAIN slots : IsSlot(slots[k])) /\ WellFormed(slots, states)
OutgoingStates == OutgoingPublishStates \cup OutgoingRelStates
RecordsOK(r) ==
  /\ r \in [outgoing : {r.outgoing}, incoming : {r.incoming}]
  /\ Array(r.outgoing, OutgoingStates) /\ Array(r.incoming, IncomingStates)
RecordsInv == RecordsOK(records)

-----------------------------------------------------------------------------
(* The operations on one array *)

LEMMA EmptyIsSlot == IsSlot(EmptySlot) /\ EmptySlot.packetId = 0
BY DEF IsSlot, EmptySlot, PublishStates

\* What WellFormed asks of each record is that it fits.
LEMMA WellFormedFits ==
  ASSUME NEW slots, NEW states
  PROVE  WellFormed(slots, states) <=>
           /\ \A i, j \in Occupied(slots) : slots[i].packetId = slots[j].packetId => i = j
           /\ \A i \in Occupied(slots) : Fits(slots[i].qos, slots[i].publishState, states)
BY DEF WellFormed, Fits

\* Two records slide to different places, because their ranks are the places.
LEMMA CompactKeeps ==
  ASSUME NEW slots, NEW states, Array(slots, states)
  PROVE  Array(compactRecords(slots), states)
<1> DEFINE c == compactRecords(slots)
           From(k) == CHOOSE i \in Occupied(slots) : Rank(slots, i) = k
<1>1. \A k \in DOMAIN slots : \/ c[k] = EmptySlot
                              \/ /\ c[k] = slots[From(k)]
                                 /\ From(k) \in Occupied(slots) /\ Rank(slots, From(k)) = k
  BY DEF compactRecords
<1>2. DOMAIN c = DOMAIN slots
  BY DEF compactRecords
<1>3. Occupied(slots) \subseteq DOMAIN slots
  BY DEF Occupied
<1>4. \A k \in DOMAIN c : IsSlot(c[k])
  BY <1>1, <1>2, <1>3, EmptyIsSlot DEF Array
<1>5. \A k \in Occupied(c) : c[k] = slots[From(k)] /\ From(k) \in Occupied(slots) /\ Rank(slots, From(k)) = k
  BY <1>1, <1>2, EmptyIsSlot DEF Occupied
<1> HIDE DEF c, From
<1>6. \A i, j \in Occupied(c) : c[i].packetId = c[j].packetId => i = j
  <2> SUFFICES ASSUME NEW i \in Occupied(c), NEW j \in Occupied(c), c[i].packetId = c[j].packetId
               PROVE  i = j
    OBVIOUS
  <2>1. From(i) = From(j)
    BY <1>5, WellFormedFits DEF Array
  <2> QED BY <1>5, <2>1
<1>7. \A i \in Occupied(c) : Fits(c[i].qos, c[i].publishState, states)
  BY <1>5, WellFormedFits DEF Array
<1>8. Array(c, states)
  BY <1>4, <1>6, <1>7, WellFormedFits DEF Array
<1> QED BY <1>8 DEF c

\* One slot is written: with a record whose identifier no other has, or with none.
LEMMA WriteKeeps ==
  ASSUME NEW slots, NEW states, Array(slots, states), NEW i, NEW s, IsSlot(s),
         s.packetId # 0 => /\ Fits(s.qos, s.publishState, states)
                           /\ \A k \in DOMAIN slots : k # i => slots[k].packetId # s.packetId
  PROVE  Array([slots EXCEPT ![i] = s], states)
<1> DEFINE t == [slots EXCEPT ![i] = s]
<1>1. DOMAIN t = DOMAIN slots /\ \A k \in DOMAIN slots : t[k] = IF k = i THEN s ELSE slots[k]
  OBVIOUS
<1> HIDE DEF t
<1>2. \A k \in DOMAIN t : IsSlot(t[k])
  BY <1>1 DEF Array
<1>3. \A k \in Occupied(t) : k = i \/ k \in Occupied(slots)
  BY <1>1 DEF Occupied
<1>4. Occupied(t) \subseteq DOMAIN slots
  BY <1>1 DEF Occupied
<1>5. \A k \in Occupied(t) : Fits(t[k].qos, t[k].publishState, states)
  <2> SUFFICES ASSUME NEW k \in Occupied(t) PROVE Fits(t[k].qos, t[k].publishState, states)
    OBVIOUS
  <2>1. CASE k = i
    BY <2>1, <1>1, <1>4 DEF Occupied
  <2>2. CASE k # i
    BY <2>2, <1>1, <1>3, <1>4, WellFormedFits DEF Array
  <2> QED BY <2>1, <2>2
<1>6. \A k, m \in Occupied(t) : t[k].packetId = t[m].packetId => k = m
  <2> SUFFICES ASSUME NEW k \in Occupied(t), NEW m \in Occupied(t), t[k].packetId = t[m].packetId, k # m
               PROVE  FALSE
    OBVIOUS
  <2>0. k \in DOMAIN slots /\ m \in DOMAIN slots /\ t[k].packetId # 0 /\ t[m].packetId # 0
    BY <1>4 DEF Occupied
  <2>1. CASE k = i
    BY <2>0, <2>1, <1>1
  <2>2. CASE m = i
    BY <2>0, <2>2, <1>1
  <2>3. CASE k # i /\ m # i
    <3>1. k \in Occupied(slots) /\ m \in Occupied(slots) /\ slots[k].packetId = slots[m].packetId
      BY <1>1, <1>3, <2>0, <2>3
    <3> QED BY <3>1, WellFormedFits DEF Array
  <2> QED BY <2>1, <2>2, <2>3
<1>7. Array(t, states)
  BY <1>2, <1>5, <1>6, WellFormedFits DEF Array
<1> QED BY <1>7 DEF t

LEMMA AddKeeps ==
  ASSUME NEW slots, NEW states, Array(slots, states), NEW packetId, NEW qos, NEW state \in PublishStates,
         Fits(qos, state, states)
  PROVE  Array(addRecord(slots, packetId, qos, state).slots, states)
<1> DEFINE s == IF slots[Cardinality(DOMAIN slots)].packetId # 0 THEN compactRecords(slots) ELSE slots
           new == [packetId |-> packetId, qos |-> qos, publishState |-> state]
<1>1. Array(s, states)
  BY CompactKeeps
<1>2. CASE Holding(s, packetId) # {} \/ Trailing(s) = {}
  BY <1>1, <1>2 DEF addRecord
<1>3. CASE Holding(s, packetId) = {} /\ Trailing(s) # {}
  <2>1. addRecord(slots, packetId, qos, state).slots = [s EXCEPT ![First(Trailing(s))] = new]
    BY <1>3 DEF addRecord
  <2>2. IsSlot(new) /\ new.packetId = packetId /\ new.qos = qos /\ new.publishState = state
    BY DEF IsSlot, Fits
  <2>3. \A k \in DOMAIN s : s[k].packetId # packetId
    BY <1>3 DEF Holding
  <2>4. new.packetId # 0 => /\ Fits(new.qos, new.publishState, states)
                            /\ \A k \in DOMAIN s : k # First(Trailing(s)) => s[k].packetId # new.packetId
    BY <2>2, <2>3
  <2> HIDE DEF s, new
  <2> DEFINE at == First(Trailing(s))
  <2>5. Array([s EXCEPT ![at] = new], states)
    <3>1. new.packetId # 0 => /\ Fits(new.qos, new.publishState, states)
                              /\ \A k \in DOMAIN s : k # at => s[k].packetId # new.packetId
      BY <2>4
    <3> HIDE DEF at
    <3> QED BY <1>1, <2>2, <3>1, WriteKeeps
  <2> QED BY <2>1, <2>5
<1> QED BY <1>2, <1>3

LEMMA UpdateKeeps ==
  ASSUME NEW slots, NEW states, Array(slots, states), NEW i, NEW new \in PublishStates, NEW delete \in BOOLEAN,
         (~delete /\ i \in Occupied(slots)) => Fits(slots[i].qos, new, states)
  PROVE  Array(updateRecord(slots, i, new, delete), states)
<1>1. CASE i \notin DOMAIN slots
  <2> DEFINE t == updateRecord(slots, i, new, delete)
  <2>1. DOMAIN t = DOMAIN slots
    BY DEF updateRecord
  <2>2. \A k \in DOMAIN slots : t[k] = slots[k]
    BY <1>1 DEF updateRecord
  <2> HIDE DEF t
  <2>3. Occupied(t) = Occupied(slots) /\ Occupied(t) \subseteq DOMAIN slots
    BY <2>1, <2>2 DEF Occupied
  <2>4. Array(t, states)
    BY <2>1, <2>2, <2>3, WellFormedFits DEF Array
  <2> QED BY <2>4 DEF t
<1>2. CASE i \in DOMAIN slots /\ delete
  <2>1. updateRecord(slots, i, new, delete) = [slots EXCEPT ![i] = EmptySlot]
    BY <1>2 DEF updateRecord
  <2>2. Array([slots EXCEPT ![i] = EmptySlot], states)
    <3> DEFINE s == EmptySlot
    <3>1. IsSlot(s) /\ s.packetId = 0
      BY EmptyIsSlot
    <3> HIDE DEF s
    <3>2. Array([slots EXCEPT ![i] = s], states)
      BY <3>1, WriteKeeps
    <3> QED BY <3>2 DEF s
  <2> QED BY <2>1, <2>2
<1>3. CASE i \in DOMAIN slots /\ ~delete
  <2> DEFINE s == [slots[i] EXCEPT !.publishState = new]
  <2>0. IsSlot(slots[i])
    BY <1>3 DEF Array
  <2>1. updateRecord(slots, i, new, delete) = [slots EXCEPT ![i] = s]
    BY <1>3 DEF updateRecord
  <2>2. IsSlot(s) /\ s.packetId = slots[i].packetId /\ s.qos = slots[i].qos /\ s.publishState = new
    BY <2>0 DEF IsSlot
  <2> HIDE DEF s
  <2>3. ASSUME s.packetId # 0
        PROVE  /\ Fits(s.qos, s.publishState, states)
               /\ \A k \in DOMAIN slots : k # i => slots[k].packetId # s.packetId
    <3>1. i \in Occupied(slots)
      BY <1>3, <2>2, <2>3 DEF Occupied
    <3>2. \A k \in DOMAIN slots : slots[k].packetId = s.packetId => k \in Occupied(slots)
      BY <2>3 DEF Occupied
    <3> QED BY <1>3, <2>2, <3>1, <3>2, WellFormedFits DEF Array
  <2>4. Array([slots EXCEPT ![i] = s], states)
    BY <2>2, <2>3, WriteKeeps
  <2> QED BY <2>1, <2>4
<1> QED BY <1>1, <1>2, <1>3

\* The only states an acknowledgement leads to and leaves a record in are the
\* QoS 2 states of the direction that the packet and the operation are about.
LEMMA AckState ==
  ASSUME NEW type, NEW op \in {"SEND", "RECEIVE"}, NEW qos, NEW new,
         new = MQTT_CalculateStateAck(type, op, qos)
  PROVE  /\ new \in {"Null", "Done", "PubRelSend", "PubCompPending", "PubRelPending", "PubCompSend"}
         /\ new \notin {"Null", "Done"} =>
              qos = 2 /\ (IF isPublishOutgoing(type, op) THEN new \in {"PubRelSend", "PubCompPending"}
                          ELSE new \in {"PubRelPending", "PubCompSend"})
<1>1. CASE type = "PUBACK" /\ qos = 1
  BY <1>1 DEF MQTT_CalculateStateAck
<1>2. CASE type = "PUBREC" /\ qos = 2
  BY <1>2 DEF MQTT_CalculateStateAck, isPublishOutgoing
<1>3. CASE type = "PUBREL" /\ qos = 2
  BY <1>3 DEF MQTT_CalculateStateAck, isPublishOutgoing
<1>4. CASE type = "PUBCOMP" /\ qos = 2
  BY <1>4 DEF MQTT_CalculateStateAck
<1>5. CASE ~(type = "PUBACK" /\ qos = 1) /\ ~(type \in {"PUBREC", "PUBREL", "PUBCOMP"} /\ qos = 2)
  BY <1>5 DEF MQTT_CalculateStateAck
<1> QED BY <1>1, <1>2, <1>3, <1>4, <1>5

LEMMA AckArrayKeeps ==
  ASSUME NEW slots, NEW states, Array(slots, states), NEW i, NEW id, NEW current, NEW new \in PublishStates,
         new \notin {"Null", "Done"} =>
           Fits(2, new, states) /\ (i \in Occupied(slots) => slots[i].qos = 2)
  PROVE  Array(updateStateAck(slots, i, id, current, new).slots, states)
<1>1. CASE ~validateTransitionAck(current, new)
  <2>1. updateStateAck(slots, i, id, current, new) =
          [status |-> "MQTTIllegalState", newState |-> "Null", slots |-> slots]
    BY <1>1 DEF updateStateAck
  <2>2. updateStateAck(slots, i, id, current, new).slots = slots
    BY <2>1
  <2> QED BY <2>2
<1>2. CASE validateTransitionAck(current, new) /\ new = "PubRelSend"
  <2> DEFINE s == updateRecord(slots, i, new, TRUE)
             added == addRecord(s, id, 2, new)
  <2>1. Array(s, states)
    BY UpdateKeeps
  <2> HIDE DEF s
  <2>2. Array(added.slots, states)
    BY <1>2, <2>1, AddKeeps
  <2> HIDE DEF added
  <2>3. updateStateAck(slots, i, id, current, new).slots = added.slots
    BY <1>2 DEF updateStateAck, added, s
  <2> QED BY <2>2, <2>3
<1>3. CASE validateTransitionAck(current, new) /\ new # "PubRelSend"
  <2> DEFINE s == updateRecord(slots, i, new, new = "Done")
  <2>1. new # "Null"
    BY <1>3 DEF validateTransitionAck
  <2>2. (new = "Done") \in BOOLEAN
    OBVIOUS
  <2>3. (new # "Done" /\ i \in Occupied(slots)) => Fits(slots[i].qos, new, states)
    BY <2>1
  <2>4. Array(s, states)
    BY <2>2, <2>3, UpdateKeeps
  <2> HIDE DEF s
  <2>5. updateStateAck(slots, i, id, current, new).slots \in {slots, s}
    BY <1>3 DEF updateStateAck, s
  <2> QED BY <2>4, <2>5
<1> QED BY <1>1, <1>2, <1>3

-----------------------------------------------------------------------------
(* The operations on both arrays *)

LEMMA PairKeeps ==
  ASSUME NEW r, RecordsOK(r), NEW a
  PROVE  /\ Array(a, OutgoingStates) => RecordsOK([r EXCEPT !.outgoing = a])
         /\ Array(a, IncomingStates) => RecordsOK([r EXCEPT !.incoming = a])
BY DEF RecordsOK

LEMMA NoRecordsOK ==
  ASSUME NEW out \in Nat, NEW in \in Nat
  PROVE  RecordsOK([outgoing |-> NoRecords(out), incoming |-> NoRecords(in)])
<1>1. ASSUME NEW size \in Nat, NEW states PROVE Array(NoRecords(size), states)
  <2>1. \A k \in DOMAIN NoRecords(size) : NoRecords(size)[k] = EmptySlot
    BY DEF NoRecords
  <2>2. Occupied(NoRecords(size)) = {}
    BY <2>1, EmptyIsSlot DEF Occupied
  <2> QED BY <2>1, <2>2, EmptyIsSlot, WellFormedFits DEF Array
<1> QED BY <1>1 DEF RecordsOK

\* Whatever the packet and its identifier are, in either operation.
LEMMA AckKeeps ==
  ASSUME NEW r, RecordsOK(r), NEW id, NEW type, NEW op \in {"SEND", "RECEIVE"}
  PROVE  RecordsOK(AfterAck(r, type, op, MQTT_UpdateStateAck(r, id, type, op)))
<1> DEFINE out    == isPublishOutgoing(type, op)
           slots  == IF out THEN r.outgoing ELSE r.incoming
           states == IF out THEN OutgoingStates ELSE IncomingStates
           i      == First(Holding(slots, id))
           new    == MQTT_CalculateStateAck(type, op, slots[i].qos)
           ack    == MQTT_UpdateStateAck(r, id, type, op)
<1>1. Array(slots, states)
  BY DEF RecordsOK
<1>2. /\ new \in {"Null", "Done", "PubRelSend", "PubCompPending", "PubRelPending", "PubCompSend"}
      /\ new \notin {"Null", "Done"} =>
           slots[i].qos = 2 /\ (IF out THEN new \in {"PubRelSend", "PubCompPending"}
                                ELSE new \in {"PubRelPending", "PubCompSend"})
  BY AckState
<1>3. ack.slots \in {slots, updateStateAck(slots, i, id, slots[i].publishState, new).slots}
  BY DEF MQTT_UpdateStateAck
<1>4. AfterAck(r, type, op, ack) = IF out THEN [r EXCEPT !.outgoing = ack.slots]
                                   ELSE [r EXCEPT !.incoming = ack.slots]
  BY DEF AfterAck
<1> HIDE DEF ack, new, i, slots
<1>5. new \in PublishStates
  BY <1>2 DEF PublishStates, OutgoingPublishStates, OutgoingRelStates, IncomingStates
<1>6. new \notin {"Null", "Done"} => Fits(2, new, states)
  BY <1>2 DEF Fits, OutgoingStates, OutgoingRelStates, IncomingStates
<1> HIDE DEF states
<1>7. Array(updateStateAck(slots, i, id, slots[i].publishState, new).slots, states)
  BY <1>1, <1>2, <1>5, <1>6, AckArrayKeeps
<1>8. Array(ack.slots, states)
  BY <1>1, <1>3, <1>7
<1>9. RecordsOK(AfterAck(r, type, op, ack))
  BY <1>4, <1>8, PairKeeps DEF states
<1> QED BY <1>9 DEF ack

LEMMA ReserveKeeps ==
  ASSUME NEW r, RecordsOK(r), NEW id, NEW qos \in {1, 2}
  PROVE  RecordsOK(MQTT_ReserveState(r, id, qos).records)
<1> DEFINE a == addRecord(r.outgoing, id, qos, "PublishSend").slots
<1>1. "PublishSend" \in PublishStates /\ Fits(qos, "PublishSend", OutgoingStates)
  BY DEF Fits, PublishStates, OutgoingPublishStates, OutgoingStates
<1>2. Array(a, OutgoingStates)
  BY <1>1, AddKeeps DEF RecordsOK
<1>3. MQTT_ReserveState(r, id, qos).records = [r EXCEPT !.outgoing = a]
  BY DEF MQTT_ReserveState
<1> HIDE DEF a
<1>4. RecordsOK([r EXCEPT !.outgoing = a])
  BY <1>2, PairKeeps
<1> QED BY <1>3, <1>4

LEMMA PublishKeeps ==
  ASSUME NEW r, RecordsOK(r), NEW id, NEW op \in {"SEND", "RECEIVE"}, NEW qos \in {1, 2}
  PROVE  RecordsOK(MQTT_UpdateStatePublish(r, id, op, qos).records)
<1> DEFINE i   == First(Holding(r.outgoing, id))
           new == MQTT_CalculateStatePublish(op, qos)
           out == updateRecord(r.outgoing, i, new, FALSE)
           inc == addRecord(r.incoming, id, qos, new).slots
<1>1. new \in PublishStates
  BY DEF MQTT_CalculateStatePublish, PublishStates, OutgoingPublishStates, IncomingStates
<1>2. CASE op = "RECEIVE"
  <2>1. Fits(qos, new, IncomingStates)
    BY <1>2 DEF Fits, MQTT_CalculateStatePublish, IncomingStates
  <2>2. MQTT_UpdateStatePublish(r, id, op, qos).records = [r EXCEPT !.incoming = inc]
    BY <1>2 DEF MQTT_UpdateStatePublish
  <2> HIDE DEF new
  <2>3. Array(inc, IncomingStates)
    BY <1>1, <2>1, AddKeeps DEF RecordsOK
  <2> HIDE DEF inc
  <2>4. RecordsOK([r EXCEPT !.incoming = inc])
    BY <2>3, PairKeeps
  <2> QED BY <2>2, <2>4
<1>3. CASE op = "SEND"
  <2>1. Fits(qos, new, OutgoingStates)
    BY <1>3 DEF Fits, MQTT_CalculateStatePublish, OutgoingStates, OutgoingPublishStates
  <2>2. \/ MQTT_UpdateStatePublish(r, id, op, qos).records = r
        \/ /\ r.outgoing[i].qos = qos
           /\ MQTT_UpdateStatePublish(r, id, op, qos).records = [r EXCEPT !.outgoing = out]
    BY <1>3 DEF MQTT_UpdateStatePublish, updateStatePublishSend
  <2> HIDE DEF new, i
  <2>3. r.outgoing[i].qos = qos => Array(out, OutgoingStates)
    BY <1>1, <2>1, UpdateKeeps DEF RecordsOK
  <2> HIDE DEF out
  <2>4. r.outgoing[i].qos = qos => RecordsOK([r EXCEPT !.outgoing = out])
    BY <2>3, PairKeeps
  <2> QED BY <2>2, <2>4
<1> QED BY <1>2, <1>3

-----------------------------------------------------------------------------
(* The steps of the client *)

LEMMA SendAcksKeeps ==
  ASSUME NEW r, RecordsOK(r), NEW id, NEW state, NEW rest, sendPublishAcks(r, id, state, rest)
  PROVE  RecordsOK(records')
<1> DEFINE type == getAckTypeToSend[state]
<1>1. \/ records' = r
      \/ records' = AfterAck(r, type, "SEND", MQTT_UpdateStateAck(r, id, type, "SEND"))
  BY DEF sendPublishAcks
<1> HIDE DEF type
<1>2. RecordsOK(AfterAck(r, type, "SEND", MQTT_UpdateStateAck(r, id, type, "SEND")))
  BY AckKeeps
<1> QED BY <1>1, <1>2

LEMMA PublishCallKeeps ==
  ASSUME NEW r, RecordsOK(r.records), NEW id, NEW m, MQTT_Publish(r, id, m)
  PROVE  RecordsOK(records')
<1>1. Qos(m) \in {1, 2}
  BY DEF Qos
<1>2. RecordsOK(MQTT_UpdateStatePublish(r.records, id, "SEND", Qos(m)).records)
  BY <1>1, PublishKeeps
<1>3. records' \in {r.records, MQTT_UpdateStatePublish(r.records, id, "SEND", Qos(m)).records}
  BY DEF MQTT_Publish
<1> QED BY <1>2, <1>3

LEMMA RecordsInit == Init => RecordsInv
BY SlotsAssumption, NoRecordsOK DEF Init, RecordsInv

LEMMA RecordsNext == RecordsInv /\ [Next]_vars => RecordsInv'
<1> SUFFICES ASSUME RecordsOK(records), [Next]_vars PROVE RecordsOK(records')
  BY DEF RecordsInv
<1>1. ASSUME NEW m \in Out, AppPublish(m) PROVE RecordsOK(records')
  <2>1. PICK r : /\ r = MQTT_ReserveState(records, nextPacketId, Qos(m))
                 /\ MQTT_Publish(r, nextPacketId, m) \/ records' = r.records
    BY <1>1 DEF AppPublish
  <2>2. RecordsOK(r.records)
    BY <2>1, ReserveKeeps DEF Qos
  <2> QED BY <2>1, <2>2, PublishCallKeeps
<1>2. CASE Resend
  <2>1. PICK id : LET m == published[id]
                      r == MQTT_ReserveState(records, id, Qos(m))
                  IN  MQTT_Publish(r, id, m) \/ UNCHANGED records
    BY <1>2 DEF Resend
  <2> DEFINE m == published[id]
             r == MQTT_ReserveState(records, id, Qos(m))
  <2>2. RecordsOK(r.records)
    BY ReserveKeeps DEF Qos
  <2>3. MQTT_Publish(r, id, m) \/ UNCHANGED records
    BY <2>1
  <2> HIDE DEF r, m
  <2> QED BY <2>2, <2>3, PublishCallKeeps
<1>3. CASE handleIncomingPublish
  <2> DEFINE p == Head(toClient)
             r == MQTT_UpdateStatePublish(records, p.id, "RECEIVE", Qos(p.msg))
  <2>1. PICK state : sendPublishAcks(r.records, p.id, state, Tail(toClient))
    BY <1>3 DEF handleIncomingPublish
  <2>2. RecordsOK(r.records)
    BY PublishKeeps DEF Qos
  <2> HIDE DEF r, p
  <2> QED BY <2>1, <2>2, SendAcksKeeps
<1>4. CASE handlePublishAcks
  <2> DEFINE p == Head(toClient)
             r == MQTT_UpdateStateAck(records, p.id, p.type, "RECEIVE")
             after == AfterAck(records, p.type, "RECEIVE", r)
  <2>1. PICK state : sendPublishAcks(after, p.id, state, Tail(toClient))
    BY <1>4 DEF handlePublishAcks
  <2>2. RecordsOK(after)
    BY AckKeeps
  <2> HIDE DEF after
  <2> QED BY <2>1, <2>2, SendAcksKeeps
<1>5. CASE handleSessionResumption
  <2>1. PICK id : sendPublishAcks(records, id, "PubRelSend", toClient) \/ UNCHANGED records
    BY <1>5 DEF handleSessionResumption
  <2> QED BY <2>1, SendAcksKeeps
<1>6. CASE ConnectWithoutSession
  BY <1>6, SlotsAssumption, NoRecordsOK DEF ConnectWithoutSession
<1>7. CASE RecvFailed \/ Connect \/ MQTT_Disconnect \/ LinkLost \/ (\E m \in In : BrokerPublish(m))
  BY <1>7 DEF RecvFailed, Connect, MQTT_Disconnect, LinkLost, BrokerPublish
<1>8. CASE BrokerStep
  BY <1>8 DEF BrokerStep, BrokerTakesPublish, BrokerTakesPubrel, BrokerTakesPubrec, BrokerTakesLast
<1>9. CASE Settled \/ UNCHANGED vars
  BY <1>9 DEF Settled, vars
<1> QED BY <1>1, <1>2, <1>3, <1>4, <1>5, <1>6, <1>7, <1>8, <1>9 DEF Next, ProcessLoop

\* In every session of any size, with any number of broken connections and
\* lost sessions, no identifier has two records in one direction, and every
\* record is in a state of its direction and its QoS (core_mqtt_state.c).
THEOREM RecordsStayWellFormed == Spec => []RecordsWellFormed
<1>1. RecordsInv => RecordsWellFormed
  BY DEF RecordsInv, RecordsOK, RecordsWellFormed, Array, OutgoingStates
<1> QED BY <1>1, RecordsInit, RecordsNext, PTL DEF Spec

-----------------------------------------------------------------------------
(* Delivery: what holds of every identifier *)

Requests == {"PUBLISH", "PUBREL"}             \* what a sender sends
Replies  == {"PUBACK", "PUBREC", "PUBCOMP"}   \* what its receiver answers
Packets  == [type : Requests \cup Replies, id : PacketIds, msg : Messages \cup {NoMessage}]
Sends    == [id : PacketIds, msg : In, rel : BOOLEAN]
Items(seq) == {seq[k] : k \in DOMAIN seq}

\* The records of an array as a set, all of them and those behind a cursor.
Behind(slots, c) == {slots[i] : i \in {j \in Occupied(slots) : j > c}}
Recs(slots) == {slots[i] : i \in Occupied(slots)}
Sized(slots) == LET n == Cardinality(DOMAIN slots) IN n \in Nat \ {0} /\ DOMAIN slots = 1..n
\* From one array to the next, the records of all but x keep their order; 0 is
\* the identifier of none.
Shifts(slots, t, x) == \A y, z : y # x /\ z # x /\ Precedes(slots, y, z) => Precedes(t, y, z)
\* The record of x stands behind all others.
EndsWith(slots, x) == \A q \in Recs(slots) : q.packetId # x => Precedes(slots, q.packetId, x)

Types ==
  /\ Sized(records.outgoing) /\ Sized(records.incoming)
  /\ \A q \in Recs(records.outgoing) : q.packetId \in PacketIds
  /\ nextPacketId \in PacketIds /\ cursor \in Nat /\ DOMAIN published \subseteq PacketIds
  /\ toBroker \in Seq(Packets) /\ toClient \in Seq(Packets)
  /\ brokerSends \in Seq(Sends)
  /\ stage \in [Messages -> {"new", "open", "done", "dropped"}]
  /\ copies \in [Messages -> 0..2]
  /\ \A m \in Messages : stage[m] = "new" => copies[m] = 0

\* At most one packet about an identifier is on its way between a sender, whose
\* requests are in one channel, and its receiver, whose replies are in the other.
Carries(seq, types, id) == \E k \in DOMAIN seq : seq[k].type \in types /\ seq[k].id = id
Single(seq, types) ==
  \A j, k \in DOMAIN seq :
    seq[j].type \in types /\ seq[k].type \in types /\ seq[j].id = seq[k].id => j = k
About(requests, replies, id) == Carries(requests, Requests, id) \/ Carries(replies, Replies, id)
OneAtATime(requests, replies) ==
  /\ Single(requests, Requests) /\ Single(replies, Replies)
  /\ \A id \in PacketIds : ~(Carries(requests, Requests, id) /\ Carries(replies, Replies, id))

\* The record of an identifier in each direction, and the broker's.
Outgoing(id) == {q \in Recs(records.outgoing) : q.packetId = id}
Incoming(id) == {q \in Recs(records.incoming) : q.packetId = id}
Sending(id)  == {s \in Items(brokerSends) : s.id = id}

\* The message behind an outgoing identifier, its record, what the broker holds
\* and the packet on its way agree.
OutRequest(p, q, msg) ==
  \/ p.type = "PUBLISH" /\ q.publishState \in {"PubAckPending", "PubRecPending"} /\ p.msg = msg
  \/ p.type = "PUBREL" /\ q.publishState = "PubCompPending"
OutReply(p, q, count, held) ==
  \/ p.type = "PUBACK" /\ q.publishState = "PubAckPending" /\ count > 0
  \/ p.type = "PUBREC" /\ q.publishState = "PubRecPending" /\ count > 0
  \/ p.type = "PUBCOMP" /\ q.publishState = "PubCompPending" /\ ~held
OutMessage(q, msg, count, held) ==
  /\ msg \in Out /\ q.qos = Qos(msg) /\ stage[msg] = "open"
  /\ q.publishState \in OutgoingRelStates => count > 0
  /\ held => q.qos = 2 /\ count > 0
  /\ ~held /\ q.qos = 2 /\ q.publishState \in OutgoingPublishStates => count = 0
OutOK(id) ==
  /\ id \in DOMAIN published <=> Outgoing(id) # {}
  /\ id \in brokerHolds => Outgoing(id) # {}
  /\ \A q \in Outgoing(id) : OutMessage(q, published[id], copies[published[id]], id \in brokerHolds)
  /\ \A p \in Items(toBroker) : p.id = id /\ p.type \in Requests =>
       \E q \in Outgoing(id) : OutRequest(p, q, published[id])
  /\ \A p \in Items(toClient) : p.id = id /\ p.type \in Replies =>
       \E q \in Outgoing(id) : OutReply(p, q, copies[published[id]], id \in brokerHolds)

\* The same of a message of the broker.
InOK(id) ==
  /\ \A s \in Sending(id) :
       /\ stage[s.msg] = "open"
       /\ s.rel => Qos(s.msg) = 2 /\ copies[s.msg] > 0
       /\ ~s.rel /\ Qos(s.msg) = 2 /\ Incoming(id) = {} => copies[s.msg] = 0
  /\ \A q \in Incoming(id) : \E s \in Sending(id) : q.qos = Qos(s.msg) /\ copies[s.msg] > 0
  /\ \A p \in Items(toClient) : p.id = id /\ p.type \in Requests =>
       \E s \in Sending(id) : (p.type = "PUBLISH" /\ ~s.rel /\ p.msg = s.msg) \/ (p.type = "PUBREL" /\ s.rel)
  /\ \A p \in Items(toBroker) : p.id = id /\ p.type \in Replies =>
       \E s \in Sending(id) :
         /\ copies[s.msg] > 0
         /\ p.type = "PUBREC" => Qos(s.msg) = 2
         /\ p.type = "PUBCOMP" => s.rel
         /\ p.type # "PUBREC" => Incoming(id) = {}

OneMessageEach ==
  /\ \A i, j \in DOMAIN published : published[i] = published[j] => i = j
  /\ \A i, j \in DOMAIN brokerSends :
       brokerSends[i].id = brokerSends[j].id \/ brokerSends[i].msg = brokerSends[j].msg => i = j

\* What is still to be sent again has no packet on its way.
Untold(q) == ~About(toBroker, toClient, q.packetId)
Resumption ==
  /\ app = "resuming" =>
       /\ \A q \in Recs(records.outgoing) : q.publishState \in OutgoingPublishStates => Untold(q)
       /\ \A q \in Behind(records.outgoing, cursor) : Untold(q)
  /\ app = "resending" =>
       \A q \in Behind(records.outgoing, cursor) : q.publishState \in OutgoingPublishStates => Untold(q)

DeliveryInv ==
  /\ Types /\ OneMessageEach /\ Resumption
  /\ OneAtATime(toBroker, toClient) /\ OneAtATime(toClient, toBroker)
  /\ \A id \in PacketIds : OutOK(id) /\ InOK(id)

-----------------------------------------------------------------------------
(* Arrays as sets of records *)

\* One slot holds the record of an identifier, and the search finds it.
LEMMA RecordFacts ==
  ASSUME NEW slots, NEW states, Array(slots, states), NEW q \in Recs(slots)
  PROVE  /\ IsSlot(q) /\ q.packetId # 0 /\ Fits(q.qos, q.publishState, states)
         /\ \A r \in Recs(slots) : r.packetId = q.packetId => r = q
BY WellFormedFits DEF Array, Recs, Occupied

LEMMA SizedPlaces ==
  ASSUME NEW slots, Sized(slots)
  PROVE  /\ Cardinality(DOMAIN slots) \in Nat \ {0}
         /\ DOMAIN slots = 1..Cardinality(DOMAIN slots)
         /\ Occupied(slots) \subseteq DOMAIN slots
BY DEF Sized, Occupied

LEMMA FindsRecord ==
  ASSUME NEW slots, NEW states, Array(slots, states), Sized(slots), NEW q \in Recs(slots)
  PROVE  /\ Holding(slots, q.packetId) # {}
         /\ First(Holding(slots, q.packetId)) \in Occupied(slots)
         /\ slots[First(Holding(slots, q.packetId))] = q
<1>1. PICK j \in Occupied(slots) : slots[j] = q
  BY DEF Recs
<1>2. q.packetId # 0 /\ j \in Nat
  BY <1>1, RecordFacts, SizedPlaces
<1>3. \A k \in DOMAIN slots : slots[k].packetId = q.packetId => k = j
  BY <1>1, <1>2, WellFormedFits DEF Array, Occupied
<1>4. Holding(slots, q.packetId) = {j}
  BY <1>1, <1>3, SizedPlaces DEF Holding
<1>5. First({j}) = j
  BY <1>2 DEF First
<1> QED BY <1>1, <1>4, <1>5

LEMMA FindsNone ==
  ASSUME NEW slots, NEW id, id # 0
  PROVE  Holding(slots, id) = {} <=> \A q \in Recs(slots) : q.packetId # id
BY DEF Holding, Recs, Occupied

LEMMA ShiftsTwice ==
  ASSUME NEW a, NEW b, NEW c, NEW x, Shifts(a, b, x), Shifts(b, c, 0) \/ Shifts(b, c, x)
  PROVE  Shifts(a, c, x)
<1> SUFFICES ASSUME NEW y, NEW z, y # x, z # x, Precedes(a, y, z) PROVE Precedes(c, y, z)
  BY DEF Shifts
<1>1. Precedes(b, y, z)
  BY DEF Shifts
<1>2. y # 0 /\ z # 0
  BY <1>1 DEF Precedes, Occupied
<1> QED BY <1>1, <1>2 DEF Shifts

LEMMA ShiftsAll == \A a, b, x : Shifts(a, b, 0) => Shifts(a, b, x)
BY DEF Shifts, Precedes, Occupied

\* Records that keep their order, and to which none is added.
LEMMA EndsWithKept ==
  ASSUME NEW slots, NEW t, NEW x, x # 0, EndsWith(slots, x), Shifts(slots, t, 0),
         \A q \in Recs(t) : \E r \in Recs(slots) : r.packetId = q.packetId
  PROVE  EndsWith(t, x)
<1> SUFFICES ASSUME NEW q \in Recs(t), q.packetId # x PROVE Precedes(t, q.packetId, x)
  BY DEF EndsWith
<1>1. PICK r \in Recs(slots) : r.packetId = q.packetId
  OBVIOUS
<1>2. Precedes(slots, q.packetId, x)
  BY <1>1 DEF EndsWith
<1>3. q.packetId # 0
  BY <1>2 DEF Precedes, Occupied
<1> QED BY <1>2, <1>3 DEF Shifts

\* The smallest of a set of places.
LEMMA FirstIsLeast ==
  ASSUME NEW S, S \subseteq Nat, S # {}
  PROVE  First(S) \in S /\ \A j \in S : First(S) <= j
<1> DEFINE R == {ss \in Nat \X Nat : ss[1] < ss[2]}
<1>1. IsWellFoundedOn(R, Nat)
  BY NatLessThanWellFounded DEF OpToRel
<1> HIDE DEF R
<1>2. PICK x \in S : \A y \in S : ~(<<y, x>> \in R)
  BY <1>1, WFMin
<1>3. \A y \in S : <<y, x>> \in Nat \X Nat /\ <<y, x>>[1] = y /\ <<y, x>>[2] = x
  OBVIOUS
<1>4. \A y \in S : ~(y < x)
  BY <1>2, <1>3 DEF R
<1>5. \A y \in S : x <= y
  BY <1>4
<1> QED BY <1>5 DEF First

\* Compaction: no record moves back, and a free slot makes the last one free.
LEMMA RankFacts ==
  ASSUME NEW slots, Sized(slots), NEW i \in Occupied(slots)
  PROVE  /\ Rank(slots, i) \in 1..i
         /\ \A j \in Occupied(slots) : j < i => Rank(slots, j) < Rank(slots, i)
<1> DEFINE Upto(k) == {j \in Occupied(slots) : j <= k}
<1>1. Occupied(slots) \subseteq Nat \ {0} /\ i \in Nat \ {0}
  BY SizedPlaces
<1>2. \A k \in Nat : IsFiniteSet(1..k) /\ Cardinality(1..k) = k
  BY FS_Interval
<1>3. ASSUME NEW k \in Nat \ {0}
      PROVE  IsFiniteSet(Upto(k)) /\ Cardinality(Upto(k)) \in 0..k
  <2>1. Upto(k) \in SUBSET (1..k)
    BY <1>1
  <2>2. IsFiniteSet(Upto(k)) /\ Cardinality(Upto(k)) <= k
    BY <1>2, <2>1, FS_Subset
  <2> QED BY <2>2, FS_CardinalityType
<1>4. Cardinality(Upto(i)) # 0
  BY <1>1, <1>3, FS_EmptySet
<1>5. ASSUME NEW j \in Occupied(slots), j < i PROVE Cardinality(Upto(j)) < Cardinality(Upto(i))
  <2>1. Upto(j) \in SUBSET Upto(i) /\ i \in Upto(i) /\ i \notin Upto(j) /\ j \in Nat \ {0}
    BY <1>1, <1>5
  <2>2. Cardinality(Upto(j)) <= Cardinality(Upto(i)) /\ Cardinality(Upto(i)) # Cardinality(Upto(j))
    BY <1>1, <1>3, <2>1, FS_Subset
  <2> QED BY <1>1, <1>3, <2>1, <2>2
<1> QED BY <1>1, <1>3, <1>4, <1>5 DEF Rank

LEMMA CompactRecs ==
  ASSUME NEW slots, NEW states, Array(slots, states), Sized(slots)
  PROVE  LET c == compactRecords(slots) IN
         /\ DOMAIN c = DOMAIN slots /\ Sized(c)
         /\ Recs(c) = Recs(slots)
         /\ \A n \in Nat : Behind(c, n) \subseteq Behind(slots, n)
         /\ Occupied(slots) # DOMAIN slots => Cardinality(DOMAIN slots) \notin Occupied(c)
         /\ Shifts(slots, c, 0)
<1> DEFINE c == compactRecords(slots)
           From(k) == CHOOSE i \in Occupied(slots) : Rank(slots, i) = k
           last == Cardinality(DOMAIN slots)
<1>1. DOMAIN c = DOMAIN slots /\ Sized(c)
  BY DEF compactRecords, Sized
<1>2. Occupied(slots) \subseteq 1..last /\ last \in Nat \ {0} /\ DOMAIN slots = 1..last
  BY SizedPlaces
<1>3. ASSUME NEW k \in DOMAIN slots
      PROVE  IF \E i \in Occupied(slots) : Rank(slots, i) = k
             THEN From(k) \in Occupied(slots) /\ Rank(slots, From(k)) = k /\ c[k] = slots[From(k)]
             ELSE c[k] = EmptySlot
  BY DEF compactRecords
<1>4. ASSUME NEW k \in Occupied(c)
      PROVE  From(k) \in Occupied(slots) /\ Rank(slots, From(k)) = k /\ c[k] = slots[From(k)]
  BY <1>1, <1>3, EmptyIsSlot DEF Occupied
<1>5. ASSUME NEW i \in Occupied(slots)
      PROVE  /\ Rank(slots, i) \in Occupied(c) /\ Rank(slots, i) <= i
             /\ c[Rank(slots, i)] = slots[i]
  <2>1. Rank(slots, i) \in 1..i
    BY RankFacts
  <2>2. Rank(slots, i) \in DOMAIN slots
    BY <1>2, <2>1
  <2>3. /\ From(Rank(slots, i)) \in Occupied(slots)
        /\ Rank(slots, From(Rank(slots, i))) = Rank(slots, i)
        /\ c[Rank(slots, i)] = slots[From(Rank(slots, i))]
    BY <1>3, <2>2
  <2> HIDE DEF From, c
  <2>4. ~(From(Rank(slots, i)) < i) /\ ~(i < From(Rank(slots, i)))
    <3> PICK f \in Occupied(slots) : f = From(Rank(slots, i)) /\ Rank(slots, f) = Rank(slots, i)
      BY <2>3
    <3>1. Rank(slots, f) \in Nat
      BY <2>1
    <3> QED BY <2>1, <3>1, RankFacts
  <2>5. From(Rank(slots, i)) = i
    BY <1>2, <2>3, <2>4
  <2>6. slots[i].packetId # 0
    BY DEF Occupied
  <2> QED BY <1>1, <2>1, <2>2, <2>3, <2>5, <2>6 DEF Occupied
<1> HIDE DEF c, From
<1>6. Recs(c) = Recs(slots)
  BY <1>4, <1>5 DEF Recs
<1>7. ASSUME NEW n \in Nat PROVE Behind(c, n) \subseteq Behind(slots, n)
  <2> SUFFICES ASSUME NEW k \in Occupied(c), k > n PROVE c[k] \in Behind(slots, n)
    BY DEF Behind
  <2>1. From(k) \in Occupied(slots) /\ Rank(slots, From(k)) = k /\ c[k] = slots[From(k)]
    BY <1>4
  <2>2. Rank(slots, From(k)) \in 1..From(k)
    BY <2>1, RankFacts
  <2>3. From(k) > n
    BY <1>2, <2>1, <2>2
  <2> QED BY <2>1, <2>3 DEF Behind
<1>8. ASSUME Occupied(slots) # DOMAIN slots PROVE last \notin Occupied(c)
  <2> SUFFICES ASSUME last \in Occupied(c) PROVE FALSE
    OBVIOUS
  <2>1. From(last) \in Occupied(slots) /\ Rank(slots, From(last)) = last
    BY <1>4
  <2> HIDE DEF last
  <2>2. Rank(slots, From(last)) \in 1..From(last)
    BY <2>1, RankFacts
  <2>3. From(last) = last
    BY <1>2, <2>1, <2>2
  <2>4. {j \in Occupied(slots) : j <= last} = Occupied(slots)
    BY <1>2
  <2>5. Cardinality(Occupied(slots)) = last
    BY <2>1, <2>3, <2>4 DEF Rank
  <2>6. IsFiniteSet(1..last) /\ Cardinality(1..last) = last
    BY <1>2, FS_Interval
  <2>7. Occupied(slots) = 1..last
    BY <1>2, <2>5, <2>6, FS_Subset
  <2> QED BY <1>2, <1>8, <2>7
<1>9. Shifts(slots, c, 0)
  <2> SUFFICES ASSUME NEW y, NEW z, Precedes(slots, y, z) PROVE Precedes(c, y, z)
    BY DEF Shifts
  <2>1. PICK i, j \in Occupied(slots) : i < j /\ slots[i].packetId = y /\ slots[j].packetId = z
    BY DEF Precedes
  <2>2. Rank(slots, i) < Rank(slots, j)
    BY <2>1, RankFacts
  <2> QED BY <1>5, <2>1, <2>2 DEF Precedes
<1> QED BY <1>1, <1>6, <1>7, <1>8, <1>9 DEF c, last

\* The slot a new record goes into is free, and there is one if any slot is.
LEMMA TrailingIsFree ==
  ASSUME NEW slots, Sized(slots)
  PROVE  /\ Trailing(slots) # {} =>
              /\ First(Trailing(slots)) \in DOMAIN slots /\ First(Trailing(slots)) \notin Occupied(slots)
              /\ \A j \in Occupied(slots) : j < First(Trailing(slots))
         /\ Cardinality(DOMAIN slots) \notin Occupied(slots) => Trailing(slots) # {}
<1>1. Trailing(slots) \subseteq Nat
  BY SizedPlaces DEF Trailing
<1>2. ASSUME Trailing(slots) # {} PROVE First(Trailing(slots)) \in Trailing(slots)
  BY <1>1, <1>2, FirstIsLeast
<1>3. \A k \in Trailing(slots) : k \in DOMAIN slots /\ k \in Nat /\ \A j \in Occupied(slots) : j < k
  BY <1>1 DEF Trailing
<1>4. \A k \in Trailing(slots) : k \notin Occupied(slots)
  BY <1>3
<1>5. ASSUME Cardinality(DOMAIN slots) \notin Occupied(slots) PROVE Trailing(slots) # {}
  <2>1. \A j \in Occupied(slots) : j < Cardinality(DOMAIN slots)
    BY <1>5, SizedPlaces
  <2>2. Cardinality(DOMAIN slots) \in DOMAIN slots
    BY SizedPlaces
  <2> QED BY <2>1, <2>2 DEF Trailing
<1> QED BY <1>2, <1>3, <1>4, <1>5

\* One slot is written: a free one, or the one of record q.
LEMMA WriteRecs ==
  ASSUME NEW slots, NEW states, Array(slots, states), Sized(slots), NEW i \in DOMAIN slots, NEW s
  PROVE  LET t == [slots EXCEPT ![i] = s]
             old == IF i \in Occupied(slots) THEN {slots[i]} ELSE {}
             new == IF s.packetId # 0 THEN {s} ELSE {}
         IN  /\ Sized(t) /\ DOMAIN t = DOMAIN slots
             /\ Recs(t) = (Recs(slots) \ old) \cup new
             /\ Occupied(t) = IF s.packetId # 0 THEN Occupied(slots) \cup {i} ELSE Occupied(slots) \ {i}
             /\ \A n \in Nat : i <= n => Behind(t, n) = Behind(slots, n)
             /\ i \in Occupied(slots) => Shifts(slots, t, slots[i].packetId)
             /\ i \in Occupied(slots) => s.packetId # slots[i].packetId \/ Shifts(slots, t, 0)
             /\ i \notin Occupied(slots) => Shifts(slots, t, 0)
<1> DEFINE t == [slots EXCEPT ![i] = s]
           old == IF i \in Occupied(slots) THEN {slots[i]} ELSE {}
           new == IF s.packetId # 0 THEN {s} ELSE {}
<1>1. DOMAIN t = DOMAIN slots /\ \A k \in DOMAIN slots : t[k] = IF k = i THEN s ELSE slots[k]
  OBVIOUS
<1> HIDE DEF t
<1>2. Sized(t)
  BY <1>1 DEF Sized
<1>3. Occupied(t) = IF s.packetId # 0 THEN Occupied(slots) \cup {i} ELSE Occupied(slots) \ {i}
  BY <1>1 DEF Occupied
<1>4. \A k, j \in Occupied(slots) : slots[k] = slots[j] => k = j
  BY WellFormedFits DEF Array
<1>5. \A k \in Occupied(slots) : k \in DOMAIN slots
  BY DEF Occupied
<1>6. Recs(t) = (Recs(slots) \ old) \cup new
  <2>1. ASSUME NEW k \in Occupied(t) PROVE t[k] \in (Recs(slots) \ old) \cup new
    <3>1. CASE k = i
      BY <1>1, <1>3, <3>1
    <3>2. CASE k # i
      <4>1. k \in Occupied(slots) /\ t[k] = slots[k]
        BY <1>1, <1>3, <1>5, <3>2
      <4>2. i \in Occupied(slots) => slots[k] # slots[i]
        BY <1>4, <3>2, <4>1
      <4> QED BY <4>1, <4>2 DEF Recs
    <3> QED BY <3>1, <3>2
  <2>2. ASSUME NEW q \in Recs(slots), q \notin old PROVE q \in Recs(t)
    <3>1. PICK k \in Occupied(slots) : q = slots[k]
      BY DEF Recs
    <3>2. k # i
      BY <2>2, <3>1
    <3>3. k \in Occupied(t) /\ t[k] = q
      BY <1>1, <1>3, <1>5, <3>1, <3>2
    <3> QED BY <3>3 DEF Recs
  <2>3. ASSUME NEW q \in new PROVE q \in Recs(t)
    BY <1>1, <1>3 DEF Recs
  <2> HIDE DEF old, new
  <2>4. \A q \in Recs(t) : \E k \in Occupied(t) : q = t[k]
    BY DEF Recs
  <2> QED BY <2>1, <2>2, <2>3, <2>4
<1>7. ASSUME NEW n \in Nat, i <= n PROVE Behind(t, n) = Behind(slots, n)
  <2>1. \A k \in DOMAIN slots : k > n => k # i
    BY <1>7, SizedPlaces
  <2>2. {j \in Occupied(t) : j > n} = {j \in Occupied(slots) : j > n}
    BY <1>3, <1>5, <2>1
  <2>3. \A k \in {j \in Occupied(slots) : j > n} : t[k] = slots[k]
    BY <1>1, <1>5, <2>1
  <2> QED BY <2>2, <2>3 DEF Behind
<1>8. ASSUME NEW x, NEW y, Precedes(slots, x, y),
             i \notin Occupied(slots) \/ s.packetId = slots[i].packetId
             \/ (x # slots[i].packetId /\ y # slots[i].packetId)
      PROVE  Precedes(t, x, y)
  <2>1. PICK j, k \in Occupied(slots) : j < k /\ slots[j].packetId = x /\ slots[k].packetId = y
    BY <1>8 DEF Precedes
  <2>2. ASSUME NEW n \in {j, k} PROVE n \in Occupied(t) /\ t[n].packetId = slots[n].packetId
    <3>1. n \in Occupied(slots) /\ n \in DOMAIN slots /\ slots[n].packetId # 0
      BY <1>5, <2>1 DEF Occupied
    <3>2. CASE n # i
      BY <1>1, <1>3, <3>1, <3>2
    <3>3. CASE n = i
      BY <1>1, <1>3, <1>8, <2>1, <3>1, <3>3
    <3> QED BY <3>2, <3>3
  <2> QED BY <2>1, <2>2 DEF Precedes
<1>9. /\ i \in Occupied(slots) => Shifts(slots, t, slots[i].packetId)
      /\ i \in Occupied(slots) => s.packetId # slots[i].packetId \/ Shifts(slots, t, 0)
      /\ i \notin Occupied(slots) => Shifts(slots, t, 0)
  BY <1>8 DEF Shifts
<1> QED BY <1>1, <1>2, <1>3, <1>6, <1>7, <1>9 DEF t, old, new

\* addRecord: a record is added behind the others unless its identifier has one
\* or the array is full; compaction takes no record away, and none back.
Adds(slots, status, t, new) ==
  /\ Sized(t)
  /\ status = "MQTTStateCollision" <=> \E q \in Recs(slots) : q.packetId = new.packetId
  /\ status = "MQTTSuccess" => Recs(t) = Recs(slots) \cup {new}
  /\ status # "MQTTSuccess" => /\ Recs(t) = Recs(slots)
                               /\ \A n \in Nat : Behind(t, n) \subseteq Behind(slots, n)
  /\ Occupied(slots) # DOMAIN slots => status # "MQTTNoMemory"
  /\ status \in {"MQTTSuccess", "MQTTStateCollision", "MQTTNoMemory"}
  /\ Shifts(slots, t, 0)
  /\ status = "MQTTSuccess" => EndsWith(t, new.packetId)

LEMMA AddRecs ==
  ASSUME NEW slots, NEW states, Array(slots, states), Sized(slots), NEW id, id # 0, NEW qos, NEW state
  PROVE  LET r == addRecord(slots, id, qos, state)
         IN  Adds(slots, r.status, r.slots, [packetId |-> id, qos |-> qos, publishState |-> state])
<1> DEFINE last == Cardinality(DOMAIN slots)
           s   == IF slots[last].packetId # 0 THEN compactRecords(slots) ELSE slots
           r   == addRecord(slots, id, qos, state)
           new == [packetId |-> id, qos |-> qos, publishState |-> state]
<1>1. last \in DOMAIN slots
  BY SizedPlaces
<1>2. /\ Array(s, states) /\ Sized(s) /\ Recs(s) = Recs(slots) /\ DOMAIN s = DOMAIN slots
      /\ \A n \in Nat : Behind(s, n) \subseteq Behind(slots, n)
      /\ Occupied(slots) # DOMAIN slots => last \notin Occupied(s)
      /\ Shifts(slots, s, 0)
  <2>1. CASE slots[last].packetId # 0
    BY <2>1, CompactKeeps, CompactRecs
  <2>2. CASE slots[last].packetId = 0
    BY <2>2 DEF Occupied, Shifts
  <2> QED BY <2>1, <2>2
<1>3. Occupied(slots) # DOMAIN slots => Trailing(s) # {}
  BY <1>2, TrailingIsFree
<1>4. Holding(s, id) # {} <=> \E q \in Recs(slots) : q.packetId = id
  BY <1>2, FindsNone
<1>5. r = IF Holding(s, id) # {} THEN [status |-> "MQTTStateCollision", slots |-> s]
          ELSE IF Trailing(s) = {} THEN [status |-> "MQTTNoMemory", slots |-> s]
          ELSE [status |-> "MQTTSuccess", slots |-> [s EXCEPT ![First(Trailing(s))] = new]]
  BY DEF addRecord
<1>9. new.packetId = id
  OBVIOUS
<1> HIDE DEF s, r, last, new
<1>6. CASE Holding(s, id) # {}
  <2>1. r.status = "MQTTStateCollision" /\ r.slots = s
    BY <1>5, <1>6
  <2> QED BY <2>1, <1>2, <1>4, <1>6, <1>9 DEF r, new, Adds
<1>7. CASE Holding(s, id) = {} /\ Trailing(s) = {}
  <2>1. r.status = "MQTTNoMemory" /\ r.slots = s
    BY <1>5, <1>7
  <2> QED BY <2>1, <1>2, <1>3, <1>4, <1>7, <1>9 DEF r, new, Adds
<1>8. CASE Holding(s, id) = {} /\ Trailing(s) # {}
  <2> DEFINE at == First(Trailing(s))
             t  == [s EXCEPT ![at] = new]
  <2>1. r.status = "MQTTSuccess" /\ r.slots = t
    BY <1>5, <1>8
  <2>2. at \in DOMAIN s /\ at \notin Occupied(s) /\ \A j \in Occupied(s) : j < at
    BY <1>2, <1>8, TrailingIsFree
  <2>3. new.packetId # 0
    BY <1>9
  <2> HIDE DEF at
  <2>4. /\ Sized(t)
        /\ Recs(t) = (Recs(s) \ (IF at \in Occupied(s) THEN {s[at]} ELSE {}))
                       \cup (IF new.packetId # 0 THEN {new} ELSE {})
        /\ Occupied(t) = IF new.packetId # 0 THEN Occupied(s) \cup {at} ELSE Occupied(s) \ {at}
        /\ Shifts(s, t, 0)
    BY <1>2, <2>2, WriteRecs
  <2>5. t[at] = new
    BY <2>2
  <2> HIDE DEF t
  <2>6. Shifts(slots, t, 0)
    BY <1>2, <2>4, ShiftsTwice
  <2>7. EndsWith(t, id)
    <3> SUFFICES ASSUME NEW k \in Occupied(t), t[k].packetId # id PROVE Precedes(t, t[k].packetId, id)
      BY DEF EndsWith, Recs
    <3>1. k < at /\ at \in Occupied(t)
      BY <1>9, <2>2, <2>3, <2>4, <2>5
    <3> QED BY <1>9, <2>5, <3>1 DEF Precedes
  <2> QED BY <1>2, <1>4, <1>8, <1>9, <2>1, <2>2, <2>3, <2>4, <2>6, <2>7 DEF r, new, Adds
<1> QED BY <1>6, <1>7, <1>8

\* updateRecord on the record of an identifier.
Writes(slots, t, q, new) ==
  /\ Sized(t) /\ DOMAIN t = DOMAIN slots
  /\ Recs(t) = (Recs(slots) \ {q}) \cup new
  /\ new = {} => Occupied(t) # DOMAIN t
  /\ \A n \in Nat : q \notin Behind(slots, n) => Behind(t, n) = Behind(slots, n)
  /\ Shifts(slots, t, IF new = {} THEN q.packetId ELSE 0)

LEMMA UpdateRecs ==
  ASSUME NEW slots, NEW states, Array(slots, states), Sized(slots), NEW q \in Recs(slots), NEW state
  PROVE  LET i == First(Holding(slots, q.packetId))
         IN  /\ Writes(slots, updateRecord(slots, i, state, TRUE), q, {})
             /\ Writes(slots, updateRecord(slots, i, state, FALSE), q, {[q EXCEPT !.publishState = state]})
<1> DEFINE i == First(Holding(slots, q.packetId))
           s == [q EXCEPT !.publishState = state]
           t == [slots EXCEPT ![i] = EmptySlot]
           u == [slots EXCEPT ![i] = s]
<1>1. i \in Occupied(slots) /\ slots[i] = q
  BY FindsRecord
<1>2. i \in DOMAIN slots /\ i \in Nat
  BY <1>1, SizedPlaces
<1>3. IsSlot(q) /\ q.packetId # 0
  BY RecordFacts
<1>4. s.packetId = q.packetId
  BY <1>3 DEF IsSlot
<1> HIDE DEF i
<1>5. t = updateRecord(slots, i, state, TRUE) /\ u = updateRecord(slots, i, state, FALSE)
  BY <1>1, <1>2 DEF updateRecord
<1>6. \A n \in Nat : q \notin Behind(slots, n) => i <= n
  BY <1>1, <1>2 DEF Behind
<1> HIDE DEF s
<1>7. Writes(slots, t, q, {})
  <2> DEFINE e == EmptySlot
  <2>1. e.packetId = 0
    BY EmptyIsSlot
  <2> HIDE DEF e
  <2>2. /\ Sized([slots EXCEPT ![i] = e]) /\ DOMAIN [slots EXCEPT ![i] = e] = DOMAIN slots
        /\ Recs([slots EXCEPT ![i] = e]) = (Recs(slots) \ (IF i \in Occupied(slots) THEN {slots[i]} ELSE {}))
                                             \cup (IF e.packetId # 0 THEN {e} ELSE {})
        /\ Occupied([slots EXCEPT ![i] = e]) =
             IF e.packetId # 0 THEN Occupied(slots) \cup {i} ELSE Occupied(slots) \ {i}
        /\ \A n \in Nat : i <= n => Behind([slots EXCEPT ![i] = e], n) = Behind(slots, n)
        /\ Shifts(slots, [slots EXCEPT ![i] = e], q.packetId)
    BY <1>1, <1>2, WriteRecs
  <2>3. Writes(slots, [slots EXCEPT ![i] = e], q, {})
    BY <1>1, <1>2, <1>6, <2>1, <2>2 DEF Writes
  <2> QED BY <2>3 DEF e
<1>8. Writes(slots, u, q, {s})
  <2>1. /\ Sized(u) /\ DOMAIN u = DOMAIN slots
        /\ Recs(u) = (Recs(slots) \ {q}) \cup {s}
        /\ \A n \in Nat : i <= n => Behind(u, n) = Behind(slots, n)
        /\ Shifts(slots, u, 0)
    BY <1>1, <1>2, <1>3, <1>4, WriteRecs
  <2> HIDE DEF u
  <2>2. {s} # {} /\ (IF {s} = {} THEN q.packetId ELSE 0) = 0
    OBVIOUS
  <2>3. Shifts(slots, u, IF {s} = {} THEN q.packetId ELSE 0)
    BY <2>1, <2>2, Zenon
  <2> QED BY <1>6, <2>1, <2>2, <2>3 DEF Writes
<1> QED BY <1>5, <1>7, <1>8 DEF i, s

\* What happens to an array when record q goes on to a state, or is done with.
Moves(slots, t, q, new) ==
  /\ Sized(t)
  /\ Recs(t) = (Recs(slots) \ {q}) \cup (IF new = "Done" THEN {} ELSE {[q EXCEPT !.publishState = new]})
  /\ new # "PubRelSend" =>
       \A n \in Nat : q \notin Behind(slots, n) => Behind(t, n) \subseteq Behind(slots, n)
  /\ Shifts(slots, t, IF new \in {"Done", "PubRelSend"} THEN q.packetId ELSE 0)
  /\ new = "PubRelSend" => EndsWith(t, q.packetId)

\* updateStateAck: a transition that is valid happens, the move behind the
\* others included, for which the deleted record leaves room.
Acks(slots, a, q, new) ==
  IF validateTransitionAck(q.publishState, new) THEN a.newState = new /\ Moves(slots, a.slots, q, new)
  ELSE a.newState = "Null" /\ a.slots = slots

LEMMA AckRecs ==
  ASSUME NEW slots, NEW states, Array(slots, states), Sized(slots), NEW q \in Recs(slots),
         NEW new, new = "PubRelSend" => q.qos = 2
  PROVE  Acks(slots, updateStateAck(slots, First(Holding(slots, q.packetId)), q.packetId, q.publishState, new),
              q, new)
<1> DEFINE i == First(Holding(slots, q.packetId))
           a == updateStateAck(slots, i, q.packetId, q.publishState, new)
           next == [q EXCEPT !.publishState = new]
<1>0. IsSlot(q) /\ q.packetId # 0 /\ \A r \in Recs(slots) : r.packetId = q.packetId => r = q
  BY RecordFacts
<1>1. CASE ~validateTransitionAck(q.publishState, new)
  <2>1. a = [status |-> "MQTTIllegalState", newState |-> "Null", slots |-> slots]
    BY <1>1 DEF updateStateAck
  <2>2. a.newState = "Null" /\ a.slots = slots
    BY <2>1
  <2> HIDE DEF a
  <2> QED BY <1>1, <2>2 DEF a, Acks
<1>2. CASE validateTransitionAck(q.publishState, new) /\ new = "PubRelSend"
  <2> DEFINE s == updateRecord(slots, i, new, TRUE)
             moved == addRecord(s, q.packetId, 2, new)
             put == [packetId |-> q.packetId, qos |-> 2, publishState |-> new]
  <2>1. /\ Sized(s) /\ DOMAIN s = DOMAIN slots /\ Recs(s) = Recs(slots) \ {q} /\ Occupied(s) # DOMAIN s
        /\ Shifts(slots, s, q.packetId)
    <3>1. Writes(slots, s, q, {})
      BY UpdateRecs
    <3> HIDE DEF s
    <3> QED BY <3>1 DEF Writes
  <2>2. Array(s, states)
    BY <1>2, UpdateKeeps DEF PublishStates, OutgoingRelStates
  <2>3. put = next
    BY <1>0, <1>2 DEF IsSlot
  <2>4. ~\E r \in Recs(s) : r.packetId = q.packetId
    BY <1>0, <2>1
  <2>5. a = [status |-> moved.status, slots |-> moved.slots,
             newState |-> IF moved.status = "MQTTSuccess" THEN new ELSE "Null"]
    BY <1>2 DEF updateStateAck
  <2> HIDE DEF s, put, next
  <2>9. Adds(s, moved.status, moved.slots, put) /\ put.packetId = q.packetId
    BY <1>0, <2>1, <2>2, AddRecs DEF put
  <2> HIDE DEF moved
  <2>6. /\ moved.status = "MQTTSuccess" /\ Sized(moved.slots) /\ Recs(moved.slots) = Recs(s) \cup {put}
        /\ Shifts(s, moved.slots, 0) /\ EndsWith(moved.slots, q.packetId)
    BY <2>1, <2>4, <2>9 DEF Adds
  <2>7. a.newState = new /\ a.slots = moved.slots
    BY <2>5, <2>6
  <2>10. Shifts(slots, moved.slots, q.packetId)
    BY <2>1, <2>6, ShiftsTwice
  <2> HIDE DEF a
  <2>8. Moves(slots, a.slots, q, new)
    BY <1>2, <2>1, <2>3, <2>6, <2>7, <2>10 DEF Moves, next
  <2> QED BY <1>2, <2>7, <2>8 DEF a, Acks
<1>3. CASE validateTransitionAck(q.publishState, new) /\ new # "PubRelSend" /\ q.publishState = new
  <2>1. a = [status |-> "MQTTSuccess", newState |-> new, slots |-> slots]
    BY <1>3 DEF updateStateAck
  <2>2. a.newState = new /\ a.slots = slots
    BY <2>1
  <2>3. next = q /\ new # "Done"
    BY <1>0, <1>3 DEF IsSlot, validateTransitionAck
  <2> HIDE DEF a
  <2>4. Moves(slots, a.slots, q, new)
    <3>1. Shifts(slots, slots, 0)
      BY DEF Shifts
    <3> QED BY <1>3, <2>2, <2>3, <3>1 DEF Moves
  <2> QED BY <1>3, <2>2, <2>4 DEF a, Acks
<1>4. CASE validateTransitionAck(q.publishState, new) /\ new # "PubRelSend" /\ q.publishState # new
  <2> DEFINE t == updateRecord(slots, i, new, new = "Done")
  <2>1. a = [status |-> "MQTTSuccess", newState |-> new, slots |-> t]
    BY <1>4 DEF updateStateAck
  <2>2. a.newState = new /\ a.slots = t
    BY <2>1
  <2>3. t = IF new = "Done" THEN updateRecord(slots, i, new, TRUE) ELSE updateRecord(slots, i, new, FALSE)
    OBVIOUS
  <2>4. Writes(slots, t, q, IF new = "Done" THEN {} ELSE {next})
    <3> HIDE DEF t
    <3>1. CASE new = "Done"
      BY <2>3, <3>1, UpdateRecs
    <3>2. CASE new # "Done"
      BY <2>3, <3>2, UpdateRecs
    <3> QED BY <3>1, <3>2
  <2> HIDE DEF a, t
  <2>5. Moves(slots, a.slots, q, new)
    BY <1>4, <2>2, <2>4 DEF Moves, Writes
  <2> QED BY <1>4, <2>2, <2>5 DEF a, Acks
<1> QED BY <1>1, <1>2, <1>3, <1>4

\* The same of both arrays, for the packets about each direction.
BothSized(r) == Sized(r.outgoing) /\ Sized(r.incoming)

LEMMA AckOutgoing ==
  ASSUME NEW r, RecordsOK(r), BothSized(r), NEW q \in Recs(r.outgoing), NEW type,
         NEW op \in {"SEND", "RECEIVE"}, isPublishOutgoing(type, op),
         NEW new, new = MQTT_CalculateStateAck(type, op, q.qos), validateTransitionAck(q.publishState, new)
  PROVE  LET a == MQTT_UpdateStateAck(r, q.packetId, type, op)
             t == AfterAck(r, type, op, a)
         IN  /\ a.newState = new
             /\ t.incoming = r.incoming /\ Moves(r.outgoing, t.outgoing, q, new)
             /\ BothSized(t)
<1> DEFINE a == MQTT_UpdateStateAck(r, q.packetId, type, op)
           t == AfterAck(r, type, op, a)
           i == First(Holding(r.outgoing, q.packetId))
<1>1. Array(r.outgoing, OutgoingStates) /\ r = [outgoing |-> r.outgoing, incoming |-> r.incoming]
  BY DEF RecordsOK
<1>2. r.outgoing[i] = q /\ Holding(r.outgoing, q.packetId) # {}
  BY <1>1, FindsRecord DEF BothSized
<1>3. new = "PubRelSend" => q.qos = 2
  BY AckState
<1>4. a = updateStateAck(r.outgoing, i, q.packetId, q.publishState, new)
  BY <1>2 DEF MQTT_UpdateStateAck
<1>5. t = [outgoing |-> a.slots, incoming |-> r.incoming]
  BY <1>1 DEF AfterAck
<1> HIDE DEF a, t
<1>9. Acks(r.outgoing, a, q, new)
  BY <1>1, <1>3, <1>4, AckRecs DEF BothSized, i
<1>6. a.newState = new /\ Moves(r.outgoing, a.slots, q, new)
  BY <1>9 DEF Acks
<1>7. t.outgoing = a.slots /\ t.incoming = r.incoming
  BY <1>5
<1>8. BothSized(t)
  BY <1>6, <1>7 DEF BothSized, Moves
<1> QED BY <1>6, <1>7, <1>8 DEF a, t

\* An acknowledgement of an incoming publish may find it in a state it does
\* not apply to, and then changes nothing.
LEMMA AckIncoming ==
  ASSUME NEW r, RecordsOK(r), BothSized(r), NEW q \in Recs(r.incoming), NEW type,
         NEW op \in {"SEND", "RECEIVE"}, ~isPublishOutgoing(type, op),
         NEW new, new = MQTT_CalculateStateAck(type, op, q.qos)
  PROVE  LET a == MQTT_UpdateStateAck(r, q.packetId, type, op)
             t == AfterAck(r, type, op, a)
         IN  /\ t.outgoing = r.outgoing /\ BothSized(t)
             /\ IF validateTransitionAck(q.publishState, new)
                THEN a.newState = new /\ Moves(r.incoming, t.incoming, q, new)
                ELSE a.newState = "Null" /\ t.incoming = r.incoming
<1> DEFINE a == MQTT_UpdateStateAck(r, q.packetId, type, op)
           t == AfterAck(r, type, op, a)
           i == First(Holding(r.incoming, q.packetId))
<1>1. Array(r.incoming, IncomingStates) /\ r = [outgoing |-> r.outgoing, incoming |-> r.incoming]
  BY DEF RecordsOK
<1>2. r.incoming[i] = q /\ Holding(r.incoming, q.packetId) # {}
  BY <1>1, FindsRecord DEF BothSized
<1>3. new = "PubRelSend" => q.qos = 2
  BY AckState
<1>4. a = updateStateAck(r.incoming, i, q.packetId, q.publishState, new)
  BY <1>2 DEF MQTT_UpdateStateAck
<1>5. t = [outgoing |-> r.outgoing, incoming |-> a.slots]
  BY <1>1 DEF AfterAck
<1> HIDE DEF a, t
<1>9. Acks(r.incoming, a, q, new)
  BY <1>1, <1>3, <1>4, AckRecs DEF BothSized, i
<1>6. IF validateTransitionAck(q.publishState, new)
      THEN a.newState = new /\ Moves(r.incoming, a.slots, q, new)
      ELSE a.newState = "Null" /\ a.slots = r.incoming
  BY <1>9 DEF Acks
<1>7. t.outgoing = r.outgoing /\ t.incoming = a.slots
  BY <1>5
<1>8. BothSized(t)
  BY <1>6, <1>7 DEF BothSized, Moves
<1> QED BY <1>6, <1>7, <1>8 DEF a, t

LEMMA AckUnknown ==
  ASSUME NEW r, RecordsOK(r), NEW id, id # 0, NEW type, NEW op, ~isPublishOutgoing(type, op),
         \A q \in Recs(r.incoming) : q.packetId # id
  PROVE  LET a == MQTT_UpdateStateAck(r, id, type, op)
         IN  a.newState = "Null" /\ AfterAck(r, type, op, a) = r
<1> DEFINE a == MQTT_UpdateStateAck(r, id, type, op)
<1>1. Holding(r.incoming, id) = {}
  BY FindsNone
<1>2. a = [status |-> "MQTTBadResponse", newState |-> "Null", slots |-> r.incoming]
  BY <1>1 DEF MQTT_UpdateStateAck
<1>3. r = [outgoing |-> r.outgoing, incoming |-> r.incoming]
  BY DEF RecordsOK
<1>4. a.newState = "Null" /\ a.slots = r.incoming
  BY <1>2
<1> HIDE DEF a
<1>5. AfterAck(r, type, op, a) = r
  BY <1>3, <1>4 DEF AfterAck
<1> QED BY <1>4, <1>5 DEF a

LEMMA ReserveRecs ==
  ASSUME NEW r, RecordsOK(r), BothSized(r), NEW id, id # 0, NEW qos
  PROVE  LET R == MQTT_ReserveState(r, id, qos)
         IN  /\ Adds(r.outgoing, R.status, R.records.outgoing,
                     [packetId |-> id, qos |-> qos, publishState |-> "PublishSend"])
             /\ R.records.incoming = r.incoming /\ BothSized(R.records)
<1> DEFINE a == addRecord(r.outgoing, id, qos, "PublishSend")
           R == MQTT_ReserveState(r, id, qos)
           new == [packetId |-> id, qos |-> qos, publishState |-> "PublishSend"]
<1>1. Adds(r.outgoing, a.status, a.slots, new)
  BY AddRecs DEF RecordsOK, BothSized
<1>2. R = [status |-> a.status, records |-> [outgoing |-> a.slots, incoming |-> r.incoming]]
  BY DEF MQTT_ReserveState, RecordsOK
<1> HIDE DEF a, R, new
<1>3. R.status = a.status /\ R.records.outgoing = a.slots /\ R.records.incoming = r.incoming
  BY <1>2
<1>4. BothSized(R.records)
  BY <1>1, <1>3 DEF BothSized, Adds
<1> QED BY <1>1, <1>3, <1>4 DEF R, new

LEMMA ReceiveRecs ==
  ASSUME NEW r, RecordsOK(r), BothSized(r), NEW id, id # 0, NEW qos
  PROVE  LET R == MQTT_UpdateStatePublish(r, id, "RECEIVE", qos)
         IN  /\ Adds(r.incoming, R.status, R.records.incoming,
                     [packetId |-> id, qos |-> qos, publishState |-> MQTT_CalculateStatePublish("RECEIVE", qos)])
             /\ R.records.outgoing = r.outgoing /\ BothSized(R.records)
<1> DEFINE state == MQTT_CalculateStatePublish("RECEIVE", qos)
           a == addRecord(r.incoming, id, qos, state)
           R == MQTT_UpdateStatePublish(r, id, "RECEIVE", qos)
           new == [packetId |-> id, qos |-> qos, publishState |-> state]
<1>1. R = [status |-> a.status, records |-> [outgoing |-> r.outgoing, incoming |-> a.slots]]
  BY DEF MQTT_UpdateStatePublish, RecordsOK
<1> HIDE DEF state
<1>2. Adds(r.incoming, a.status, a.slots, new)
  BY AddRecs DEF RecordsOK, BothSized
<1> HIDE DEF a, R, new
<1>3. R.status = a.status /\ R.records.incoming = a.slots /\ R.records.outgoing = r.outgoing
  BY <1>1
<1>4. BothSized(R.records)
  BY <1>2, <1>3 DEF BothSized, Adds
<1> QED BY <1>2, <1>3, <1>4 DEF R, new, state

\* A publish that has been sent, for the first time or again.
LEMMA PublishSendRecs ==
  ASSUME NEW r, RecordsOK(r), BothSized(r), NEW q \in Recs(r.outgoing), NEW qos \in {1, 2}, q.qos = qos,
         q.publishState \in OutgoingPublishStates
  PROVE  LET t   == MQTT_UpdateStatePublish(r, q.packetId, "SEND", qos).records
             new == MQTT_CalculateStatePublish("SEND", qos)
         IN  t.incoming = r.incoming /\ Moves(r.outgoing, t.outgoing, q, new) /\ BothSized(t)
<1> DEFINE new == MQTT_CalculateStatePublish("SEND", qos)
           t == MQTT_UpdateStatePublish(r, q.packetId, "SEND", qos).records
           i == First(Holding(r.outgoing, q.packetId))
           s == updateRecord(r.outgoing, i, new, FALSE)
<1>1. Array(r.outgoing, OutgoingStates) /\ r = [outgoing |-> r.outgoing, incoming |-> r.incoming]
  BY DEF RecordsOK
<1>2. r.outgoing[i] = q /\ Holding(r.outgoing, q.packetId) # {}
  BY <1>1, FindsRecord DEF BothSized
<1>3. Fits(q.qos, q.publishState, OutgoingStates)
  BY <1>1, RecordFacts
<1>4. new = IF qos = 1 THEN "PubAckPending" ELSE "PubRecPending"
  BY DEF MQTT_CalculateStatePublish
<1>5. validateTransitionPublish(q.publishState, new, "SEND", qos)
  BY <1>3, <1>4 DEF Fits, validateTransitionPublish, OutgoingPublishStates
<1> HIDE DEF new
<1>6. t = [outgoing |-> s, incoming |-> r.incoming]
  BY <1>1, <1>2, <1>5 DEF MQTT_UpdateStatePublish, updateStatePublishSend, new
<1> HIDE DEF t
<1>7. Moves(r.outgoing, s, q, new)
  <2>1. Writes(r.outgoing, s, q, {[q EXCEPT !.publishState = new]})
    BY <1>1, UpdateRecs DEF BothSized
  <2> HIDE DEF s
  <2> QED BY <1>4, <2>1 DEF Moves, Writes
<1> HIDE DEF s
<1>8. t.outgoing = s /\ t.incoming = r.incoming
  BY <1>6
<1>9. BothSized(t)
  BY <1>7, <1>8 DEF BothSized, Moves
<1> QED BY <1>7, <1>8, <1>9 DEF t, new

\* The resend cursor finds a record behind it and stops on it.
LEMMA SelectRecs ==
  ASSUME NEW slots, NEW states, Array(slots, states), Sized(slots), NEW wanted, NEW cur \in Nat
  PROVE  LET next == stateSelect(slots, wanted, cur)
         IN  /\ next.cursor \in Nat
             /\ next.packetId # 0 =>
                  \E q \in Behind(slots, cur) :
                    /\ q.packetId = next.packetId /\ q.publishState \in wanted
                    /\ Behind(slots, next.cursor) \subseteq Behind(slots, cur) \ {q}
<1> DEFINE hits == {i \in DOMAIN slots : i > cur /\ slots[i].publishState \in wanted}
           i == First(hits)
           next == stateSelect(slots, wanted, cur)
<1>1. DOMAIN slots \subseteq Nat /\ Cardinality(DOMAIN slots) \in Nat
  BY SizedPlaces
<1>2. CASE hits = {}
  <2>1. next = [packetId |-> 0, cursor |-> Cardinality(DOMAIN slots)]
    BY <1>2 DEF stateSelect
  <2> QED BY <1>1, <2>1
<1>3. CASE hits # {}
  <2>1. next = [packetId |-> slots[i].packetId, cursor |-> i]
    BY <1>3 DEF stateSelect
  <2>2. hits \subseteq Nat
    BY <1>1
  <2>3. i \in hits
    <3> HIDE DEF hits
    <3> QED BY <1>3, <2>2, FirstIsLeast
  <2>4. i \in DOMAIN slots /\ i > cur /\ slots[i].publishState \in wanted /\ i \in Nat
    BY <2>2, <2>3
  <2> HIDE DEF hits, i
  <2>5. next.packetId = slots[i].packetId /\ next.cursor = i
    BY <2>1
  <2> HIDE DEF next
  <2>6. ASSUME next.packetId # 0
        PROVE  /\ slots[i] \in Behind(slots, cur)
               /\ Behind(slots, i) \subseteq Behind(slots, cur) \ {slots[i]}
    <3>1. i \in Occupied(slots)
      BY <2>4, <2>5, <2>6 DEF Occupied
    <3>2. \A k \in Occupied(slots) : slots[k] = slots[i] => k = i
      BY <3>1, WellFormedFits DEF Array
    <3>3. \A k \in Occupied(slots) : k \in Nat
      BY <1>1 DEF Occupied
    <3>4. slots[i] \in Behind(slots, cur)
      BY <2>4, <3>1 DEF Behind
    <3>5. ASSUME NEW k \in Occupied(slots), k > i PROVE slots[k] \in Behind(slots, cur) /\ slots[k] # slots[i]
      BY <2>4, <3>1, <3>2, <3>3, <3>5 DEF Behind
    <3> QED BY <3>4, <3>5 DEF Behind
  <2> QED BY <2>4, <2>5, <2>6 DEF next
<1> QED BY <1>2, <1>3

-----------------------------------------------------------------------------
(* The channels *)

LEMMA ItemsOf == \A S : \A seq \in Seq(S) : Items(seq) \subseteq S
BY LenProperties DEF Items

\* A packet is put behind the others, or taken from the front.
LEMMA PutFacts ==
  ASSUME NEW s \in Seq(Packets), NEW p \in Packets
  PROVE  /\ Append(s, p) \in Seq(Packets)
         /\ Items(Append(s, p)) = Items(s) \cup {p}
         /\ \A types, id : Carries(Append(s, p), types, id) <=>
                             Carries(s, types, id) \/ (p.type \in types /\ p.id = id)
         /\ \A types : Single(s, types) /\ ~(p.type \in types /\ Carries(s, types, p.id))
                         => Single(Append(s, p), types)
<1> DEFINE t == Append(s, p)
<1>1. /\ t \in Seq(Packets) /\ Len(s) \in Nat /\ DOMAIN s = 1..Len(s) /\ DOMAIN t = 1..(Len(s) + 1)
      /\ t[Len(s) + 1] = p /\ \A k \in 1..Len(s) : t[k] = s[k]
  OBVIOUS
<1> HIDE DEF t
<1>2. \A k \in DOMAIN t : k = Len(s) + 1 \/ k \in DOMAIN s
  BY <1>1
<1>3. Len(s) + 1 \in DOMAIN t /\ Len(s) + 1 \notin DOMAIN s /\ DOMAIN s \subseteq DOMAIN t
  BY <1>1
<1>4. \A k \in DOMAIN s : t[k] = s[k]
  BY <1>1
<1>5. Items(t) = Items(s) \cup {p}
  BY <1>1, <1>2, <1>3, <1>4 DEF Items
<1>6. \A types, id : Carries(t, types, id) <=> Carries(s, types, id) \/ (p.type \in types /\ p.id = id)
  BY <1>1, <1>2, <1>3, <1>4 DEF Carries
<1>7. ASSUME NEW types, Single(s, types), ~(p.type \in types /\ Carries(s, types, p.id))
      PROVE  Single(t, types)
  <2> SUFFICES ASSUME NEW j \in DOMAIN t, NEW k \in DOMAIN t, t[j].type \in types, t[k].type \in types,
                      t[j].id = t[k].id
               PROVE  j = k
    BY DEF Single
  <2>1. CASE j \in DOMAIN s /\ k \in DOMAIN s
    BY <1>4, <1>7, <2>1 DEF Single
  <2>2. CASE j \notin DOMAIN s /\ k \in DOMAIN s
    BY <1>1, <1>2, <1>4, <1>7, <2>2 DEF Carries
  <2>3. CASE j \in DOMAIN s /\ k \notin DOMAIN s
    BY <1>1, <1>2, <1>4, <1>7, <2>3 DEF Carries
  <2> QED BY <1>2, <2>1, <2>2, <2>3
<1> QED BY <1>1, <1>5, <1>6, <1>7 DEF t

LEMMA TakeFacts ==
  ASSUME NEW s \in Seq(Packets), s # <<>>
  PROVE  /\ Head(s) \in Packets /\ Head(s) \in Items(s)
         /\ Tail(s) \in Seq(Packets)
         /\ Items(Tail(s)) \subseteq Items(s)
         /\ \A types, id : Carries(Tail(s), types, id) => Carries(s, types, id)
         /\ \A types : Head(s).type \in types => Carries(s, types, Head(s).id)
         /\ \A types : Single(s, types) =>
              /\ Single(Tail(s), types)
              /\ Head(s).type \in types => ~Carries(Tail(s), types, Head(s).id)
<1> DEFINE t == Tail(s)
           h == Head(s)
<1>1. /\ h \in Packets /\ t \in Seq(Packets) /\ Len(s) \in Nat \ {0} /\ DOMAIN s = 1..Len(s)
      /\ DOMAIN t = 1..(Len(s) - 1) /\ h = s[1] /\ \A k \in 1..(Len(s) - 1) : t[k] = s[k + 1]
  BY HeadTailProperties, LenProperties, EmptySeq
<1> HIDE DEF t, h
<1>2. 1 \in DOMAIN s
  BY <1>1
<1>3. \A k \in DOMAIN t : k + 1 \in DOMAIN s /\ k + 1 # 1 /\ t[k] = s[k + 1]
  BY <1>1
<1>4. h \in Items(s) /\ Items(t) \subseteq Items(s)
  BY <1>1, <1>2, <1>3 DEF Items
<1>5. \A types, id : Carries(t, types, id) => Carries(s, types, id)
  BY <1>3 DEF Carries
<1>6. \A types : h.type \in types => Carries(s, types, h.id)
  BY <1>1, <1>2 DEF Carries
<1>7. ASSUME NEW types, Single(s, types)
      PROVE  Single(t, types) /\ (h.type \in types => ~Carries(t, types, h.id))
  <2>1. ASSUME NEW j \in DOMAIN t, NEW k \in DOMAIN t, t[j].type \in types, t[k].type \in types,
               t[j].id = t[k].id
        PROVE  j = k
    <3>1. j + 1 = k + 1
      BY <1>3, <1>7, <2>1 DEF Single
    <3>2. j \in Int /\ k \in Int
      BY <1>1
    <3> QED BY <3>1, <3>2
  <2>2. ASSUME h.type \in types, NEW k \in DOMAIN t, t[k].type \in types, t[k].id = h.id PROVE FALSE
    BY <1>1, <1>2, <1>3, <1>7, <2>2 DEF Single
  <2> QED BY <2>1, <2>2 DEF Single, Carries
<1> QED BY <1>1, <1>4, <1>5, <1>6, <1>7 DEF t, h

\* A channel that carries a packet about an identifier has one among its items.
LEMMA CarriesItem ==
  ASSUME NEW s, NEW types, NEW id
  PROVE  Carries(s, types, id) <=> \E p \in Items(s) : p.type \in types /\ p.id = id
BY DEF Carries, Items

LEMMA NothingCarried ==
  /\ Items(<<>>) = {} /\ OneAtATime(<<>>, <<>>) /\ <<>> \in Seq(Packets)
  /\ \A id : ~About(<<>>, <<>>, id)
BY DEF Items, OneAtATime, Single, Carries, About

LEMMA Kinds == Requests \cap Replies = {} /\ \A p \in Packets : p.type \in Requests \cup Replies /\ p.id \in PacketIds
BY DEF Requests, Replies, Packets

\* A packet is taken out of one channel and answered in the other, with a reply
\* to a request or with the next request to a reply.
LEMMA Exchange ==
  ASSUME NEW from \in Seq(Packets), NEW to \in Seq(Packets), from # <<>>, NEW p \in Packets, p.id = Head(from).id,
         p.type \in Replies <=> Head(from).type \in Requests,
         OneAtATime(from, to), OneAtATime(to, from)
  PROVE  /\ OneAtATime(Tail(from), Append(to, p)) /\ OneAtATime(Append(to, p), Tail(from))
         /\ \A id : About(Tail(from), Append(to, p), id) => About(from, to, id)
         /\ \A id : About(Append(to, p), Tail(from), id) => About(to, from, id)
<1> DEFINE h == Head(from)
           f == Tail(from)
           t == Append(to, p)
<1>1. /\ h \in Packets
      /\ \A types, id : Carries(f, types, id) => Carries(from, types, id)
      /\ \A types : h.type \in types => Carries(from, types, h.id)
      /\ \A types : Single(from, types) => /\ Single(f, types)
                                           /\ h.type \in types => ~Carries(f, types, h.id)
  BY TakeFacts
<1>2. /\ \A types, id : Carries(t, types, id) <=> Carries(to, types, id) \/ (p.type \in types /\ p.id = id)
      /\ \A types : Single(to, types) /\ ~(p.type \in types /\ Carries(to, types, p.id)) => Single(t, types)
  BY PutFacts
<1> HIDE DEF h, f, t
<1>3. p.id = h.id /\ h.id \in PacketIds /\ (p.type \in Replies <=> h.type \in Requests)
      /\ (p.type \in Requests <=> h.type \in Replies)
  BY <1>1, Kinds DEF h
<1>4. OneAtATime(f, t)
  BY <1>1, <1>2, <1>3 DEF OneAtATime
<1>5. OneAtATime(t, f)
  BY <1>1, <1>2, <1>3 DEF OneAtATime
<1>6. \A id : (About(f, t, id) => About(from, to, id)) /\ (About(t, f, id) => About(to, from, id))
  BY <1>1, <1>2, <1>3 DEF About
<1> QED BY <1>4, <1>5, <1>6 DEF h, f, t

\* A packet is taken and nothing said.
LEMMA TakeOne ==
  ASSUME NEW from \in Seq(Packets), NEW to \in Seq(Packets), from # <<>>,
         OneAtATime(from, to), OneAtATime(to, from)
  PROVE  OneAtATime(Tail(from), to) /\ OneAtATime(to, Tail(from))
BY TakeFacts DEF OneAtATime

\* A request is sent about an identifier that nothing is on its way about.
LEMMA PutRequest ==
  ASSUME NEW from \in Seq(Packets), NEW to \in Seq(Packets), NEW p \in Packets, p.type \in Requests,
         OneAtATime(from, to), OneAtATime(to, from), ~About(to, from, p.id)
  PROVE  /\ OneAtATime(from, Append(to, p)) /\ OneAtATime(Append(to, p), from)
         /\ \A id : id # p.id => (About(Append(to, p), from, id) => About(to, from, id))
<1>1. p.type \notin Replies
  BY Kinds
<1> QED BY <1>1, PutFacts DEF OneAtATime, About

-----------------------------------------------------------------------------
(* What a step leaves alone *)

\* The message of a record of the application is the application's.
LEMMA OutFacts ==
  ASSUME NEW id, OutOK(id), NEW q \in Outgoing(id)
  PROVE  /\ id \in DOMAIN published /\ published[id] \in Out /\ stage[published[id]] = "open"
         /\ q.qos = Qos(published[id]) /\ q \in Recs(records.outgoing) /\ q.packetId = id
BY DEF OutOK, OutMessage, Outgoing

LEMMA SendsFacts ==
  ASSUME Types
  PROVE  \A s \in Items(brokerSends) : s \in Sends /\ s.id \in PacketIds /\ s.msg \in In /\ s.rel \in BOOLEAN
<1>1. Items(brokerSends) \subseteq Sends
  BY ItemsOf DEF Types
<1> QED BY <1>1 DEF Sends

LEMMA OutFrame ==
  ASSUME NEW id, OutOK(id),
         Outgoing(id)' = Outgoing(id),
         id \in DOMAIN published' <=> id \in DOMAIN published,
         id \in brokerHolds' <=> id \in brokerHolds,
         Outgoing(id) # {} => /\ published'[id] = published[id]
                              /\ stage'[published[id]] = stage[published[id]]
                              /\ copies'[published[id]] = copies[published[id]],
         \A p \in Items(toBroker') : p.id = id /\ p.type \in Requests => p \in Items(toBroker),
         \A p \in Items(toClient') : p.id = id /\ p.type \in Replies => p \in Items(toClient)
  PROVE  OutOK(id)'
<1>1. (id \in DOMAIN published <=> Outgoing(id) # {})' /\ (id \in brokerHolds => Outgoing(id) # {})'
  BY DEF OutOK
<1>2. ASSUME NEW q \in Outgoing(id)
      PROVE  OutMessage(q, published[id], copies[published[id]], id \in brokerHolds)'
  BY <1>2 DEF OutOK, OutMessage
<1>3. ASSUME NEW p \in Items(toBroker'), p.id = id, p.type \in Requests
      PROVE  \E q \in Outgoing(id) : OutRequest(p, q, published'[id])
  BY <1>3 DEF OutOK
<1>4. ASSUME NEW p \in Items(toClient'), p.id = id, p.type \in Replies
      PROVE  \E q \in Outgoing(id) : OutReply(p, q, copies'[published'[id]], id \in brokerHolds')
  <2>1. PICK q \in Outgoing(id) : OutReply(p, q, copies[published[id]], id \in brokerHolds)
    BY <1>4 DEF OutOK
  <2>2. OutReply(p, q, copies'[published'[id]], id \in brokerHolds')
    BY <2>1 DEF OutReply
  <2> QED BY <2>2
<1> QED BY <1>1, <1>2, <1>3, <1>4 DEF OutOK

LEMMA InFrame ==
  ASSUME NEW id, InOK(id),
         Sending(id)' = Sending(id), Incoming(id)' = Incoming(id),
         \A s \in Sending(id) : stage'[s.msg] = stage[s.msg] /\ copies'[s.msg] = copies[s.msg],
         \A p \in Items(toClient') : p.id = id /\ p.type \in Requests => p \in Items(toClient),
         \A p \in Items(toBroker') : p.id = id /\ p.type \in Replies => p \in Items(toBroker)
  PROVE  InOK(id)'
<1>1. ASSUME NEW s \in Sending(id)
      PROVE  /\ stage'[s.msg] = "open"
             /\ s.rel => Qos(s.msg) = 2 /\ copies'[s.msg] > 0
             /\ ~s.rel /\ Qos(s.msg) = 2 /\ Incoming(id) = {} => copies'[s.msg] = 0
  BY DEF InOK
<1>2. ASSUME NEW q \in Incoming(id)
      PROVE  \E s \in Sending(id) : q.qos = Qos(s.msg) /\ copies'[s.msg] > 0
  BY DEF InOK
<1>3. ASSUME NEW p \in Items(toClient'), p.id = id, p.type \in Requests
      PROVE  \E s \in Sending(id) :
               (p.type = "PUBLISH" /\ ~s.rel /\ p.msg = s.msg) \/ (p.type = "PUBREL" /\ s.rel)
  BY <1>3 DEF InOK
<1>4. ASSUME NEW p \in Items(toBroker'), p.id = id, p.type \in Replies
      PROVE  \E s \in Sending(id) :
               /\ copies'[s.msg] > 0
               /\ p.type = "PUBREC" => Qos(s.msg) = 2
               /\ p.type = "PUBCOMP" => s.rel
               /\ p.type # "PUBREC" => Incoming(id) = {}
  BY <1>4 DEF InOK
<1> QED BY <1>1, <1>2, <1>3, <1>4 DEF InOK

\* A step about a message of the broker leaves those of the application alone.
LEMMA OutSame ==
  ASSUME \A id \in PacketIds : OutOK(id),
         Recs(records'.outgoing) = Recs(records.outgoing), UNCHANGED <<published, brokerHolds>>,
         \A m \in Out : stage'[m] = stage[m] /\ copies'[m] = copies[m],
         \A p \in Items(toBroker') : p.type \in Requests => p \in Items(toBroker),
         \A p \in Items(toClient') : p.type \in Replies => p \in Items(toClient)
  PROVE  \A id \in PacketIds : OutOK(id)'
<1> SUFFICES ASSUME NEW id \in PacketIds PROVE OutOK(id)'
  OBVIOUS
<1>1. Outgoing(id)' = Outgoing(id)
  BY DEF Outgoing
<1>2. Outgoing(id) # {} => published[id] \in Out
  BY OutFacts
<1> QED BY <1>1, <1>2, OutFrame

\* And the other way round.
LEMMA InSame ==
  ASSUME \A id \in PacketIds : InOK(id), Types,
         Recs(records'.incoming) = Recs(records.incoming), UNCHANGED brokerSends,
         \A m \in In : stage'[m] = stage[m] /\ copies'[m] = copies[m],
         \A p \in Items(toClient') : p.type \in Requests => p \in Items(toClient),
         \A p \in Items(toBroker') : p.type \in Replies => p \in Items(toBroker)
  PROVE  \A id \in PacketIds : InOK(id)'
<1> SUFFICES ASSUME NEW id \in PacketIds PROVE InOK(id)'
  OBVIOUS
<1>1. Incoming(id)' = Incoming(id) /\ Sending(id)' = Sending(id)
  BY DEF Incoming, Sending, Items
<1>2. \A s \in Sending(id) : s.msg \in In
  BY SendsFacts DEF Sending
<1> QED BY <1>1, <1>2, InFrame

-----------------------------------------------------------------------------
(* The steps *)

\* When the connection breaks there is nothing on its way about anything.
LEMMA Cleared ==
  ASSUME toBroker' = <<>>, toClient' = <<>>
  PROVE  /\ OneAtATime(toBroker, toClient)' /\ OneAtATime(toClient, toBroker)' /\ Resumption'
         /\ Items(toBroker') = {} /\ Items(toClient') = {}
         /\ toBroker' \in Seq(Packets) /\ toClient' \in Seq(Packets)
BY NothingCarried DEF Resumption, Untold

LEMMA PacketFacts ==
  ASSUME NEW id \in PacketIds
  PROVE  /\ \A m \in Messages : /\ Publish(id, m) \in Packets /\ Publish(id, m).type = "PUBLISH"
                                /\ Publish(id, m).id = id /\ Publish(id, m).msg = m
         /\ \A type \in Requests \cup Replies :
              Ack(type, id) \in Packets /\ Ack(type, id).type = type /\ Ack(type, id).id = id
         /\ id # 0
BY SlotsAssumption DEF Publish, Ack, Packets, Requests, PacketIds

LEMMA IdleStep ==
  ASSUME DeliveryInv, LinkLost \/ MQTT_Disconnect \/ RecvFailed
  PROVE  DeliveryInv' /\ UNCHANGED <<stage, copies>>
<1>1. UNCHANGED <<records, nextPacketId, cursor, published, broker, ghost>>
  BY DEF LinkLost, MQTT_Disconnect, RecvFailed, client
<1>2. \/ toBroker' = <<>> /\ toClient' = <<>>
      \/ UNCHANGED <<toBroker, toClient>> /\ app' = "disconnected"
  BY DEF LinkLost, MQTT_Disconnect, RecvFailed, net, Break
<1>3. /\ toBroker' \in Seq(Packets) /\ toClient' \in Seq(Packets) /\ Resumption'
      /\ Items(toBroker') \subseteq Items(toBroker) /\ Items(toClient') \subseteq Items(toClient)
      /\ OneAtATime(toBroker, toClient)' /\ OneAtATime(toClient, toBroker)'
  <2>1. CASE toBroker' = <<>> /\ toClient' = <<>>
    BY <2>1, Cleared
  <2>2. CASE UNCHANGED <<toBroker, toClient>> /\ app' = "disconnected"
    BY <2>2 DEF DeliveryInv, Types, Resumption, OneAtATime
  <2> QED BY <1>2, <2>1, <2>2
<1>4. Types' /\ OneMessageEach'
  BY <1>1, <1>3 DEF DeliveryInv, Types, OneMessageEach, broker, ghost
<1>5. \A id \in PacketIds : OutOK(id)'
  BY <1>1, <1>3, OutSame DEF DeliveryInv, broker, ghost
<1>6. \A id \in PacketIds : InOK(id)'
  BY <1>1, <1>3, InSame DEF DeliveryInv, broker, ghost
<1>7. UNCHANGED <<stage, copies>>
  BY <1>1 DEF ghost
<1> QED BY <1>3, <1>4, <1>5, <1>6, <1>7 DEF DeliveryInv

\* A step about one identifier and one message leaves the others alone.
LEMMA OutOthers ==
  ASSUME NEW x, NEW M,
         \A id \in PacketIds : OutOK(id),
         \A q : q.packetId # x => (q \in Recs(records'.outgoing) <=> q \in Recs(records.outgoing)),
         \A id : id # x => /\ id \in DOMAIN published' <=> id \in DOMAIN published
                           /\ id \in brokerHolds' <=> id \in brokerHolds
                           /\ id \in DOMAIN published => published'[id] = published[id] /\ published[id] # M,
         \A m \in Out : m # M => stage'[m] = stage[m] /\ copies'[m] = copies[m],
         \A p \in Items(toBroker') : p.id # x /\ p.type \in Requests => p \in Items(toBroker),
         \A p \in Items(toClient') : p.id # x /\ p.type \in Replies => p \in Items(toClient)
  PROVE  \A id \in PacketIds : id # x => OutOK(id)'
<1> SUFFICES ASSUME NEW id \in PacketIds, id # x PROVE OutOK(id)'
  OBVIOUS
<1>1. Outgoing(id)' = Outgoing(id)
  BY DEF Outgoing
<1>2. Outgoing(id) # {} => published[id] \in Out /\ id \in DOMAIN published
  BY OutFacts
<1> QED BY <1>1, <1>2, OutFrame

LEMMA InOthers ==
  ASSUME NEW x, NEW M, Types,
         \A id \in PacketIds : InOK(id),
         \A q : q.packetId # x => (q \in Recs(records'.incoming) <=> q \in Recs(records.incoming)),
         \A s : s.id # x => /\ s \in Items(brokerSends') <=> s \in Items(brokerSends)
                            /\ s \in Items(brokerSends) => s.msg # M,
         \A m \in In : m # M => stage'[m] = stage[m] /\ copies'[m] = copies[m],
         \A p \in Items(toClient') : p.id # x /\ p.type \in Requests => p \in Items(toClient),
         \A p \in Items(toBroker') : p.id # x /\ p.type \in Replies => p \in Items(toBroker)
  PROVE  \A id \in PacketIds : id # x => InOK(id)'
<1> SUFFICES ASSUME NEW id \in PacketIds, id # x PROVE InOK(id)'
  OBVIOUS
<1>1. Incoming(id)' = Incoming(id) /\ Sending(id)' = Sending(id)
  BY DEF Incoming, Sending
<1>2. \A s \in Sending(id) : s.msg \in In /\ s.msg # M
  BY SendsFacts DEF Sending
<1> QED BY <1>1, <1>2, InFrame

LEMMA QosFacts ==
  ASSUME NEW m \in Messages
  PROVE  /\ Qos(m) \in {1, 2}
         /\ Qos(m) = 2 <=> m \in OutQ2 \cup InQ2
         /\ m \in Out => m \notin In
BY MessagesAssumption DEF Qos, Messages, Out, In

\* The application sends a publish for the first time, or breaks the connection trying.
LEMMA PublishStep ==
  ASSUME DeliveryInv, RecordsInv, NEW m \in Out, AppPublish(m)
  PROVE  DeliveryInv' /\ [Promise!Next]_<<stage, copies>>
<1>0. PICK x : x = nextPacketId
  OBVIOUS
<1> DEFINE R == MQTT_ReserveState(records, x, Qos(m))
           new == [packetId |-> x, qos |-> Qos(m), publishState |-> "PublishSend"]
           sent == [new EXCEPT !.publishState = MQTT_CalculateStatePublish("SEND", Qos(m))]
<1>1. /\ app = "running" /\ stage[m] = "new"
      /\ nextPacketId' = IF nextPacketId = MaxPacketId THEN 1 ELSE nextPacketId + 1
      /\ UNCHANGED <<cursor, brokerSends, brokerHolds, copies>>
  BY DEF AppPublish, MQTT_GetPacketId, broker
<1>2. \/ /\ R.status = "MQTTSuccess" /\ MQTT_Publish(R, x, m)
         /\ published' = [i \in DOMAIN published \cup {x} |-> IF i = x THEN m ELSE published[i]]
         /\ stage' = [stage EXCEPT ![m] = "open"]
      \/ /\ R.status # "MQTTSuccess" /\ records' = R.records
         /\ UNCHANGED <<toBroker, toClient, app, published, stage>>
  BY <1>0 DEF AppPublish, Reserved, net
<1>3. /\ x \in PacketIds /\ x # 0 /\ nextPacketId' \in PacketIds
      /\ RecordsOK(records) /\ BothSized(records) /\ m \in Messages
      /\ copies[m] = 0
  BY <1>0, <1>1, SlotsAssumption DEF DeliveryInv, Types, PacketIds, BothSized, RecordsInv, Messages
<1>4. /\ Adds(records.outgoing, R.status, R.records.outgoing, new)
      /\ R.records.incoming = records.incoming /\ BothSized(R.records)
  BY <1>3, ReserveRecs
<1>5. RecordsOK(R.records) /\ Qos(m) \in {1, 2}
  BY <1>3, ReserveKeeps, QosFacts
<1>6. new.packetId = x /\ new.qos = Qos(m) /\ new.publishState = "PublishSend"
  OBVIOUS
<1>7. /\ sent.packetId = x /\ sent.qos = Qos(m)
      /\ sent.publishState \in {"PubAckPending", "PubRecPending"}
  BY <1>5 DEF MQTT_CalculateStatePublish
<1>8. sent = [new EXCEPT !.publishState = MQTT_CalculateStatePublish("SEND", Qos(m))]
  OBVIOUS
<1> HIDE DEF R, new, sent
<1>9. CASE R.status # "MQTTSuccess"
  <2>1. /\ records' = R.records /\ UNCHANGED <<toBroker, toClient, app, published, stage>>
        /\ Recs(records'.outgoing) = Recs(records.outgoing) /\ records'.incoming = records.incoming
    BY <1>2, <1>4, <1>9 DEF Adds
  <2>2. Types'
    BY <1>1, <1>3, <1>4, <2>1 DEF DeliveryInv, Types, BothSized
  <2>3. OneMessageEach' /\ OneAtATime(toBroker, toClient)' /\ OneAtATime(toClient, toBroker)' /\ Resumption'
    BY <1>1, <2>1 DEF DeliveryInv, OneMessageEach, Resumption
  <2>4. \A id \in PacketIds : OutOK(id)'
    BY <1>1, <2>1, OutSame DEF DeliveryInv
  <2>5. \A id \in PacketIds : InOK(id)'
    BY <1>1, <2>1, InSame DEF DeliveryInv
  <2> QED BY <1>1, <2>1, <2>2, <2>3, <2>4, <2>5 DEF DeliveryInv
<1>10. CASE R.status = "MQTTSuccess"
  <2>1. /\ MQTT_Publish(R, x, m)
        /\ published' = [i \in DOMAIN published \cup {x} |-> IF i = x THEN m ELSE published[i]]
        /\ stage' = [stage EXCEPT ![m] = "open"]
    BY <1>2, <1>10
  <2>2. /\ Recs(R.records.outgoing) = Recs(records.outgoing) \cup {new}
        /\ ~\E q \in Recs(records.outgoing) : q.packetId = x
    BY <1>4, <1>6, <1>10 DEF Adds
  \* Either the packet is on its way, or there is no connection any more.
  <2>3. PICK q \in {new, sent} :
          /\ Recs(records'.outgoing) = Recs(records.outgoing) \cup {q}
          /\ records'.incoming = records.incoming /\ BothSized(records')
          /\ \/ /\ q = sent /\ toBroker' = Append(toBroker, Publish(x, m)) /\ toClient' = toClient
                /\ app' = app
             \/ toBroker' = <<>> /\ toClient' = <<>> /\ app' = "disconnected"
    <3>1. CASE /\ toBroker' = Append(toBroker, Publish(x, m)) /\ toClient' = toClient
               /\ records' = MQTT_UpdateStatePublish(R.records, x, "SEND", Qos(m)).records
               /\ app' = app
      <4>1. /\ records'.incoming = records.incoming /\ BothSized(records')
            /\ Moves(R.records.outgoing, records'.outgoing, new, MQTT_CalculateStatePublish("SEND", Qos(m)))
        <5>1. new \in Recs(R.records.outgoing) /\ new.publishState \in OutgoingPublishStates
          BY <1>6, <2>2 DEF OutgoingPublishStates
        <5> QED BY <1>4, <1>5, <1>6, <3>1, <5>1, PublishSendRecs
      <4>2. MQTT_CalculateStatePublish("SEND", Qos(m)) # "Done"
        BY <1>5 DEF MQTT_CalculateStatePublish
      <4>3. Recs(records'.outgoing) = (Recs(R.records.outgoing) \ {new}) \cup {sent}
        BY <1>8, <4>1, <4>2 DEF Moves
      <4>4. new \notin Recs(records.outgoing)
        BY <1>6, <2>2
      <4> QED BY <2>2, <3>1, <4>1, <4>3, <4>4
    <3>2. CASE toBroker' = <<>> /\ toClient' = <<>> /\ records' = R.records /\ app' = "disconnected"
      BY <1>4, <2>2, <3>2
    <3> QED BY <2>1, <3>1, <3>2 DEF MQTT_Publish, Sent, Break
  <2>4. q.packetId = x /\ q.qos = Qos(m) /\ q.publishState \in OutgoingPublishStates
    BY <1>6, <1>7 DEF OutgoingPublishStates
  <2>5. /\ Outgoing(x) = {} /\ x \notin DOMAIN published /\ x \notin brokerHolds
        /\ \A p \in Items(toBroker) : p.type \in Requests => p.id # x
        /\ \A p \in Items(toClient) : p.type \in Replies => p.id # x
    <3>1. Outgoing(x) = {}
      BY <2>2 DEF Outgoing
    <3>2. OutOK(x)
      BY <1>3 DEF DeliveryInv
    <3> QED BY <3>1, <3>2 DEF OutOK
  <2>6. ~About(toBroker, toClient, x)
    BY <2>5, CarriesItem DEF About
  <2>7. /\ DOMAIN published' = DOMAIN published \cup {x} /\ published'[x] = m
        /\ \A i \in DOMAIN published : published'[i] = published[i]
    BY <2>1, <2>5
  <2>8. /\ stage'[m] = "open" /\ \A k \in Messages : k # m => stage'[k] = stage[k]
        /\ stage' \in [Messages -> {"new", "open", "done", "dropped"}]
    BY <1>3, <2>1 DEF DeliveryInv, Types
  <2>9. DOMAIN published \subseteq PacketIds /\ \A i \in DOMAIN published : published[i] # m
    <3>1. DOMAIN published \subseteq PacketIds
      BY DEF DeliveryInv, Types
    <3> SUFFICES ASSUME NEW i \in DOMAIN published PROVE published[i] # m
      BY <3>1
    <3>2. OutOK(i)
      BY <3>1 DEF DeliveryInv
    <3>3. PICK r : r \in Outgoing(i)
      BY <3>2 DEF OutOK
    <3> QED BY <1>1, <3>2, <3>3, OutFacts
  <2> DEFINE p == Publish(x, m)
  <2>10. p \in Packets /\ p.type = "PUBLISH" /\ p.id = x /\ p.msg = m /\ p.type \in Requests /\ p.type \notin Replies
    BY <1>3, PacketFacts, Kinds DEF Requests
  <2>11. toBroker \in Seq(Packets) /\ toClient \in Seq(Packets)
         /\ OneAtATime(toBroker, toClient) /\ OneAtATime(toClient, toBroker)
    BY DEF DeliveryInv, Types
  <2> HIDE DEF p
  <2>12. /\ toBroker' \in Seq(Packets) /\ toClient' \in Seq(Packets)
         /\ Items(toBroker') \subseteq Items(toBroker) \cup {p} /\ Items(toClient') \subseteq Items(toClient)
         /\ p \in Items(toBroker') => q = sent
         /\ OneAtATime(toBroker, toClient)' /\ OneAtATime(toClient, toBroker)' /\ Resumption'
    <3>1. CASE q = sent /\ toBroker' = Append(toBroker, p) /\ toClient' = toClient /\ app' = app
      <4>1. /\ Append(toBroker, p) \in Seq(Packets) /\ Items(Append(toBroker, p)) = Items(toBroker) \cup {p}
            /\ OneAtATime(toClient, Append(toBroker, p)) /\ OneAtATime(Append(toBroker, p), toClient)
        BY <2>6, <2>10, <2>11, PutFacts, PutRequest
      <4>2. Resumption'
        BY <1>1, <3>1 DEF Resumption
      <4> QED BY <2>11, <3>1, <4>1, <4>2
    <3>2. CASE toBroker' = <<>> /\ toClient' = <<>>
      BY <3>2, Cleared
    <3> QED BY <2>3, <3>1, <3>2 DEF p
  <2>13. Types'
    <3>1. \A r \in Recs(records'.outgoing) : r.packetId \in PacketIds
      BY <1>3, <2>3, <2>4 DEF DeliveryInv, Types
    <3>2. \A k \in Messages : stage'[k] = "new" => copies'[k] = 0
      BY <1>1, <2>8 DEF DeliveryInv, Types
    <3>3. DOMAIN published' \subseteq PacketIds
      BY <1>3, <2>7, <2>9
    <3> QED BY <1>1, <1>3, <2>3, <2>8, <2>12, <3>1, <3>2, <3>3 DEF DeliveryInv, Types, BothSized
  <2>14. OneMessageEach'
    BY <1>1, <2>5, <2>7, <2>9 DEF DeliveryInv, OneMessageEach
  <2>15. \A id \in PacketIds : id # x => OutOK(id)'
    <3>1. \A r : r.packetId # x => (r \in Recs(records'.outgoing) <=> r \in Recs(records.outgoing))
      BY <2>3, <2>4
    <3>2. \A k \in Out : k # m => stage'[k] = stage[k] /\ copies'[k] = copies[k]
      BY <1>1, <2>8 DEF Messages
    <3>3. \A i : i # x => /\ i \in DOMAIN published' <=> i \in DOMAIN published
                          /\ i \in brokerHolds' <=> i \in brokerHolds
                          /\ i \in DOMAIN published => published'[i] = published[i] /\ published[i] # m
      BY <1>1, <2>7, <2>9
    <3>4. /\ \A k \in Items(toBroker') : k.id # x /\ k.type \in Requests => k \in Items(toBroker)
          /\ \A k \in Items(toClient') : k.id # x /\ k.type \in Replies => k \in Items(toClient)
      BY <2>10, <2>12
    <3>5. \A id \in PacketIds : OutOK(id)
      BY DEF DeliveryInv
    <3> QED BY <3>1, <3>2, <3>3, <3>4, <3>5, OutOthers
  <2>16. OutOK(x)'
    <3>1. Outgoing(x)' = {q}
      BY <2>2, <2>3, <2>4 DEF Outgoing
    <3>2. x \in DOMAIN published' /\ published'[x] = m /\ x \notin brokerHolds' /\ copies'[m] = 0 /\ m \in Out
      BY <1>1, <1>3, <2>5, <2>7
    <3>3. OutMessage(q, published[x], copies[published[x]], x \in brokerHolds)'
      BY <2>4, <2>8, <3>2 DEF OutMessage, OutgoingPublishStates, OutgoingRelStates
    <3>4. \A k \in Items(toBroker') : k.id = x /\ k.type \in Requests => OutRequest(k, q, m)
      BY <1>7, <2>5, <2>10, <2>12 DEF OutRequest
    <3>5. \A k \in Items(toClient') : k.type \in Replies => k.id # x
      BY <2>5, <2>12
    <3> QED BY <3>1, <3>2, <3>3, <3>4, <3>5 DEF OutOK
  <2>17. \A id \in PacketIds : InOK(id)'
    <3>1. \A k \in In : stage'[k] = stage[k] /\ copies'[k] = copies[k]
      BY <1>1, <1>3, <2>8, QosFacts DEF Messages
    <3>2. /\ \A k \in Items(toClient') : k.type \in Requests => k \in Items(toClient)
          /\ \A k \in Items(toBroker') : k.type \in Replies => k \in Items(toBroker)
      BY <2>10, <2>12
    <3> QED BY <1>1, <2>3, <3>1, <3>2, InSame DEF DeliveryInv
  <2>18. Promise!Next
    BY <1>1, <1>3, <2>1 DEF Promise!Next, Promise!Take
  <2> QED BY <2>12, <2>13, <2>14, <2>15, <2>16, <2>17, <2>18 DEF DeliveryInv
<1> QED BY <1>9, <1>10

\* Sending fails on a resumption: the records are those there were.
LEMMA BreakStep ==
  ASSUME DeliveryInv, toBroker' = <<>>, toClient' = <<>>, BothSized(records'), cursor' \in Nat,
         Recs(records'.outgoing) = Recs(records.outgoing), Recs(records'.incoming) = Recs(records.incoming),
         UNCHANGED <<nextPacketId, published, brokerSends, brokerHolds, stage, copies>>
  PROVE  DeliveryInv'
<1>1. Types' /\ OneMessageEach'
  BY NothingCarried DEF DeliveryInv, Types, OneMessageEach, BothSized
<1>2. \A id \in PacketIds : OutOK(id)'
  BY Cleared, OutSame DEF DeliveryInv
<1>3. \A id \in PacketIds : InOK(id)'
  BY Cleared, InSame DEF DeliveryInv
<1> QED BY <1>1, <1>2, <1>3, Cleared DEF DeliveryInv

\* A request is sent again, about a record the resumption has come to.
LEMMA SendAgain ==
  ASSUME DeliveryInv, RecordsInv, NEW q \in Recs(records.outgoing), Untold(q),
         NEW p \in Packets, p.id = q.packetId, p.type \in Requests,
         NEW s, s.packetId = q.packetId, s.qos = q.qos, OutRequest(p, s, published[p.id]),
         q.publishState \in OutgoingPublishStates <=> s.publishState \in OutgoingPublishStates,
         q.publishState \in OutgoingRelStates <=> s.publishState \in OutgoingRelStates,
         app = "resending" \/ (app = "resuming" /\ s.publishState \notin OutgoingPublishStates),
         Recs(records'.outgoing) = (Recs(records.outgoing) \ {q}) \cup {s},
         Recs(records'.incoming) = Recs(records.incoming), BothSized(records'),
         cursor' \in Nat, Behind(records'.outgoing, cursor') \subseteq Behind(records.outgoing, cursor) \ {q},
         toBroker' = Append(toBroker, p), toClient' = toClient,
         UNCHANGED <<app, nextPacketId, published, brokerSends, brokerHolds, stage, copies>>
  PROVE  DeliveryInv'
<1> DEFINE x == q.packetId
<1>1. /\ x \in PacketIds /\ OutOK(x) /\ q \in Outgoing(x)
      /\ \A r \in Recs(records.outgoing) : r.packetId = x => r = q
  <2>1. x \in PacketIds
    BY DEF DeliveryInv, Types
  <2> QED BY <2>1, RecordFacts DEF DeliveryInv, Outgoing, RecordsInv, RecordsOK
<1>2. toBroker \in Seq(Packets) /\ toClient \in Seq(Packets)
      /\ OneAtATime(toBroker, toClient) /\ OneAtATime(toClient, toBroker)
  BY DEF DeliveryInv, Types
<1>3. p.type \notin Replies
  BY Kinds
<1>4. /\ toBroker' \in Seq(Packets) /\ toClient' \in Seq(Packets)
      /\ Items(toBroker') = Items(toBroker) \cup {p} /\ Items(toClient') = Items(toClient)
      /\ OneAtATime(toBroker, toClient)' /\ OneAtATime(toClient, toBroker)'
      /\ \A id : id # x => (About(toBroker', toClient', id) => About(toBroker, toClient, id))
  BY <1>2, PutFacts, PutRequest DEF Untold
<1>5. Types' /\ OneMessageEach'
  <2>1. \A r \in Recs(records'.outgoing) : r.packetId \in PacketIds
    BY <1>1 DEF DeliveryInv, Types
  <2> QED BY <1>4, <2>1 DEF DeliveryInv, Types, OneMessageEach, BothSized
<1>6. Resumption'
  <2>1. \A r \in Recs(records.outgoing) : r # q /\ Untold(r) => Untold(r)'
    BY <1>1, <1>4 DEF Untold
  <2>2. \A r \in Behind(records.outgoing, cursor) : r \in Recs(records.outgoing)
    BY DEF Behind, Recs
  <2>3. CASE app = "resending"
    <3>1. \A r \in Behind(records.outgoing, cursor) : r.publishState \in OutgoingPublishStates => Untold(r)
      BY <2>3 DEF DeliveryInv, Resumption
    <3>2. \A r \in Behind(records'.outgoing, cursor') : r.publishState \in OutgoingPublishStates => Untold(r)'
      BY <2>1, <2>2, <3>1
    <3> QED BY <2>3, <3>2 DEF Resumption
  <2>4. CASE app = "resuming" /\ s.publishState \notin OutgoingPublishStates
    <3>1. /\ \A r \in Recs(records.outgoing) : r.publishState \in OutgoingPublishStates => Untold(r)
          /\ \A r \in Behind(records.outgoing, cursor) : Untold(r)
      BY <2>4 DEF DeliveryInv, Resumption
    <3>2. \A r \in Behind(records'.outgoing, cursor') : Untold(r)'
      BY <2>1, <2>2, <3>1
    <3>3. \A r \in Recs(records'.outgoing) : r.publishState \in OutgoingPublishStates => Untold(r)'
      BY <2>1, <2>4, <3>1
    <3> QED BY <2>4, <3>2, <3>3 DEF Resumption
  <2> QED BY <2>3, <2>4
<1>7. \A id \in PacketIds : id # x => OutOK(id)'
  <2>1. \A r : r.packetId # x => (r \in Recs(records'.outgoing) <=> r \in Recs(records.outgoing))
    BY <1>1
  <2>2. \A id \in PacketIds : OutOK(id)
    BY DEF DeliveryInv
  <2>3. /\ \A k \in Items(toBroker') : k.id # x /\ k.type \in Requests => k \in Items(toBroker)
        /\ \A k \in Items(toClient') : k.id # x /\ k.type \in Replies => k \in Items(toClient)
    BY <1>4
  <2>4. \A id \in PacketIds : Outgoing(id) # {} => id \in DOMAIN published
    BY <2>2, OutFacts
  <2> SUFFICES ASSUME NEW id \in PacketIds, id # x PROVE OutOK(id)'
    OBVIOUS
  <2>5. Outgoing(id)' = Outgoing(id)
    BY <2>1 DEF Outgoing
  <2> QED BY <2>2, <2>3, <2>4, <2>5, OutFrame
<1>8. OutOK(x)'
  <2>1. Outgoing(x)' = {s} /\ Outgoing(x) = {q}
    BY <1>1 DEF Outgoing
  <2>2. OutMessage(s, published[x], copies[published[x]], x \in brokerHolds)'
    BY <1>1 DEF OutOK, OutMessage
  <2>3. /\ \A k \in Items(toBroker) : k.type \in Requests => k.id # x
        /\ \A k \in Items(toClient) : k.type \in Replies => k.id # x
    BY CarriesItem DEF Untold, About
  <2> HIDE DEF x
  <2>4. (x \in DOMAIN published <=> Outgoing(x) # {})' /\ (x \in brokerHolds => Outgoing(x) # {})'
    BY <1>1, <2>1 DEF OutOK
  <2>5. \A k \in Items(toBroker') : k.id = x /\ k.type \in Requests => OutRequest(k, s, published'[x])
    BY <1>4, <2>3 DEF x
  <2>6. \A k \in Items(toClient') : k.id = x => k.type \notin Replies
    BY <1>4, <2>3
  <2> QED BY <2>1, <2>2, <2>4, <2>5, <2>6 DEF OutOK
<1>9. \A id \in PacketIds : InOK(id)'
  BY <1>3, <1>4, InSame DEF DeliveryInv
<1> QED BY <1>4, <1>5, <1>6, <1>7, <1>8, <1>9 DEF DeliveryInv

LEMMA ResendStep ==
  ASSUME DeliveryInv, RecordsInv, Resend
  PROVE  DeliveryInv' /\ UNCHANGED <<stage, copies>>
<1>1. PICK next : /\ next = MQTT_PublishToResend(records, cursor)
                  /\ cursor' = next.cursor
                  /\ next.packetId = 0 => app' = "running" /\ UNCHANGED <<records, toBroker, toClient>>
                  /\ next.packetId # 0 =>
                       \E r \in {MQTT_ReserveState(records, next.packetId, Qos(published[next.packetId]))} :
                         Reserved(r, TRUE) /\ MQTT_Publish(r, next.packetId, published[next.packetId])
  BY DEF Resend, net
<1>2. app = "resending" /\ UNCHANGED <<nextPacketId, published, brokerSends, brokerHolds, stage, copies>>
  BY DEF Resend, broker, ghost
<1>3. /\ RecordsOK(records) /\ BothSized(records) /\ cursor \in Nat
      /\ Array(records.outgoing, OutgoingStates)
  BY DEF RecordsInv, RecordsOK, DeliveryInv, Types, BothSized
<1>4. /\ next.cursor \in Nat
      /\ next.packetId # 0 =>
           \E q \in Behind(records.outgoing, cursor) :
             /\ q.packetId = next.packetId /\ q.publishState \in OutgoingPublishStates
             /\ Behind(records.outgoing, next.cursor) \subseteq Behind(records.outgoing, cursor) \ {q}
  BY <1>1, <1>3, SelectRecs DEF MQTT_PublishToResend, BothSized
<1>5. CASE next.packetId = 0
  <2>1. app' = "running" /\ UNCHANGED <<records, toBroker, toClient>>
    BY <1>1, <1>5
  <2>2. Types' /\ OneMessageEach' /\ Resumption' /\ OneAtATime(toBroker, toClient)' /\ OneAtATime(toClient, toBroker)'
    BY <1>1, <1>2, <1>4, <2>1 DEF DeliveryInv, Types, OneMessageEach, Resumption
  <2>3. \A id \in PacketIds : OutOK(id)'
    BY <1>2, <2>1, OutSame DEF DeliveryInv
  <2>4. \A id \in PacketIds : InOK(id)'
    BY <1>2, <2>1, InSame DEF DeliveryInv
  <2> QED BY <1>2, <2>2, <2>3, <2>4 DEF DeliveryInv
<1>6. CASE next.packetId # 0
  <2>1. PICK q \in Behind(records.outgoing, cursor) :
             /\ q.packetId = next.packetId /\ q.publishState \in OutgoingPublishStates
             /\ Behind(records.outgoing, next.cursor) \subseteq Behind(records.outgoing, cursor) \ {q}
    BY <1>4, <1>6
  <2>2. q \in Recs(records.outgoing) /\ Untold(q)
    BY <1>2, <2>1 DEF DeliveryInv, Resumption, Behind, Recs
  <2>3. q.packetId \in PacketIds /\ OutOK(q.packetId) /\ q \in Outgoing(q.packetId)
    BY <2>2 DEF DeliveryInv, Types, Outgoing
  <2>4. PICK m : /\ m = published[q.packetId] /\ m \in Messages /\ m \in Out
                 /\ q.qos = Qos(m) /\ Qos(m) \in {1, 2} /\ q.packetId # 0
    BY <2>3, OutFacts, QosFacts, PacketFacts DEF Messages
  <2>5. PICK r : /\ r = MQTT_ReserveState(records, q.packetId, Qos(m))
                 /\ Reserved(r, TRUE) /\ MQTT_Publish(r, q.packetId, m)
    BY <1>1, <1>6, <2>1, <2>4
  <2> DEFINE new == [packetId |-> q.packetId, qos |-> Qos(m), publishState |-> "PublishSend"]
             state == MQTT_CalculateStatePublish("SEND", Qos(m))
             s == [q EXCEPT !.publishState = state]
             p == Publish(q.packetId, m)
  <2>6. /\ Adds(records.outgoing, r.status, r.records.outgoing, new)
        /\ r.records.incoming = records.incoming /\ BothSized(r.records) /\ RecordsOK(r.records)
    BY <1>3, <2>4, <2>5, ReserveRecs, ReserveKeeps
  <2>7. /\ Recs(r.records.outgoing) = Recs(records.outgoing)
        /\ \A n \in Nat : Behind(r.records.outgoing, n) \subseteq Behind(records.outgoing, n)
    <3>1. new.packetId = q.packetId
      OBVIOUS
    <3> HIDE DEF new
    <3>2. r.status = "MQTTStateCollision"
      BY <2>2, <2>6, <3>1 DEF Adds
    <3> QED BY <2>6, <3>2 DEF Adds
  <2>8. \/ /\ toBroker' = Append(toBroker, p) /\ toClient' = toClient /\ app' = app
           /\ records' = MQTT_UpdateStatePublish(r.records, q.packetId, "SEND", Qos(m)).records
        \/ toBroker' = <<>> /\ toClient' = <<>> /\ records' = r.records
    BY <2>5 DEF MQTT_Publish, Sent, Break
  <2>9. IsSlot(q)
    BY <1>3, <2>2, RecordFacts
  <2>10. /\ s.packetId = q.packetId /\ s.qos = q.qos /\ s.publishState = state
         /\ state \in {"PubAckPending", "PubRecPending"}
    BY <2>4, <2>9 DEF IsSlot, MQTT_CalculateStatePublish
  <2>11. p \in Packets /\ p.type = "PUBLISH" /\ p.id = q.packetId /\ p.msg = m /\ p.type \in Requests
    BY <2>3, <2>4, PacketFacts DEF Requests
  <2>12. CASE /\ toBroker' = Append(toBroker, p) /\ toClient' = toClient /\ app' = app
              /\ records' = MQTT_UpdateStatePublish(r.records, q.packetId, "SEND", Qos(m)).records
    <3>1. /\ records'.incoming = records.incoming /\ BothSized(records')
          /\ Moves(r.records.outgoing, records'.outgoing, q, state)
      BY <2>1, <2>2, <2>4, <2>6, <2>7, <2>12, PublishSendRecs
    <3> HIDE DEF state, p
    <3>2. Recs(records'.outgoing) = (Recs(records.outgoing) \ {q}) \cup {s}
      BY <2>7, <2>10, <3>1 DEF Moves
    <3> HIDE DEF s
    <3>3. q \notin Behind(r.records.outgoing, cursor')
      BY <1>1, <1>4, <2>1, <2>7
    <3>4. Behind(records'.outgoing, cursor') \subseteq Behind(records.outgoing, cursor) \ {q}
      BY <1>1, <1>4, <2>1, <2>7, <2>10, <3>1, <3>3 DEF Moves
    <3>5. OutRequest(p, s, published[p.id])
      BY <2>4, <2>10, <2>11 DEF OutRequest
    <3>6. s.publishState \in OutgoingPublishStates /\ s.publishState \notin OutgoingRelStates
          /\ q.publishState \notin OutgoingRelStates
      BY <2>1, <2>10 DEF OutgoingPublishStates, OutgoingRelStates
    <3>7. DeliveryInv'
      BY <1>1, <1>2, <1>4, <2>1, <2>2, <2>10, <2>11, <2>12, <3>1, <3>2, <3>4, <3>5, <3>6, SendAgain
    <3> QED BY <1>2, <3>7
  <2>13. CASE toBroker' = <<>> /\ toClient' = <<>> /\ records' = r.records
    <3>1. DeliveryInv'
      BY <1>1, <1>2, <1>4, <2>6, <2>7, <2>13, BreakStep
    <3> QED BY <1>2, <3>1
  <2> QED BY <2>8, <2>12, <2>13
<1> QED BY <1>5, <1>6

LEMMA ResumptionStep ==
  ASSUME DeliveryInv, RecordsInv, handleSessionResumption
  PROVE  DeliveryInv' /\ UNCHANGED <<stage, copies>>
<1>1. PICK next : /\ next = MQTT_PubrelToResend(records, cursor)
                  /\ next.packetId = 0 =>
                       app' = "resending" /\ cursor' = 0 /\ UNCHANGED <<records, toBroker, toClient>>
                  /\ next.packetId # 0 =>
                       cursor' = next.cursor /\ sendPublishAcks(records, next.packetId, "PubRelSend", toClient)
  BY DEF handleSessionResumption, net
<1>2. app = "resuming" /\ UNCHANGED <<nextPacketId, published, brokerSends, brokerHolds, stage, copies>>
  BY DEF handleSessionResumption, broker, ghost
<1>3. /\ RecordsOK(records) /\ BothSized(records) /\ cursor \in Nat
      /\ Array(records.outgoing, OutgoingStates)
  BY DEF RecordsInv, RecordsOK, DeliveryInv, Types, BothSized
<1>4. /\ next.cursor \in Nat
      /\ next.packetId # 0 =>
           \E q \in Behind(records.outgoing, cursor) :
             /\ q.packetId = next.packetId /\ q.publishState \in OutgoingRelStates
             /\ Behind(records.outgoing, next.cursor) \subseteq Behind(records.outgoing, cursor) \ {q}
  BY <1>1, <1>3, SelectRecs DEF MQTT_PubrelToResend, BothSized
<1>5. CASE next.packetId = 0
  <2>1. app' = "resending" /\ cursor' = 0 /\ UNCHANGED <<records, toBroker, toClient>>
    BY <1>1, <1>5
  <2>2. Types' /\ OneMessageEach' /\ OneAtATime(toBroker, toClient)' /\ OneAtATime(toClient, toBroker)'
    BY <1>2, <2>1 DEF DeliveryInv, Types, OneMessageEach
  <2>3. Resumption'
    <3>1. \A q \in Recs(records.outgoing) : q.publishState \in OutgoingPublishStates => Untold(q)
      BY <1>2 DEF DeliveryInv, Resumption
    <3>2. Behind(records'.outgoing, cursor') \subseteq Recs(records.outgoing)
      BY <2>1 DEF Behind, Recs
    <3>3. \A q : Untold(q)' <=> Untold(q)
      BY <2>1 DEF Untold
    <3> QED BY <2>1, <3>1, <3>2, <3>3 DEF Resumption
  <2>4. \A id \in PacketIds : OutOK(id)'
    BY <1>2, <2>1, OutSame DEF DeliveryInv
  <2>5. \A id \in PacketIds : InOK(id)'
    BY <1>2, <2>1, InSame DEF DeliveryInv
  <2> QED BY <1>2, <2>2, <2>3, <2>4, <2>5 DEF DeliveryInv
<1>6. CASE next.packetId # 0
  <2>1. PICK q \in Behind(records.outgoing, cursor) :
             /\ q.packetId = next.packetId /\ q.publishState \in OutgoingRelStates
             /\ Behind(records.outgoing, next.cursor) \subseteq Behind(records.outgoing, cursor) \ {q}
    BY <1>4, <1>6
  <2>2. q \in Recs(records.outgoing) /\ Untold(q)
    BY <1>2, <2>1 DEF DeliveryInv, Resumption, Behind, Recs
  <2>3. q.packetId \in PacketIds
    BY <2>2 DEF DeliveryInv, Types
  <2>4. IsSlot(q) /\ Fits(q.qos, q.publishState, OutgoingStates)
    BY <1>3, <2>2, RecordFacts
  <2>5. q.qos = 2 /\ q.publishState \in {"PubRelSend", "PubCompPending"} /\ q.publishState \notin OutgoingPublishStates
    BY <2>1, <2>4 DEF Fits, OutgoingRelStates, OutgoingPublishStates
  <2> DEFINE s == [q EXCEPT !.publishState = "PubCompPending"]
             p == Ack("PUBREL", q.packetId)
             after == AfterAck(records, "PUBREL", "SEND", MQTT_UpdateStateAck(records, q.packetId, "PUBREL", "SEND"))
  <2>6. \/ /\ toBroker' = Append(toBroker, p) /\ toClient' = toClient /\ app' = app
           /\ records' = after
        \/ toBroker' = <<>> /\ toClient' = <<>> /\ records' = records
    BY <1>1, <1>6, <2>1 DEF sendPublishAcks, getAckTypeToSend, Sent, Break
  <2>7. p \in Packets /\ p.type = "PUBREL" /\ p.id = q.packetId /\ p.type \in Requests
    BY <2>3, PacketFacts DEF Requests
  <2>8. s.packetId = q.packetId /\ s.qos = q.qos /\ s.publishState = "PubCompPending"
    BY <2>4 DEF IsSlot
  <2>9. CASE toBroker' = Append(toBroker, p) /\ toClient' = toClient /\ app' = app /\ records' = after
    <3>1. isPublishOutgoing("PUBREL", "SEND") /\ MQTT_CalculateStateAck("PUBREL", "SEND", q.qos) = "PubCompPending"
          /\ validateTransitionAck(q.publishState, "PubCompPending")
      BY <2>5 DEF isPublishOutgoing, MQTT_CalculateStateAck, validateTransitionAck
    <3>2. after.incoming = records.incoming /\ Moves(records.outgoing, after.outgoing, q, "PubCompPending")
          /\ BothSized(after)
      BY <1>3, <2>2, <3>1, AckOutgoing
    <3> HIDE DEF after, p
    <3>3. Recs(records'.outgoing) = (Recs(records.outgoing) \ {q}) \cup {s}
      BY <2>9, <3>2 DEF Moves
    <3> HIDE DEF s
    <3>4. Behind(records'.outgoing, cursor') \subseteq Behind(records.outgoing, cursor) \ {q}
      BY <1>1, <1>4, <1>6, <2>1, <2>9, <3>2 DEF Moves
    <3>5. OutRequest(p, s, published[p.id])
      BY <2>7, <2>8 DEF OutRequest
    <3>6. s.publishState \notin OutgoingPublishStates /\ s.publishState \in OutgoingRelStates
      BY <2>8 DEF OutgoingPublishStates, OutgoingRelStates
    <3>7. DeliveryInv'
      BY <1>1, <1>2, <1>4, <1>6, <2>1, <2>2, <2>5, <2>7, <2>8, <2>9, <3>2, <3>3, <3>4, <3>5, <3>6, SendAgain
    <3> QED BY <1>2, <3>7
  <2>10. CASE toBroker' = <<>> /\ toClient' = <<>> /\ records' = records
    <3>1. DeliveryInv'
      BY <1>1, <1>2, <1>3, <1>4, <1>6, <2>10, BreakStep
    <3> QED BY <1>2, <3>1
  <2> QED BY <2>6, <2>9, <2>10
<1> QED BY <1>5, <1>6

LEMMA AgainFacts ==
  ASSUME Types, OneMessageEach
  PROVE  /\ Again \in Seq(Packets)
         /\ \A p \in Items(Again) : /\ p.type \in Requests
                                    /\ \E s \in Items(brokerSends) :
                                         /\ s.id = p.id
                                         /\ \/ p.type = "PUBLISH" /\ ~s.rel /\ p.msg = s.msg
                                            \/ p.type = "PUBREL" /\ s.rel
         /\ Single(Again, Requests)
<1>1. /\ brokerSends \in Seq(Sends) /\ Len(brokerSends) \in Nat
      /\ DOMAIN brokerSends = 1..Len(brokerSends)
      /\ \A i \in DOMAIN brokerSends : brokerSends[i] \in Items(brokerSends)
  BY DEF Types, Items
<1>2. ASSUME NEW i \in DOMAIN brokerSends
      PROVE  /\ Again[i] \in Packets /\ Again[i].id = brokerSends[i].id
             /\ \/ Again[i].type = "PUBLISH" /\ ~brokerSends[i].rel /\ Again[i].msg = brokerSends[i].msg
                \/ Again[i].type = "PUBREL" /\ brokerSends[i].rel
  <2>1. brokerSends[i].id \in PacketIds /\ brokerSends[i].msg \in Messages
    BY <1>1, SendsFacts DEF Messages
  <2>2. Again[i] = IF brokerSends[i].rel THEN Ack("PUBREL", brokerSends[i].id)
                   ELSE Publish(brokerSends[i].id, brokerSends[i].msg)
    BY DEF Again
  <2> QED BY <2>1, <2>2, PacketFacts DEF Requests
<1>3. DOMAIN Again = DOMAIN brokerSends /\ Again = [i \in 1..Len(brokerSends) |-> Again[i]]
  BY <1>1 DEF Again
<1>4. Again \in Seq(Packets)
  <2>1. Again \in [1..Len(brokerSends) -> Packets]
    BY <1>1, <1>2, <1>3
  <2> QED BY <1>1, <2>1, SeqDef
<1>5. \A p \in Items(Again) : \E i \in DOMAIN brokerSends : p = Again[i]
  BY <1>3 DEF Items
<1>6. Single(Again, Requests)
  BY <1>2, <1>3 DEF Single, OneMessageEach
<1> QED BY <1>1, <1>2, <1>4, <1>5, <1>6 DEF Requests

LEMMA ConnectStep ==
  ASSUME DeliveryInv, Connect
  PROVE  DeliveryInv' /\ UNCHANGED <<stage, copies>>
<1>1. /\ app' = "resuming" /\ toBroker' = <<>> /\ toClient' = Again /\ cursor' = 0
      /\ UNCHANGED <<records, nextPacketId, published, brokerSends, brokerHolds, stage, copies>>
  BY DEF Connect, broker, ghost
<1>2. /\ Again \in Seq(Packets) /\ Single(Again, Requests)
      /\ \A p \in Items(Again) : /\ p.type \in Requests
                                 /\ \E s \in Items(brokerSends) :
                                      /\ s.id = p.id
                                      /\ \/ p.type = "PUBLISH" /\ ~s.rel /\ p.msg = s.msg
                                         \/ p.type = "PUBREL" /\ s.rel
  BY AgainFacts DEF DeliveryInv
<1>3. \A id : ~Carries(Again, Replies, id) /\ ~Carries(<<>>, Replies, id) /\ ~Carries(<<>>, Requests, id)
  BY <1>2, CarriesItem, NothingCarried, Kinds
<1>4. OneAtATime(<<>>, Again) /\ OneAtATime(Again, <<>>)
  BY <1>2, <1>3 DEF OneAtATime, Single, Carries
<1>5. Types' /\ OneMessageEach'
  BY <1>1, <1>2, NothingCarried DEF DeliveryInv, Types, OneMessageEach
<1>6. Resumption'
  BY <1>1, <1>3 DEF Resumption, Untold, About
<1>7. \A p \in Items(toClient') : p.type \notin Replies
  BY <1>1, <1>2, Kinds
<1>8. Items(toBroker') = {}
  BY <1>1, NothingCarried
<1>9. \A id \in PacketIds : OutOK(id)'
  BY <1>1, <1>7, <1>8, OutSame DEF DeliveryInv
<1>10. ASSUME NEW id \in PacketIds PROVE InOK(id)'
  <2>1. InOK(id) /\ Sending(id)' = Sending(id) /\ Incoming(id)' = Incoming(id)
    BY <1>1 DEF DeliveryInv, Sending, Incoming
  <2>2. \A p \in Items(toClient') : p.id = id =>
          \E s \in Sending(id) : (p.type = "PUBLISH" /\ ~s.rel /\ p.msg = s.msg) \/ (p.type = "PUBREL" /\ s.rel)
    BY <1>1, <1>2 DEF Sending
  <2> QED BY <1>1, <1>8, <2>1, <2>2 DEF InOK
<1> QED BY <1>1, <1>4, <1>5, <1>6, <1>9, <1>10 DEF DeliveryInv

\* Both sides start anew, with arrays of their sizes and no records.
LEMMA EmptyRecs ==
  ASSUME NEW size \in Nat \ {0}
  PROVE  Sized(NoRecords(size)) /\ Recs(NoRecords(size)) = {}
<1>1. DOMAIN NoRecords(size) = 1..size /\ \A i \in 1..size : NoRecords(size)[i] = EmptySlot
  BY DEF NoRecords
<1>2. Cardinality(1..size) = size
  BY FS_Interval
<1>3. Sized(NoRecords(size))
  BY <1>1, <1>2 DEF Sized
<1>4. Occupied(NoRecords(size)) = {}
  BY <1>1, EmptyIsSlot DEF Occupied
<1> QED BY <1>3, <1>4 DEF Recs

LEMMA Afresh ==
  ASSUME records' = [outgoing |-> NoRecords(OutgoingSlots), incoming |-> NoRecords(IncomingSlots)],
         nextPacketId' \in PacketIds, cursor' \in Nat, published' = <<>>, brokerSends' = <<>>, brokerHolds' = {},
         toBroker' = <<>>, toClient' = <<>>,
         stage' \in [Messages -> {"new", "open", "done", "dropped"}], copies' \in [Messages -> 0..2],
         \A m \in Messages : stage'[m] = "new" => copies'[m] = 0
  PROVE  DeliveryInv'
<1>1. /\ Sized(records'.outgoing) /\ Sized(records'.incoming)
      /\ Recs(records'.outgoing) = {} /\ Recs(records'.incoming) = {}
  BY EmptyRecs, SlotsAssumption
<1>2. DOMAIN published' = {} /\ DOMAIN brokerSends' = {} /\ Items(brokerSends') = {} /\ brokerSends' \in Seq(Sends)
  BY DEF Items
<1>3. Types' /\ OneMessageEach'
  BY <1>1, <1>2, NothingCarried DEF Types, OneMessageEach
<1>4. \A id : Outgoing(id)' = {} /\ Incoming(id)' = {} /\ Sending(id)' = {}
  BY <1>1, <1>2 DEF Outgoing, Incoming, Sending
<1>5. \A id : OutOK(id)'
  BY <1>2, <1>4, Cleared DEF OutOK
<1>6. \A id : InOK(id)'
  BY <1>4, Cleared DEF InOK
<1> QED BY <1>3, <1>5, <1>6, Cleared DEF DeliveryInv

LEMMA AnewStep ==
  ASSUME DeliveryInv, ConnectWithoutSession
  PROVE  DeliveryInv' /\ [Promise!Next]_<<stage, copies>>
<1>1. /\ stage' = [m \in Messages |-> IF stage[m] = "open" THEN "dropped" ELSE stage[m]]
      /\ UNCHANGED <<nextPacketId, copies>>
  BY DEF ConnectWithoutSession
<1>2. stage' \in [Messages -> {"new", "open", "done", "dropped"}] /\ copies' \in [Messages -> 0..2]
      /\ \A m \in Messages : stage'[m] = "new" => copies'[m] = 0
  BY <1>1 DEF DeliveryInv, Types
<1>3. nextPacketId' \in PacketIds
  BY <1>1 DEF DeliveryInv, Types
<1>4. DeliveryInv'
  BY <1>2, <1>3, Afresh DEF ConnectWithoutSession
<1>5. Promise!Next
  BY <1>1 DEF Promise!Next, Promise!DropSession
<1> QED BY <1>4, <1>5

LEMMA DeliveryInit == Init => DeliveryInv /\ Promise!Init
<1> SUFFICES ASSUME Init PROVE DeliveryInv /\ Promise!Init
  OBVIOUS
<1>1. /\ Sized(records.outgoing) /\ Sized(records.incoming)
      /\ Recs(records.outgoing) = {} /\ Recs(records.incoming) = {}
  BY EmptyRecs, SlotsAssumption DEF Init
<1>2. DOMAIN published = {} /\ DOMAIN brokerSends = {} /\ Items(brokerSends) = {} /\ brokerSends \in Seq(Sends)
  BY DEF Init, Items
<1>3. /\ nextPacketId \in PacketIds /\ cursor \in Nat /\ toBroker = <<>> /\ toClient = <<>> /\ brokerHolds = {}
      /\ stage = [m \in Messages |-> "new"] /\ copies = [m \in Messages |-> 0] /\ app = "disconnected"
  BY SlotsAssumption DEF Init, PacketIds
<1>4. Types /\ OneMessageEach /\ Resumption
  BY <1>1, <1>2, <1>3, NothingCarried DEF Types, OneMessageEach, Resumption
<1>5. \A id : Outgoing(id) = {} /\ Incoming(id) = {} /\ Sending(id) = {}
  BY <1>1, <1>2 DEF Outgoing, Incoming, Sending
<1>6. \A id : OutOK(id) /\ InOK(id)
  BY <1>2, <1>3, <1>5, NothingCarried DEF OutOK, InOK
<1>7. DeliveryInv
  BY <1>3, <1>4, <1>6, NothingCarried DEF DeliveryInv
<1> QED BY <1>3, <1>7 DEF Promise!Init

\* The first packet of a channel, and what else there is about its identifier.
LEMMA HeadFacts ==
  ASSUME NEW from \in Seq(Packets), NEW to \in Seq(Packets), from # <<>>,
         OneAtATime(from, to), OneAtATime(to, from)
  PROVE  LET h == Head(from)
         IN  /\ h \in Items(from) /\ h \in Packets /\ h.id \in PacketIds
             /\ Tail(from) \in Seq(Packets) /\ Items(Tail(from)) \subseteq Items(from)
             /\ h.type \in Requests => /\ h.type \notin Replies
                                       /\ \A k \in Items(Tail(from)) : k.id = h.id => k.type \notin Requests
                                       /\ \A k \in Items(to) : k.id = h.id => k.type \notin Replies
             /\ h.type \in Replies => /\ h.type \notin Requests
                                      /\ \A k \in Items(Tail(from)) : k.id = h.id => k.type \notin Replies
                                      /\ \A k \in Items(to) : k.id = h.id => k.type \notin Requests
<1> DEFINE h == Head(from)
<1>1. /\ h \in Items(from) /\ h \in Packets /\ Tail(from) \in Seq(Packets) /\ Items(Tail(from)) \subseteq Items(from)
      /\ \A types : h.type \in types => Carries(from, types, h.id)
      /\ \A types : Single(from, types) => (h.type \in types => ~Carries(Tail(from), types, h.id))
  BY TakeFacts
<1> HIDE DEF h
<1>2. h.id \in PacketIds /\ ~(h.type \in Requests /\ h.type \in Replies)
  BY <1>1, Kinds
<1>3. ASSUME h.type \in Requests
      PROVE  /\ \A k \in Items(Tail(from)) : k.id = h.id => k.type \notin Requests
             /\ \A k \in Items(to) : k.id = h.id => k.type \notin Replies
  <2>1. ~Carries(Tail(from), Requests, h.id) /\ ~Carries(to, Replies, h.id)
    BY <1>1, <1>2, <1>3 DEF OneAtATime
  <2> QED BY <2>1, CarriesItem
<1>4. ASSUME h.type \in Replies
      PROVE  /\ \A k \in Items(Tail(from)) : k.id = h.id => k.type \notin Replies
             /\ \A k \in Items(to) : k.id = h.id => k.type \notin Requests
  <2>1. ~Carries(Tail(from), Replies, h.id) /\ ~Carries(to, Requests, h.id)
    BY <1>1, <1>2, <1>4 DEF OneAtATime
  <2> QED BY <2>1, CarriesItem
<1> QED BY <1>1, <1>2, <1>3, <1>4 DEF h

LEMMA BrokerAnswers ==
  ASSUME DeliveryInv, toBroker # <<>>, NEW p \in Packets, p.id = Head(toBroker).id,
         p.type \in Replies <=> Head(toBroker).type \in Requests,
         toBroker' = Tail(toBroker), toClient' = Append(toClient, p), UNCHANGED <<records, app, cursor>>
  PROVE  /\ toBroker' \in Seq(Packets) /\ toClient' \in Seq(Packets)
         /\ Items(toClient') = Items(toClient) \cup {p}
         /\ OneAtATime(toBroker, toClient)' /\ OneAtATime(toClient, toBroker)' /\ Resumption'
<1>1. toBroker \in Seq(Packets) /\ toClient \in Seq(Packets)
      /\ OneAtATime(toBroker, toClient) /\ OneAtATime(toClient, toBroker)
  BY DEF DeliveryInv, Types
<1>2. /\ OneAtATime(toBroker', toClient') /\ OneAtATime(toClient', toBroker')
      /\ \A id : About(toBroker', toClient', id) => About(toBroker, toClient, id)
  BY <1>1, Exchange
<1>3. toBroker' \in Seq(Packets) /\ toClient' \in Seq(Packets) /\ Items(toClient') = Items(toClient) \cup {p}
  BY <1>1, PutFacts, TakeFacts
<1>4. \A q : Untold(q) => Untold(q)'
  BY <1>2 DEF Untold
<1>5. Resumption'
  BY <1>4 DEF DeliveryInv, Resumption
<1> QED BY <1>2, <1>3, <1>5

\* The broker takes a packet about an identifier of the application.
LEMMA BrokerTakesPublishStep ==
  ASSUME DeliveryInv, RecordsInv, BrokerTakesPublish
  PROVE  DeliveryInv' /\ [Promise!Next]_<<stage, copies>>
<1>1. PICK h : h = Head(toBroker)
  OBVIOUS
<1>2. PICK x : x = h.id
  OBVIOUS
<1>3. /\ toBroker # <<>> /\ h.type = "PUBLISH"
      /\ IF x \in brokerHolds THEN UNCHANGED copies ELSE Deliver(h.msg)
      /\ brokerHolds' = IF Qos(h.msg) = 2 THEN brokerHolds \cup {x} ELSE brokerHolds
      /\ BrokerReplies(Ack(IF Qos(h.msg) = 2 THEN "PUBREC" ELSE "PUBACK", x))
      /\ UNCHANGED <<records, client, brokerSends, stage>>
  BY <1>1, <1>2 DEF BrokerTakesPublish
<1>4. toBroker \in Seq(Packets) /\ toClient \in Seq(Packets)
      /\ OneAtATime(toBroker, toClient) /\ OneAtATime(toClient, toBroker)
  BY DEF DeliveryInv, Types
<1>5. h.type \in Requests /\ h.type \notin Replies
  BY <1>3, Kinds DEF Requests, Replies
<1>6. /\ h \in Items(toBroker) /\ h \in Packets /\ x \in PacketIds
      /\ Items(Tail(toBroker)) \subseteq Items(toBroker)
      /\ \A k \in Items(Tail(toBroker)) : k.id = x => k.type \notin Requests
      /\ \A k \in Items(toClient) : k.id = x => k.type \notin Replies
  BY <1>1, <1>2, <1>3, <1>4, <1>5, HeadFacts
<1>7. OutOK(x)
  BY <1>6 DEF DeliveryInv
<1>8. PICK q \in Outgoing(x) : OutRequest(h, q, published[x])
  BY <1>2, <1>5, <1>6, <1>7 DEF OutOK
<1>9. PICK m : m = published[x]
  OBVIOUS
<1>10. /\ q.publishState \in {"PubAckPending", "PubRecPending"} /\ h.msg = m
       /\ x \in DOMAIN published /\ m \in Out /\ m \in Messages /\ stage[m] = "open" /\ q.qos = Qos(m)
       /\ q \in Recs(records.outgoing) /\ q.packetId = x
       /\ OutMessage(q, m, copies[m], x \in brokerHolds)
  BY <1>3, <1>7, <1>8, <1>9, OutFacts DEF OutRequest, OutOK, Messages
<1>11. /\ Fits(q.qos, q.publishState, OutgoingStates)
       /\ \A r \in Recs(records.outgoing) : r.packetId = x => r = q
  BY <1>10, RecordFacts DEF RecordsInv, RecordsOK
<1>12. Qos(m) = 2 <=> q.publishState = "PubRecPending"
  BY <1>10, <1>11 DEF Fits
<1>13. Qos(m) \in {1, 2}
  BY <1>10, QosFacts
<1> DEFINE p == Ack(IF Qos(h.msg) = 2 THEN "PUBREC" ELSE "PUBACK", x)
<1>14. /\ p \in Packets /\ p.id = x /\ p.type \in Replies /\ p.type \notin Requests
       /\ p.type = IF Qos(m) = 2 THEN "PUBREC" ELSE "PUBACK"
  BY <1>6, <1>10, PacketFacts, Kinds DEF Replies
<1> HIDE DEF p
<1>15. /\ toBroker' = Tail(toBroker) /\ toClient' = Append(toClient, p)
       /\ UNCHANGED <<records, app, cursor, nextPacketId, published, brokerSends, stage>>
  BY <1>3 DEF BrokerReplies, client, p
<1>16. /\ toBroker' \in Seq(Packets) /\ toClient' \in Seq(Packets)
       /\ Items(toClient') = Items(toClient) \cup {p}
       /\ OneAtATime(toBroker, toClient)' /\ OneAtATime(toClient, toBroker)' /\ Resumption'
  BY <1>1, <1>2, <1>3, <1>5, <1>14, <1>15, BrokerAnswers
\* A QoS 2 message that is not held has not been delivered.
<1>17. /\ copies' \in [Messages -> 0..2] /\ copies'[m] > 0
       /\ \A k \in Messages : k # m => copies'[k] = copies[k]
       /\ copies' = copies \/ ((Qos(m) = 2 => copies[m] = 0) /\ Deliver(m))
  <2>1. copies \in [Messages -> 0..2]
    BY DEF DeliveryInv, Types
  <2>2. CASE x \in brokerHolds
    BY <1>3, <1>10, <2>1, <2>2 DEF OutMessage
  <2>3. CASE x \notin brokerHolds
    <3>1. copies' = [copies EXCEPT ![m] = IF @ = 2 THEN 2 ELSE @ + 1]
      BY <1>3, <1>10, <2>3 DEF Deliver
    <3>2. Qos(m) = 2 => copies[m] = 0
      BY <1>10, <2>3 DEF OutMessage, OutgoingPublishStates
    <3> QED BY <1>3, <1>10, <2>1, <2>3, <3>1, <3>2
  <2> QED BY <2>2, <2>3
<1>18. Types' /\ OneMessageEach'
  BY <1>10, <1>15, <1>16, <1>17 DEF DeliveryInv, Types, OneMessageEach
<1>19. \A id \in PacketIds : id # x => OutOK(id)'
  <2>1. \A i : i # x => /\ i \in DOMAIN published' <=> i \in DOMAIN published
                        /\ i \in brokerHolds' <=> i \in brokerHolds
                        /\ i \in DOMAIN published => published'[i] = published[i] /\ published[i] # m
    BY <1>3, <1>9, <1>10, <1>15 DEF DeliveryInv, OneMessageEach
  <2>2. \A k \in Out : k # m => stage'[k] = stage[k] /\ copies'[k] = copies[k]
    BY <1>15, <1>17 DEF Messages
  <2>3. /\ \A k \in Items(toBroker') : k.id # x /\ k.type \in Requests => k \in Items(toBroker)
        /\ \A k \in Items(toClient') : k.id # x /\ k.type \in Replies => k \in Items(toClient)
    BY <1>6, <1>14, <1>15, <1>16
  <2>4. \A id \in PacketIds : OutOK(id)
    BY DEF DeliveryInv
  <2> QED BY <1>15, <2>1, <2>2, <2>3, <2>4, OutOthers
<1>20. OutOK(x)'
  <2>1. Outgoing(x)' = {q}
    BY <1>10, <1>11, <1>15 DEF Outgoing
  <2>2. x \in DOMAIN published' /\ published'[x] = m
    BY <1>9, <1>10, <1>15
  <2>3. x \in brokerHolds' => Qos(m) = 2
    BY <1>3, <1>10 DEF OutMessage
  <2>4. Qos(m) = 2 => x \in brokerHolds'
    BY <1>3, <1>10
  <2>5. OutMessage(q, published[x], copies[published[x]], x \in brokerHolds)'
    BY <1>10, <1>15, <1>17, <2>2, <2>3, <2>4 DEF OutMessage
  <2>6. \A k \in Items(toBroker') : k.id = x => k.type \notin Requests
    BY <1>6, <1>15
  <2>7. \A k \in Items(toClient') : k.id = x /\ k.type \in Replies =>
          OutReply(k, q, copies'[m], x \in brokerHolds')
    BY <1>6, <1>10, <1>12, <1>14, <1>16, <1>17 DEF OutReply
  <2> QED BY <2>1, <2>2, <2>5, <2>6, <2>7 DEF OutOK
<1>21. \A id \in PacketIds : InOK(id)'
  <2>1. \A k \in In : stage'[k] = stage[k] /\ copies'[k] = copies[k]
    BY <1>10, <1>15, <1>17, QosFacts DEF Messages
  <2>2. /\ \A k \in Items(toClient') : k.type \in Requests => k \in Items(toClient)
        /\ \A k \in Items(toBroker') : k.type \in Replies => k \in Items(toBroker)
    BY <1>6, <1>14, <1>15, <1>16
  <2> QED BY <1>15, <2>1, <2>2, InSame DEF DeliveryInv
<1>22. [Promise!Next]_<<stage, copies>>
  BY <1>10, <1>15, <1>17, QosFacts DEF Promise!Next, Promise!Deliver, Deliver
<1> QED BY <1>16, <1>18, <1>19, <1>20, <1>21, <1>22 DEF DeliveryInv

LEMMA BrokerTakesPubrelStep ==
  ASSUME DeliveryInv, RecordsInv, BrokerTakesPubrel
  PROVE  DeliveryInv' /\ UNCHANGED <<stage, copies>>
<1>1. PICK h : h = Head(toBroker)
  OBVIOUS
<1>2. PICK x : x = h.id
  OBVIOUS
<1>3. /\ toBroker # <<>> /\ h.type = "PUBREL"
      /\ brokerHolds' = brokerHolds \ {x} /\ BrokerReplies(Ack("PUBCOMP", x))
      /\ UNCHANGED <<records, client, brokerSends, stage, copies>>
  BY <1>1, <1>2 DEF BrokerTakesPubrel, ghost
<1>4. toBroker \in Seq(Packets) /\ toClient \in Seq(Packets)
      /\ OneAtATime(toBroker, toClient) /\ OneAtATime(toClient, toBroker)
  BY DEF DeliveryInv, Types
<1>5. h.type \in Requests /\ h.type \notin Replies
  BY <1>3, Kinds DEF Requests, Replies
<1>6. /\ h \in Items(toBroker) /\ h \in Packets /\ x \in PacketIds
      /\ Items(Tail(toBroker)) \subseteq Items(toBroker)
      /\ \A k \in Items(Tail(toBroker)) : k.id = x => k.type \notin Requests
      /\ \A k \in Items(toClient) : k.id = x => k.type \notin Replies
  BY <1>1, <1>2, <1>3, <1>4, <1>5, HeadFacts
<1>7. OutOK(x)
  BY <1>6 DEF DeliveryInv
<1>8. PICK q \in Outgoing(x) : OutRequest(h, q, published[x])
  BY <1>2, <1>5, <1>6, <1>7 DEF OutOK
<1>9. PICK m : m = published[x]
  OBVIOUS
<1>10. /\ q.publishState = "PubCompPending"
       /\ x \in DOMAIN published /\ m \in Out /\ q \in Recs(records.outgoing) /\ q.packetId = x
       /\ OutMessage(q, m, copies[m], x \in brokerHolds)
  BY <1>3, <1>7, <1>8, <1>9, OutFacts DEF OutRequest, OutOK
<1>11. \A r \in Recs(records.outgoing) : r.packetId = x => r = q
  BY <1>10, RecordFacts DEF RecordsInv, RecordsOK
<1> DEFINE p == Ack("PUBCOMP", x)
<1>12. p \in Packets /\ p.id = x /\ p.type = "PUBCOMP" /\ p.type \in Replies /\ p.type \notin Requests
  BY <1>6, PacketFacts, Kinds DEF Replies
<1> HIDE DEF p
<1>13. /\ toBroker' = Tail(toBroker) /\ toClient' = Append(toClient, p)
       /\ UNCHANGED <<records, app, cursor, nextPacketId, published, brokerSends, stage, copies>>
  BY <1>3 DEF BrokerReplies, client, p
<1>14. /\ toBroker' \in Seq(Packets) /\ toClient' \in Seq(Packets)
       /\ Items(toClient') = Items(toClient) \cup {p}
       /\ OneAtATime(toBroker, toClient)' /\ OneAtATime(toClient, toBroker)' /\ Resumption'
  BY <1>1, <1>2, <1>3, <1>5, <1>12, <1>13, BrokerAnswers
<1>15. Types' /\ OneMessageEach'
  BY <1>13, <1>14 DEF DeliveryInv, Types, OneMessageEach
<1>16. \A id \in PacketIds : id # x => OutOK(id)'
  <2>1. \A i : i # x => /\ i \in DOMAIN published' <=> i \in DOMAIN published
                        /\ i \in brokerHolds' <=> i \in brokerHolds
                        /\ i \in DOMAIN published => published'[i] = published[i] /\ published[i] # m
    BY <1>3, <1>9, <1>10, <1>13 DEF DeliveryInv, OneMessageEach
  <2>2. /\ \A k \in Items(toBroker') : k.id # x /\ k.type \in Requests => k \in Items(toBroker)
        /\ \A k \in Items(toClient') : k.id # x /\ k.type \in Replies => k \in Items(toClient)
    BY <1>6, <1>12, <1>13, <1>14
  <2>3. \A id \in PacketIds : OutOK(id)
    BY DEF DeliveryInv
  <2> QED BY <1>13, <2>1, <2>2, <2>3, OutOthers
<1>17. OutOK(x)'
  <2>1. Outgoing(x)' = {q}
    BY <1>10, <1>11, <1>13 DEF Outgoing
  <2>2. x \in DOMAIN published' /\ published'[x] = m /\ x \notin brokerHolds'
    BY <1>3, <1>9, <1>10, <1>13
  <2>3. OutMessage(q, published[x], copies[published[x]], x \in brokerHolds)'
    BY <1>10, <1>13, <2>2 DEF OutMessage, OutgoingPublishStates
  <2>4. \A k \in Items(toBroker') : k.id = x => k.type \notin Requests
    BY <1>6, <1>13
  <2>5. \A k \in Items(toClient') : k.id = x /\ k.type \in Replies =>
          OutReply(k, q, copies'[m], x \in brokerHolds')
    BY <1>6, <1>10, <1>12, <1>14, <2>2 DEF OutReply
  <2> QED BY <2>1, <2>2, <2>3, <2>4, <2>5 DEF OutOK
<1>18. \A id \in PacketIds : InOK(id)'
  <2>1. /\ \A k \in Items(toClient') : k.type \in Requests => k \in Items(toClient)
        /\ \A k \in Items(toBroker') : k.type \in Replies => k \in Items(toBroker)
    BY <1>6, <1>12, <1>13, <1>14
  <2> QED BY <1>13, <2>1, InSame DEF DeliveryInv
<1> QED BY <1>13, <1>14, <1>15, <1>16, <1>17, <1>18 DEF DeliveryInv

\* The broker takes a packet about one of its own identifiers.
LEMMA BrokerTakesPubrecStep ==
  ASSUME DeliveryInv, RecordsInv, BrokerTakesPubrec
  PROVE  DeliveryInv' /\ UNCHANGED <<stage, copies>>
<1>1. PICK h : h = Head(toBroker)
  OBVIOUS
<1>2. PICK x : x = h.id
  OBVIOUS
<1>3. /\ toBroker # <<>> /\ h.type = "PUBREC"
      /\ brokerSends' = [i \in DOMAIN brokerSends |->
                           IF brokerSends[i].id = x THEN [brokerSends[i] EXCEPT !.rel = TRUE]
                           ELSE brokerSends[i]]
      /\ BrokerReplies(Ack("PUBREL", x))
      /\ UNCHANGED <<records, client, brokerHolds, stage, copies>>
  BY <1>1, <1>2 DEF BrokerTakesPubrec, ghost
<1>4. toBroker \in Seq(Packets) /\ toClient \in Seq(Packets)
      /\ OneAtATime(toBroker, toClient) /\ OneAtATime(toClient, toBroker)
  BY DEF DeliveryInv, Types
<1>5. h.type \in Replies /\ h.type \notin Requests
  BY <1>3, Kinds DEF Requests, Replies
<1>6. /\ h \in Items(toBroker) /\ h \in Packets /\ x \in PacketIds
      /\ Items(Tail(toBroker)) \subseteq Items(toBroker)
      /\ \A k \in Items(Tail(toBroker)) : k.id = x => k.type \notin Replies
      /\ \A k \in Items(toClient) : k.id = x => k.type \notin Requests
  BY <1>1, <1>2, <1>3, <1>4, <1>5, HeadFacts
<1>7. InOK(x)
  BY <1>6 DEF DeliveryInv
<1>8. PICK s \in Sending(x) : copies[s.msg] > 0 /\ Qos(s.msg) = 2
  BY <1>2, <1>3, <1>5, <1>6, <1>7 DEF InOK
<1>9. /\ brokerSends \in Seq(Sends) /\ DOMAIN brokerSends = 1..Len(brokerSends) /\ Len(brokerSends) \in Nat
      /\ \A i \in DOMAIN brokerSends : brokerSends[i] \in Items(brokerSends) /\ brokerSends[i] \in Sends
  BY SendsFacts DEF DeliveryInv, Types, Items
<1>10. PICK n \in DOMAIN brokerSends : s = brokerSends[n]
  BY <1>8 DEF Sending, Items
<1> DEFINE t == [s EXCEPT !.rel = TRUE]
<1>11. s.id = x /\ \A i \in DOMAIN brokerSends : brokerSends[i].id = x => i = n
  BY <1>8, <1>10 DEF Sending, DeliveryInv, OneMessageEach
<1>12. t \in Sends /\ t.id = x /\ t.msg = s.msg /\ t.rel /\ s \in Sends
  BY <1>9, <1>10, <1>11 DEF Sends
<1> HIDE DEF t
<1>13. /\ DOMAIN brokerSends' = DOMAIN brokerSends /\ brokerSends'[n] = t
       /\ \A i \in DOMAIN brokerSends : i # n => brokerSends'[i] = brokerSends[i]
  BY <1>3, <1>10, <1>11 DEF t
<1>14. \A i \in DOMAIN brokerSends :
         brokerSends'[i].id = brokerSends[i].id /\ brokerSends'[i].msg = brokerSends[i].msg
  BY <1>10, <1>11, <1>12, <1>13
<1>15. brokerSends' \in Seq(Sends)
  <2>1. brokerSends' = [i \in 1..Len(brokerSends) |-> brokerSends'[i]]
    BY <1>3, <1>9
  <2>2. \A i \in 1..Len(brokerSends) : brokerSends'[i] \in Sends
    BY <1>9, <1>12, <1>13
  <2>3. brokerSends' \in [1..Len(brokerSends) -> Sends]
    BY <2>1, <2>2
  <2> QED BY <1>9, <2>3, SeqDef
<1>16. \A k : k.id # x => (k \in Items(brokerSends') <=> k \in Items(brokerSends))
  BY <1>10, <1>11, <1>12, <1>13 DEF Items
<1>17. Sending(x)' = {t} /\ Sending(x) = {s}
  BY <1>10, <1>11, <1>12, <1>13, <1>14 DEF Sending, Items
<1> DEFINE p == Ack("PUBREL", x)
<1>18. p \in Packets /\ p.id = x /\ p.type = "PUBREL" /\ p.type \in Requests /\ p.type \notin Replies
  BY <1>6, PacketFacts, Kinds DEF Requests
<1> HIDE DEF p
<1>19. /\ toBroker' = Tail(toBroker) /\ toClient' = Append(toClient, p)
       /\ UNCHANGED <<records, app, cursor, nextPacketId, published, brokerHolds, stage, copies>>
  BY <1>3 DEF BrokerReplies, client, p
<1>20. /\ toBroker' \in Seq(Packets) /\ toClient' \in Seq(Packets)
       /\ Items(toClient') = Items(toClient) \cup {p}
       /\ OneAtATime(toBroker, toClient)' /\ OneAtATime(toClient, toBroker)' /\ Resumption'
  BY <1>1, <1>2, <1>3, <1>5, <1>18, <1>19, BrokerAnswers
<1>21. Types'
  BY <1>15, <1>19, <1>20 DEF DeliveryInv, Types
<1>22. OneMessageEach'
  <2>1. \A i, j \in DOMAIN published' : published'[i] = published'[j] => i = j
    BY <1>19 DEF DeliveryInv, OneMessageEach
  <2>2. \A i, j \in DOMAIN brokerSends' :
          brokerSends'[i].id = brokerSends'[j].id \/ brokerSends'[i].msg = brokerSends'[j].msg => i = j
    BY <1>13, <1>14 DEF DeliveryInv, OneMessageEach
  <2> QED BY <2>1, <2>2 DEF OneMessageEach
<1>23. \A id \in PacketIds : OutOK(id)'
  <2>1. /\ \A k \in Items(toClient') : k.type \in Replies => k \in Items(toClient)
        /\ \A k \in Items(toBroker') : k.type \in Requests => k \in Items(toBroker)
    BY <1>6, <1>18, <1>19, <1>20
  <2> QED BY <1>19, <2>1, OutSame DEF DeliveryInv
<1>24. \A id \in PacketIds : id # x => InOK(id)'
  <2>1. \A k : k.id # x /\ k \in Items(brokerSends) => k.msg # s.msg
    BY <1>10, <1>11 DEF DeliveryInv, OneMessageEach, Items
  <2>2. /\ \A k \in Items(toClient') : k.id # x /\ k.type \in Requests => k \in Items(toClient)
        /\ \A k \in Items(toBroker') : k.id # x /\ k.type \in Replies => k \in Items(toBroker)
    BY <1>6, <1>18, <1>19, <1>20
  <2>3. Types /\ \A id \in PacketIds : InOK(id)
    BY DEF DeliveryInv
  <2> QED BY <1>16, <1>19, <2>1, <2>2, <2>3, InOthers
<1>25. InOK(x)'
  <2>1. stage'[t.msg] = "open" /\ copies'[t.msg] > 0 /\ Qos(t.msg) = 2
    BY <1>7, <1>8, <1>12, <1>19 DEF InOK
  <2>2. Incoming(x)' = Incoming(x)
    BY <1>19 DEF Incoming
  <2>3. \A q \in Incoming(x) : q.qos = Qos(t.msg)
    BY <1>7, <1>12, <1>17 DEF InOK
  <2>4. \A k \in Items(toClient') : k.id = x /\ k.type \in Requests => k.type = "PUBREL"
    BY <1>6, <1>18, <1>20
  <2>5. \A k \in Items(toBroker') : k.id = x => k.type \notin Replies
    BY <1>6, <1>19
  <2> QED BY <1>12, <1>17, <2>1, <2>2, <2>3, <2>4, <2>5 DEF InOK
<1> QED BY <1>19, <1>20, <1>21, <1>22, <1>23, <1>24, <1>25 DEF DeliveryInv

LEMMA BrokerTakesLastStep ==
  ASSUME DeliveryInv, RecordsInv, BrokerTakesLast
  PROVE  DeliveryInv' /\ [Promise!Next]_<<stage, copies>>
<1>1. PICK h : h = Head(toBroker)
  OBVIOUS
<1>2. PICK x : x = h.id
  OBVIOUS
<1>3. PICK n \in DOMAIN brokerSends :
         /\ brokerSends[n].id = x
         /\ brokerSends' = [k \in 1..(Len(brokerSends) - 1) |-> brokerSends[IF k < n THEN k ELSE k + 1]]
         /\ stage' = [stage EXCEPT ![brokerSends[n].msg] = "done"]
         /\ toBroker # <<>> /\ h.type \in {"PUBACK", "PUBCOMP"}
         /\ toBroker' = Tail(toBroker) /\ toClient' = toClient
         /\ UNCHANGED <<records, nextPacketId, app, cursor, published, brokerHolds, copies>>
  BY <1>1, <1>2 DEF BrokerTakesLast, client
<1>4. toBroker \in Seq(Packets) /\ toClient \in Seq(Packets)
      /\ OneAtATime(toBroker, toClient) /\ OneAtATime(toClient, toBroker)
  BY DEF DeliveryInv, Types
<1>5. h.type \in Replies /\ h.type \notin Requests
  BY <1>3, Kinds DEF Requests, Replies
<1>6. /\ h \in Items(toBroker) /\ h \in Packets /\ x \in PacketIds
      /\ Items(Tail(toBroker)) \subseteq Items(toBroker)
      /\ \A k \in Items(Tail(toBroker)) : k.id = x => k.type \notin Replies
      /\ \A k \in Items(toClient) : k.id = x => k.type \notin Requests
  BY <1>1, <1>2, <1>3, <1>4, <1>5, HeadFacts
<1>7. InOK(x)
  BY <1>6 DEF DeliveryInv
<1>8. /\ brokerSends \in Seq(Sends) /\ DOMAIN brokerSends = 1..Len(brokerSends) /\ Len(brokerSends) \in Nat
      /\ \A i \in DOMAIN brokerSends : brokerSends[i] \in Items(brokerSends) /\ brokerSends[i] \in Sends
  BY SendsFacts DEF DeliveryInv, Types, Items
<1>9. PICK s : s = brokerSends[n]
  OBVIOUS
<1>10. PICK m : m = s.msg
  OBVIOUS
<1>11. /\ \A i \in DOMAIN brokerSends : brokerSends[i].id = x \/ brokerSends[i].msg = m => i = n
       /\ s.id = x /\ m \in In /\ m \in Messages
  BY <1>3, <1>8, <1>9, <1>10, SendsFacts DEF DeliveryInv, OneMessageEach, Messages
<1>12. Sending(x) = {s}
  BY <1>3, <1>8, <1>9, <1>11 DEF Sending, Items
<1>13. copies[m] > 0 /\ stage[m] = "open" /\ Incoming(x) = {}
  BY <1>2, <1>3, <1>5, <1>6, <1>7, <1>10, <1>12 DEF InOK
\* The others move up.
<1> DEFINE At(k) == IF k < n THEN k ELSE k + 1
<1>14. /\ DOMAIN brokerSends' = 1..(Len(brokerSends) - 1)
       /\ \A k \in DOMAIN brokerSends' : /\ At(k) \in DOMAIN brokerSends /\ At(k) # n
                                         /\ brokerSends'[k] = brokerSends[At(k)]
       /\ \A j, k \in DOMAIN brokerSends' : At(j) = At(k) => j = k
       /\ \A i \in DOMAIN brokerSends : i # n => \E k \in DOMAIN brokerSends' : At(k) = i
  <2>1. n \in 1..Len(brokerSends)
    BY <1>8
  <2>2. DOMAIN brokerSends' = 1..(Len(brokerSends) - 1)
    BY <1>3
  <2>3. ASSUME NEW i \in DOMAIN brokerSends, i # n PROVE \E k \in DOMAIN brokerSends' : At(k) = i
    <3>1. CASE i < n
      BY <1>8, <2>1, <2>2, <3>1
    <3>2. CASE i > n
      <4>1. i - 1 \in DOMAIN brokerSends' /\ At(i - 1) = i
        BY <1>8, <2>1, <2>2, <3>2
      <4> QED BY <4>1
    <3> QED BY <1>8, <2>1, <2>3, <3>1, <3>2
  <2> QED BY <1>3, <1>8, <2>1, <2>2, <2>3
<1> HIDE DEF At
<1>15. Items(brokerSends') = Items(brokerSends) \ {s}
  <2>1. \A i \in DOMAIN brokerSends : i # n => brokerSends[i] # s
    BY <1>11
  <2> QED BY <1>9, <1>14, <2>1 DEF Items
<1>16. brokerSends' \in Seq(Sends)
  <2>1. brokerSends' = [k \in 1..(Len(brokerSends) - 1) |-> brokerSends'[k]]
    BY <1>3
  <2>2. \A k \in 1..(Len(brokerSends) - 1) : brokerSends'[k] \in Sends
    BY <1>8, <1>14
  <2>3. brokerSends' \in [1..(Len(brokerSends) - 1) -> Sends] /\ Len(brokerSends) - 1 \in Nat
    BY <1>3, <1>8, <2>1, <2>2
  <2> QED BY <2>3, SeqDef
<1>17. /\ toBroker' \in Seq(Packets) /\ toClient' \in Seq(Packets)
       /\ OneAtATime(toBroker, toClient)' /\ OneAtATime(toClient, toBroker)' /\ Resumption'
  <2>1. toBroker' \in Seq(Packets) /\ \A types, id : Carries(toBroker', types, id) => Carries(toBroker, types, id)
    BY <1>3, <1>4, TakeFacts
  <2>2. \A q : Untold(q) => Untold(q)'
    BY <1>3, <2>1 DEF Untold, About
  <2>3. Resumption'
    BY <1>3, <2>2 DEF DeliveryInv, Resumption
  <2> QED BY <1>3, <1>4, <2>1, <2>3, TakeOne
<1>18. stage' \in [Messages -> {"new", "open", "done", "dropped"}] /\ stage'[m] = "done"
       /\ \A k \in Messages : k # m => stage'[k] = stage[k]
  BY <1>3, <1>9, <1>10, <1>11 DEF DeliveryInv, Types
<1>19. Types'
  <2>1. \A k \in Messages : stage'[k] = "new" => copies'[k] = 0
    BY <1>3, <1>18 DEF DeliveryInv, Types
  <2> QED BY <1>3, <1>16, <1>17, <1>18, <2>1 DEF DeliveryInv, Types
<1>20. OneMessageEach'
  <2>1. \A i, j \in DOMAIN published' : published'[i] = published'[j] => i = j
    BY <1>3 DEF DeliveryInv, OneMessageEach
  <2>2. \A i, j \in DOMAIN brokerSends' :
          brokerSends'[i].id = brokerSends'[j].id \/ brokerSends'[i].msg = brokerSends'[j].msg => i = j
    BY <1>14 DEF DeliveryInv, OneMessageEach
  <2> QED BY <2>1, <2>2 DEF OneMessageEach
<1>21. \A id \in PacketIds : OutOK(id)'
  <2>1. \A k \in Out : stage'[k] = stage[k] /\ copies'[k] = copies[k]
    BY <1>3, <1>11, <1>18, QosFacts DEF Messages
  <2> QED BY <1>3, <1>6, <2>1, OutSame DEF DeliveryInv
<1>22. \A id \in PacketIds : id # x => InOK(id)'
  <2>1. \A k : k.id # x => /\ k \in Items(brokerSends') <=> k \in Items(brokerSends)
                           /\ k \in Items(brokerSends) => k.msg # m
    BY <1>3, <1>11, <1>15 DEF Items
  <2>2. \A k \in In : k # m => stage'[k] = stage[k] /\ copies'[k] = copies[k]
    BY <1>3, <1>18 DEF Messages
  <2>3. Types /\ \A id \in PacketIds : InOK(id)
    BY DEF DeliveryInv
  <2>4. /\ \A k \in Items(toClient') : k.id # x /\ k.type \in Requests => k \in Items(toClient)
        /\ \A k \in Items(toBroker') : k.id # x /\ k.type \in Replies => k \in Items(toBroker)
    BY <1>3, <1>6
  <2>5. Recs(records'.incoming) = Recs(records.incoming)
    BY <1>3
  <2> QED BY <2>1, <2>2, <2>3, <2>4, <2>5, InOthers
<1>23. InOK(x)'
  <2>1. Sending(x)' = {} /\ Incoming(x)' = {}
    BY <1>3, <1>12, <1>13, <1>15 DEF Sending, Incoming
  <2> QED BY <1>3, <1>6, <2>1 DEF InOK
<1>24. Promise!Next
  BY <1>3, <1>9, <1>10, <1>11, <1>13 DEF Promise!Next, Promise!Finish
<1> QED BY <1>17, <1>19, <1>20, <1>21, <1>22, <1>23, <1>24 DEF DeliveryInv

LEMMA BrokerPublishStep ==
  ASSUME DeliveryInv, RecordsInv, NEW m \in In, BrokerPublish(m)
  PROVE  DeliveryInv' /\ [Promise!Next]_<<stage, copies>>
<1> DEFINE used == {brokerSends[i].id : i \in DOMAIN brokerSends}
<1>1. PICK x : x = First(PacketIds \ used)
  OBVIOUS
<1> DEFINE s == [id |-> x, msg |-> m, rel |-> FALSE]
           p == Publish(x, m)
<1>2. /\ stage[m] = "new" /\ PacketIds # used
      /\ brokerSends' = Append(brokerSends, s) /\ toClient' = Append(toClient, p) /\ toBroker' = toBroker
      /\ stage' = [stage EXCEPT ![m] = "open"]
      /\ UNCHANGED <<records, nextPacketId, app, cursor, published, brokerHolds, copies>>
  BY <1>1 DEF BrokerPublish, client
<1>3. toBroker \in Seq(Packets) /\ toClient \in Seq(Packets) /\ brokerSends \in Seq(Sends)
      /\ OneAtATime(toBroker, toClient) /\ OneAtATime(toClient, toBroker)
  BY DEF DeliveryInv, Types
<1>4. \A i \in DOMAIN brokerSends : brokerSends[i] \in Items(brokerSends) /\ brokerSends[i].id \in PacketIds
  BY SendsFacts DEF DeliveryInv, Items
<1>5. x \in PacketIds /\ x \notin used
  <2>3. used \subseteq PacketIds
    BY <1>4
  <2>4. PacketIds \subseteq Nat
    BY SlotsAssumption DEF PacketIds
  <2> HIDE DEF used
  <2>1. PacketIds \ used # {} /\ PacketIds \ used \subseteq Nat
    BY <1>2, <2>3, <2>4
  <2>2. First(PacketIds \ used) \in PacketIds \ used
    BY <2>1, FirstIsLeast
  <2> QED BY <1>1, <2>2
<1>6. Sending(x) = {} /\ \A i \in DOMAIN brokerSends : brokerSends[i].id # x
  BY <1>5 DEF Sending, Items
<1> HIDE DEF used
<1>7. InOK(x)
  BY <1>5 DEF DeliveryInv
<1>8. /\ Incoming(x) = {}
      /\ \A k \in Items(toClient) : k.id = x => k.type \notin Requests
      /\ \A k \in Items(toBroker) : k.id = x => k.type \notin Replies
  BY <1>6, <1>7 DEF InOK
<1>9. ~About(toClient, toBroker, x)
  BY <1>8, CarriesItem DEF About
<1>10. m \in Messages /\ copies[m] = 0
  BY <1>2 DEF DeliveryInv, Types, Messages
<1>11. s \in Sends /\ s.id = x /\ s.msg = m /\ ~s.rel
  BY <1>5 DEF Sends
<1>12. p \in Packets /\ p.id = x /\ p.msg = m /\ p.type = "PUBLISH" /\ p.type \in Requests /\ p.type \notin Replies
  BY <1>5, <1>10, PacketFacts, Kinds DEF Requests
<1> HIDE DEF s, p
<1>13. /\ brokerSends' \in Seq(Sends) /\ DOMAIN brokerSends' = DOMAIN brokerSends \cup {Len(brokerSends) + 1}
       /\ Len(brokerSends) + 1 \notin DOMAIN brokerSends
       /\ brokerSends'[Len(brokerSends) + 1] = s
       /\ \A i \in DOMAIN brokerSends : brokerSends'[i] = brokerSends[i]
  BY <1>2, <1>3, <1>11
<1>14. Items(brokerSends') = Items(brokerSends) \cup {s}
  BY <1>13 DEF Items
<1>15. /\ toClient' \in Seq(Packets) /\ Items(toClient') = Items(toClient) \cup {p}
       /\ OneAtATime(toBroker, toClient)' /\ OneAtATime(toClient, toBroker)'
  BY <1>2, <1>3, <1>9, <1>12, PutFacts, PutRequest
<1>16. Resumption'
  <2>1. \A types, id : Carries(toClient', types, id) <=> Carries(toClient, types, id) \/ (p.type \in types /\ p.id = id)
    BY <1>2, <1>3, <1>12, PutFacts
  <2>2. \A q : Untold(q) => Untold(q)'
    BY <1>2, <1>12, <2>1 DEF Untold, About
  <2> QED BY <1>2, <2>2 DEF DeliveryInv, Resumption
<1>17. stage' \in [Messages -> {"new", "open", "done", "dropped"}] /\ stage'[m] = "open"
       /\ \A k \in Messages : k # m => stage'[k] = stage[k]
  BY <1>2, <1>10 DEF DeliveryInv, Types
<1>18. Types'
  <2>1. \A k \in Messages : stage'[k] = "new" => copies'[k] = 0
    BY <1>2, <1>17 DEF DeliveryInv, Types
  <2> QED BY <1>2, <1>3, <1>13, <1>15, <1>17, <2>1 DEF DeliveryInv, Types
<1>19. \A i \in DOMAIN brokerSends : brokerSends[i].msg # m
  <2> SUFFICES ASSUME NEW i \in DOMAIN brokerSends PROVE brokerSends[i].msg # m
    OBVIOUS
  <2>1. brokerSends[i] \in Sending(brokerSends[i].id) /\ InOK(brokerSends[i].id)
    BY <1>4 DEF Sending, DeliveryInv
  <2>2. stage[brokerSends[i].msg] = "open"
    BY <2>1 DEF InOK
  <2> QED BY <1>2, <2>2
<1>20. OneMessageEach'
  <2>1. \A i, j \in DOMAIN published' : published'[i] = published'[j] => i = j
    BY <1>2 DEF DeliveryInv, OneMessageEach
  <2>2. \A i, j \in DOMAIN brokerSends' :
          brokerSends'[i].id = brokerSends'[j].id \/ brokerSends'[i].msg = brokerSends'[j].msg => i = j
    BY <1>6, <1>11, <1>13, <1>19 DEF DeliveryInv, OneMessageEach
  <2> QED BY <2>1, <2>2 DEF OneMessageEach
<1>21. \A id \in PacketIds : OutOK(id)'
  <2>1. \A k \in Out : stage'[k] = stage[k] /\ copies'[k] = copies[k]
    BY <1>2, <1>10, <1>17, QosFacts DEF Messages
  <2>2. /\ \A k \in Items(toClient') : k.type \in Replies => k \in Items(toClient)
        /\ \A k \in Items(toBroker') : k.type \in Requests => k \in Items(toBroker)
    BY <1>2, <1>12, <1>15
  <2> QED BY <1>2, <2>1, <2>2, OutSame DEF DeliveryInv
<1>22. \A id \in PacketIds : id # x => InOK(id)'
  <2>1. \A k : k.id # x => /\ k \in Items(brokerSends') <=> k \in Items(brokerSends)
                           /\ k \in Items(brokerSends) => k.msg # m
    BY <1>11, <1>14, <1>19 DEF Items
  <2>2. \A k \in In : k # m => stage'[k] = stage[k] /\ copies'[k] = copies[k]
    BY <1>2, <1>17 DEF Messages
  <2>3. Types /\ \A id \in PacketIds : InOK(id)
    BY DEF DeliveryInv
  <2>4. /\ \A k \in Items(toClient') : k.id # x /\ k.type \in Requests => k \in Items(toClient)
        /\ \A k \in Items(toBroker') : k.id # x /\ k.type \in Replies => k \in Items(toBroker)
    BY <1>2, <1>12, <1>15
  <2> QED BY <1>2, <2>1, <2>2, <2>3, <2>4, InOthers
<1>23. InOK(x)'
  <2>1. Sending(x)' = {s} /\ Incoming(x)' = {}
    BY <1>2, <1>6, <1>8, <1>11, <1>14 DEF Sending, Incoming
  <2>2. \A k \in Items(toClient') : k.id = x /\ k.type \in Requests => k = p
    BY <1>8, <1>15
  <2>3. \A k \in Items(toBroker') : k.id = x => k.type \notin Replies
    BY <1>2, <1>8
  <2>4. stage'[s.msg] = "open" /\ copies'[s.msg] = 0
    BY <1>2, <1>10, <1>11, <1>17
  <2> QED BY <1>11, <1>12, <2>1, <2>2, <2>3, <2>4 DEF InOK
<1>24. Promise!Next
  BY <1>2, <1>10 DEF Promise!Next, Promise!Take
<1> QED BY <1>2, <1>15, <1>16, <1>18, <1>20, <1>21, <1>22, <1>23, <1>24 DEF DeliveryInv

\* The client answers a packet, says nothing, or loses the connection.
Answered(recs, x, type) ==
  /\ toBroker' = Append(toBroker, Ack(type, x)) /\ toClient' = Tail(toClient) /\ UNCHANGED app
  /\ records' = AfterAck(recs, type, "SEND", MQTT_UpdateStateAck(recs, x, type, "SEND"))
Ignored(recs) == toBroker' = toBroker /\ toClient' = Tail(toClient) /\ UNCHANGED app /\ records' = recs
Broken(recs) == toBroker' = <<>> /\ toClient' = <<>> /\ app' = "disconnected" /\ records' = recs

LEMMA AcksSent ==
  ASSUME NEW recs, NEW x, NEW state, sendPublishAcks(recs, x, state, Tail(toClient))
  PROVE  /\ state \in {"Null", "Done", "PubRelPending", "PubCompPending"} => Ignored(recs)
         /\ state = "PubAckSend" => Answered(recs, x, "PUBACK") \/ Broken(recs)
         /\ state = "PubRecSend" => Answered(recs, x, "PUBREC") \/ Broken(recs)
         /\ state = "PubRelSend" => Answered(recs, x, "PUBREL") \/ Broken(recs)
         /\ state = "PubCompSend" => Answered(recs, x, "PUBCOMP") \/ Broken(recs)
<1>1. DOMAIN getAckTypeToSend = {"PubAckSend", "PubRecSend", "PubRelSend", "PubCompSend"}
  BY DEF getAckTypeToSend
<1>2. /\ getAckTypeToSend["PubAckSend"] = "PUBACK" /\ getAckTypeToSend["PubRecSend"] = "PUBREC"
      /\ getAckTypeToSend["PubRelSend"] = "PUBREL" /\ getAckTypeToSend["PubCompSend"] = "PUBCOMP"
  BY DEF getAckTypeToSend
<1>3. ASSUME state \notin DOMAIN getAckTypeToSend PROVE Ignored(recs)
  BY <1>3 DEF sendPublishAcks, Ignored
<1>4. ASSUME state \in DOMAIN getAckTypeToSend
      PROVE  Answered(recs, x, getAckTypeToSend[state]) \/ Broken(recs)
  BY <1>4 DEF sendPublishAcks, Sent, Break, Answered, Broken
<1> QED BY <1>1, <1>2, <1>3, <1>4

\* What the client takes from the broker, in each of the three outcomes.
LEMMA ClientTakes ==
  ASSUME DeliveryInv, Received, NEW p, NEW recs,
         \/ /\ p \in Packets /\ p.id = Head(toClient).id
            /\ p.type \in Replies <=> Head(toClient).type \in Requests
            /\ toBroker' = Append(toBroker, p) /\ toClient' = Tail(toClient) /\ UNCHANGED app
         \/ Ignored(recs) \/ Broken(recs)
  PROVE  /\ toBroker' \in Seq(Packets) /\ toClient' \in Seq(Packets)
         /\ OneAtATime(toBroker, toClient)' /\ OneAtATime(toClient, toBroker)' /\ Resumption'
         /\ Items(toClient') \subseteq Items(Tail(toClient))
         /\ Items(toBroker') \subseteq Items(toBroker) \cup {p}
         /\ ~(p \in Packets /\ toBroker' = Append(toBroker, p)) => Items(toBroker') \subseteq Items(toBroker)
<1>1. /\ toBroker \in Seq(Packets) /\ toClient \in Seq(Packets) /\ toClient # <<>> /\ app = "running"
      /\ OneAtATime(toBroker, toClient) /\ OneAtATime(toClient, toBroker)
  BY DEF DeliveryInv, Types, Received
<1>2. app' # "resuming" /\ app' # "resending"
  BY <1>1 DEF Ignored, Broken
<1>3. Resumption'
  BY <1>2 DEF Resumption
<1>4. Tail(toClient) \in Seq(Packets)
  BY <1>1, TakeFacts
<1>5. CASE /\ p \in Packets /\ p.id = Head(toClient).id
           /\ p.type \in Replies <=> Head(toClient).type \in Requests
           /\ toBroker' = Append(toBroker, p) /\ toClient' = Tail(toClient)
  <2>1. OneAtATime(toBroker', toClient') /\ OneAtATime(toClient', toBroker')
    BY <1>1, <1>5, Exchange
  <2>2. toBroker' \in Seq(Packets) /\ Items(toBroker') = Items(toBroker) \cup {p}
    BY <1>1, <1>5, PutFacts
  <2> QED BY <1>3, <1>4, <1>5, <2>1, <2>2
<1>6. CASE Ignored(recs)
  <2>1. toBroker' = toBroker /\ toClient' = Tail(toClient)
    BY <1>6 DEF Ignored
  <2>2. OneAtATime(toBroker', toClient') /\ OneAtATime(toClient', toBroker')
    BY <1>1, <2>1, TakeOne
  <2> QED BY <1>1, <1>3, <1>4, <2>1, <2>2
<1>7. CASE Broken(recs)
  BY <1>3, <1>7, Cleared DEF Broken
<1> QED BY <1>5, <1>6, <1>7

\* An incoming publish: the record it finds or leaves, and the acknowledgement.
LEMMA ReceivedRecs ==
  ASSUME RecordsOK(records), BothSized(records), NEW x \in PacketIds, NEW qos \in {1, 2},
         \A q \in Recs(records.incoming) : q.packetId = x => q.qos = qos,
         NEW R, R = MQTT_UpdateStatePublish(records, x, "RECEIVE", qos),
         R.status \in {"MQTTSuccess", "MQTTStateCollision"},
         Answered(R.records, x, IF qos = 1 THEN "PUBACK" ELSE "PUBREC") \/ Broken(R.records)
  PROVE  /\ BothSized(records') /\ records'.outgoing = records.outgoing
         /\ \A r : r.packetId # x => (r \in Recs(records'.incoming) <=> r \in Recs(records.incoming))
         /\ \A r \in Recs(records'.incoming) : r.packetId = x => r.qos = qos
         /\ qos = 2 => \E r \in Recs(records'.incoming) : r.packetId = x
         /\ qos = 1 /\ ~Broken(R.records) => \A r \in Recs(records'.incoming) : r.packetId # x
<1> DEFINE st == MQTT_CalculateStatePublish("RECEIVE", qos)
           new == [packetId |-> x, qos |-> qos, publishState |-> st]
           type == IF qos = 1 THEN "PUBACK" ELSE "PUBREC"
           next == IF qos = 1 THEN "Done" ELSE "PubRelPending"
           ack == MQTT_UpdateStateAck(R.records, x, type, "SEND")
           after == AfterAck(R.records, type, "SEND", ack)
<1>1. /\ Adds(records.incoming, R.status, R.records.incoming, new)
      /\ R.records.outgoing = records.outgoing /\ BothSized(R.records)
  BY PacketFacts, ReceiveRecs
<1>2. RecordsOK(R.records)
  BY PublishKeeps
<1>3. new.packetId = x /\ new.qos = qos
  OBVIOUS
<1> HIDE DEF new, st
<1>4. /\ \A r : r.packetId # x => (r \in Recs(R.records.incoming) <=> r \in Recs(records.incoming))
      /\ \A r \in Recs(R.records.incoming) : r.packetId = x => r.qos = qos
      /\ \E r \in Recs(R.records.incoming) : r.packetId = x
  <2>1. CASE R.status = "MQTTSuccess"
    <3>1. Recs(R.records.incoming) = Recs(records.incoming) \cup {new}
      BY <1>1, <2>1 DEF Adds
    <3> QED BY <1>3, <3>1
  <2>2. CASE R.status = "MQTTStateCollision"
    <3>1. Recs(R.records.incoming) = Recs(records.incoming) /\ \E r \in Recs(records.incoming) : r.packetId = x
      BY <1>1, <1>3, <2>2 DEF Adds
    <3> QED BY <3>1
  <2> QED BY <2>1, <2>2
<1>5. PICK q \in Recs(R.records.incoming) : q.packetId = x
  BY <1>4
<1>6. /\ q.qos = qos /\ IsSlot(q) /\ Fits(q.qos, q.publishState, IncomingStates)
      /\ \A r \in Recs(R.records.incoming) : r.packetId = x => r = q
  BY <1>2, <1>4, <1>5, RecordFacts DEF RecordsOK
<1>7. CASE Broken(R.records)
  BY <1>1, <1>4, <1>7 DEF Broken
<1>8. CASE ~Broken(R.records)
  <2>1. records' = after
    BY <1>8 DEF Answered
  <2>2. ~isPublishOutgoing(type, "SEND") /\ MQTT_CalculateStateAck(type, "SEND", q.qos) = next
    BY <1>6 DEF isPublishOutgoing, MQTT_CalculateStateAck
  <2> HIDE DEF type, next
  <2>3. /\ after.outgoing = R.records.outgoing /\ BothSized(after)
        /\ IF validateTransitionAck(q.publishState, next)
           THEN ack.newState = next /\ Moves(R.records.incoming, after.incoming, q, next)
           ELSE ack.newState = "Null" /\ after.incoming = R.records.incoming
    BY <1>1, <1>2, <1>5, <2>2, AckIncoming
  <2> HIDE DEF after, ack
  <2>4. CASE qos = 1
    <3>1. q.publishState = "PubAckSend"
      BY <1>6, <2>4 DEF Fits, IncomingStates
    <3>2. next = "Done" /\ validateTransitionAck(q.publishState, next)
      BY <2>4, <3>1 DEF next, validateTransitionAck
    <3>3. Recs(after.incoming) = Recs(R.records.incoming) \ {q}
      BY <2>3, <3>2 DEF Moves
    <3> QED BY <1>1, <1>4, <1>6, <2>1, <2>3, <2>4, <3>3
  <2>5. CASE qos = 2
    <3> DEFINE s == [q EXCEPT !.publishState = "PubRelPending"]
    <3>1. s.packetId = x /\ s.qos = qos
      BY <1>5, <1>6 DEF IsSlot
    <3>2. next = "PubRelPending"
      BY <2>5 DEF next
    <3>3. \/ Recs(after.incoming) = (Recs(R.records.incoming) \ {q}) \cup {s}
          \/ Recs(after.incoming) = Recs(R.records.incoming)
      BY <2>3, <3>2 DEF Moves
    <3> HIDE DEF s
    <3> QED BY <1>1, <1>4, <1>5, <1>6, <2>1, <2>3, <2>5, <3>1, <3>3
  <2> QED BY <2>4, <2>5
<1> QED BY <1>7, <1>8

LEMMA IncomingPublishStep ==
  ASSUME DeliveryInv, RecordsInv, handleIncomingPublish
  PROVE  DeliveryInv' /\ [Promise!Next]_<<stage, copies>>
<1>1. PICK h : h = Head(toClient)
  OBVIOUS
<1>2. PICK x : x = h.id
  OBVIOUS
<1>3. PICK m : m = h.msg
  OBVIOUS
<1>4. PICK R : R = MQTT_UpdateStatePublish(records, x, "RECEIVE", Qos(m))
  OBVIOUS
<1> DEFINE st == IF R.status \in {"MQTTSuccess", "MQTTStateCollision"}
                 THEN MQTT_CalculateStatePublish("RECEIVE", Qos(m)) ELSE "Null"
           type == IF Qos(m) = 1 THEN "PUBACK" ELSE "PUBREC"
           p == Ack(type, x)
<1>5. /\ Received /\ toClient # <<>> /\ h.type = "PUBLISH"
      /\ IF R.status = "MQTTSuccess" THEN Deliver(m) ELSE UNCHANGED copies
      /\ sendPublishAcks(R.records, x, st, Tail(toClient))
      /\ UNCHANGED <<nextPacketId, cursor, published, brokerSends, brokerHolds, stage>>
  BY <1>1, <1>2, <1>3, <1>4 DEF handleIncomingPublish, broker, Received
<1>6. toBroker \in Seq(Packets) /\ toClient \in Seq(Packets)
      /\ OneAtATime(toBroker, toClient) /\ OneAtATime(toClient, toBroker)
      /\ RecordsOK(records) /\ BothSized(records)
  BY DEF DeliveryInv, Types, RecordsInv, BothSized
<1>7. h.type \in Requests /\ h.type \notin Replies
  BY <1>5, Kinds DEF Requests, Replies
<1>8. /\ h \in Items(toClient) /\ h \in Packets /\ x \in PacketIds
      /\ Items(Tail(toClient)) \subseteq Items(toClient)
      /\ \A k \in Items(Tail(toClient)) : k.id = x => k.type \notin Requests
      /\ \A k \in Items(toBroker) : k.id = x => k.type \notin Replies
  BY <1>1, <1>2, <1>5, <1>6, <1>7, HeadFacts
<1>9. InOK(x)
  BY <1>8 DEF DeliveryInv
<1>10. PICK s \in Sending(x) : ~s.rel /\ s.msg = m
  BY <1>2, <1>3, <1>5, <1>7, <1>8, <1>9 DEF InOK
<1>11. /\ Sending(x) = {s} /\ \A k \in Items(brokerSends) : k.id # x => k.msg # m
       /\ m \in In /\ m \in Messages
  <2>1. s \in Items(brokerSends) /\ s.id = x
    BY <1>10 DEF Sending
  <2> QED BY <1>10, <2>1, SendsFacts DEF Sending, Items, DeliveryInv, OneMessageEach, Messages
<1>12. /\ Qos(m) \in {1, 2} /\ stage[m] = "open"
       /\ \A q \in Incoming(x) : q.qos = Qos(m) /\ copies[m] > 0
       /\ Qos(m) = 2 /\ Incoming(x) = {} => copies[m] = 0
  BY <1>9, <1>10, <1>11, QosFacts DEF InOK
<1>13. \A q \in Recs(records.incoming) : q.packetId = x => q \in Incoming(x)
  BY DEF Incoming
<1>14. /\ Adds(records.incoming, R.status, R.records.incoming,
               [packetId |-> x, qos |-> Qos(m), publishState |-> MQTT_CalculateStatePublish("RECEIVE", Qos(m))])
       /\ R.records.outgoing = records.outgoing /\ BothSized(R.records)
  BY <1>4, <1>6, <1>8, PacketFacts, ReceiveRecs
<1>15. /\ R.status = "MQTTStateCollision" <=> Incoming(x) # {}
       /\ R.status \notin {"MQTTSuccess", "MQTTStateCollision"} =>
            Recs(R.records.incoming) = Recs(records.incoming)
  <2> DEFINE new == [packetId |-> x, qos |-> Qos(m), publishState |-> MQTT_CalculateStatePublish("RECEIVE", Qos(m))]
  <2>1. new.packetId = x
    OBVIOUS
  <2> HIDE DEF new
  <2>2. Adds(records.incoming, R.status, R.records.incoming, new)
    BY <1>14 DEF new
  <2> QED BY <2>1, <2>2 DEF Adds, Incoming
<1>16. /\ copies' \in [Messages -> 0..2] /\ \A k \in Messages : k # m => copies'[k] = copies[k]
       /\ R.status \in {"MQTTSuccess", "MQTTStateCollision"} => copies'[m] > 0
       /\ copies' = copies \/ ((Qos(m) = 2 => copies[m] = 0) /\ Deliver(m))
  <2>1. copies \in [Messages -> 0..2]
    BY DEF DeliveryInv, Types
  <2>2. CASE R.status = "MQTTSuccess"
    <3>1. copies' = [copies EXCEPT ![m] = IF @ = 2 THEN 2 ELSE @ + 1]
      BY <1>5, <2>2 DEF Deliver
    <3>2. Qos(m) = 2 => copies[m] = 0
      BY <1>12, <1>15, <2>2
    <3> QED BY <1>5, <1>11, <2>1, <2>2, <3>1, <3>2
  <2>3. CASE R.status # "MQTTSuccess"
    BY <1>5, <1>12, <1>15, <2>1, <2>3
  <2> QED BY <2>2, <2>3
<1>17. /\ p \in Packets /\ p.id = x /\ p.type \in Replies /\ p.type \notin Requests
       /\ p.type = type
  BY <1>8, <1>12, PacketFacts, Kinds DEF Replies
<1>18. \/ /\ R.status \in {"MQTTSuccess", "MQTTStateCollision"}
          /\ Answered(R.records, x, type) \/ Broken(R.records)
       \/ R.status \notin {"MQTTSuccess", "MQTTStateCollision"} /\ Ignored(R.records)
  <2>1. st = IF R.status \in {"MQTTSuccess", "MQTTStateCollision"}
             THEN IF Qos(m) = 1 THEN "PubAckSend" ELSE "PubRecSend" ELSE "Null"
    BY <1>12 DEF MQTT_CalculateStatePublish
  <2> HIDE DEF st
  <2> QED BY <1>5, <1>12, <2>1, AcksSent
<1> HIDE DEF st, type
<1>19. /\ toBroker' \in Seq(Packets) /\ toClient' \in Seq(Packets)
       /\ OneAtATime(toBroker, toClient)' /\ OneAtATime(toClient, toBroker)' /\ Resumption'
       /\ Items(toClient') \subseteq Items(Tail(toClient))
       /\ Items(toBroker') \subseteq Items(toBroker) \cup {p}
       /\ Ignored(R.records) \/ Broken(R.records) => Items(toBroker') \subseteq Items(toBroker)
  <2>1. \/ /\ p \in Packets /\ p.id = Head(toClient).id
           /\ p.type \in Replies <=> Head(toClient).type \in Requests
           /\ toBroker' = Append(toBroker, p) /\ toClient' = Tail(toClient) /\ UNCHANGED app
        \/ Ignored(R.records) \/ Broken(R.records)
    BY <1>1, <1>2, <1>7, <1>17, <1>18 DEF Answered
  <2> HIDE DEF p
  <2>2. /\ toBroker' \in Seq(Packets) /\ toClient' \in Seq(Packets)
        /\ OneAtATime(toBroker, toClient)' /\ OneAtATime(toClient, toBroker)' /\ Resumption'
        /\ Items(toClient') \subseteq Items(Tail(toClient))
        /\ Items(toBroker') \subseteq Items(toBroker) \cup {p}
    BY <1>5, <2>1, ClientTakes
  <2>3. Ignored(R.records) \/ Broken(R.records) => Items(toBroker') \subseteq Items(toBroker)
    BY Cleared DEF Ignored, Broken
  <2> QED BY <2>2, <2>3
<1> HIDE DEF p
<1>20. /\ BothSized(records') /\ records'.outgoing = records.outgoing
       /\ \A r : r.packetId # x => (r \in Recs(records'.incoming) <=> r \in Recs(records.incoming))
       /\ \A r \in Recs(records'.incoming) : r.packetId = x => r.qos = Qos(m) /\ copies'[m] > 0
       /\ Qos(m) = 2 /\ copies'[m] > 0 => \E r \in Recs(records'.incoming) : r.packetId = x
       /\ p \in Items(toBroker') => /\ copies'[m] > 0
                                    /\ Qos(m) = 1 => \A r \in Recs(records'.incoming) : r.packetId # x
  <2>1. CASE R.status \in {"MQTTSuccess", "MQTTStateCollision"}
    <3>1. /\ BothSized(records') /\ records'.outgoing = records.outgoing
          /\ \A r : r.packetId # x => (r \in Recs(records'.incoming) <=> r \in Recs(records.incoming))
          /\ \A r \in Recs(records'.incoming) : r.packetId = x => r.qos = Qos(m)
          /\ Qos(m) = 2 => \E r \in Recs(records'.incoming) : r.packetId = x
          /\ Qos(m) = 1 /\ ~Broken(R.records) => \A r \in Recs(records'.incoming) : r.packetId # x
      BY <1>4, <1>6, <1>8, <1>12, <1>13, <1>18, <2>1, ReceivedRecs DEF type
    <3>2. p \in Items(toBroker') => ~Broken(R.records)
      BY <1>8, <1>17, <1>19
    <3> QED BY <1>16, <2>1, <3>1, <3>2
  <2>2. CASE R.status \notin {"MQTTSuccess", "MQTTStateCollision"}
    <3>1. Ignored(R.records) /\ records' = R.records
      BY <1>18, <2>2 DEF Ignored
    <3>2. copies' = copies /\ Recs(records'.incoming) = Recs(records.incoming) /\ Incoming(x) = {}
      BY <1>5, <1>15, <2>2, <3>1
    <3>3. p \notin Items(toBroker')
      BY <1>8, <1>17, <1>19, <3>1
    <3>4. \A r \in Recs(records'.incoming) : r.packetId # x
      BY <1>13, <3>2
    <3>5. Qos(m) = 2 => ~(copies'[m] > 0)
      BY <1>12, <3>2
    <3> QED BY <1>14, <3>1, <3>2, <3>3, <3>4, <3>5
  <2> QED BY <2>1, <2>2
<1>21. Types'
  <2>1. \A k \in Messages : stage'[k] = "new" => copies'[k] = 0
    BY <1>5, <1>12, <1>16 DEF DeliveryInv, Types
  <2> QED BY <1>5, <1>16, <1>19, <1>20, <2>1 DEF DeliveryInv, Types, BothSized
<1>22. OneMessageEach'
  BY <1>5 DEF DeliveryInv, OneMessageEach
<1>23. \A id \in PacketIds : OutOK(id)'
  <2>1. \A k \in Out : stage'[k] = stage[k] /\ copies'[k] = copies[k]
    BY <1>5, <1>11, <1>16, QosFacts DEF Messages
  <2>2. /\ \A k \in Items(toClient') : k.type \in Replies => k \in Items(toClient)
        /\ \A k \in Items(toBroker') : k.type \in Requests => k \in Items(toBroker)
    BY <1>8, <1>17, <1>19
  <2>3. Recs(records'.outgoing) = Recs(records.outgoing)
    BY <1>20
  <2> QED BY <1>5, <2>1, <2>2, <2>3, OutSame DEF DeliveryInv
<1>24. \A id \in PacketIds : id # x => InOK(id)'
  <2>1. \A k : k.id # x => /\ k \in Items(brokerSends') <=> k \in Items(brokerSends)
                           /\ k \in Items(brokerSends) => k.msg # m
    BY <1>5, <1>11
  <2>2. \A k \in In : k # m => stage'[k] = stage[k] /\ copies'[k] = copies[k]
    BY <1>5, <1>16 DEF Messages
  <2>3. /\ \A k \in Items(toClient') : k.id # x /\ k.type \in Requests => k \in Items(toClient)
        /\ \A k \in Items(toBroker') : k.id # x /\ k.type \in Replies => k \in Items(toBroker)
    BY <1>8, <1>17, <1>19
  <2>4. Types /\ \A id \in PacketIds : InOK(id)
    BY DEF DeliveryInv
  <2>5. \A r : r.packetId # x => (r \in Recs(records'.incoming) <=> r \in Recs(records.incoming))
    BY <1>20
  <2> QED BY <2>1, <2>2, <2>3, <2>4, <2>5, InOthers
<1>25. InOK(x)'
  <2>1. Sending(x)' = {s}
    BY <1>5, <1>11 DEF Sending
  <2>2. stage'[s.msg] = "open" /\ ~s.rel
    BY <1>5, <1>10, <1>12
  <2>3. \A q \in Incoming(x)' : q.qos = Qos(s.msg) /\ copies'[s.msg] > 0
    BY <1>10, <1>20 DEF Incoming
  <2>4. Qos(s.msg) = 2 /\ Incoming(x)' = {} => copies'[s.msg] = 0
    <3>1. copies'[m] \in 0..2
      BY <1>11, <1>16
    <3> QED BY <1>10, <1>20, <3>1 DEF Incoming
  <2>5. \A k \in Items(toClient') : k.id = x => k.type \notin Requests
    BY <1>8, <1>19
  <2>6. \A k \in Items(toBroker') : k.id = x /\ k.type \in Replies =>
          /\ copies'[s.msg] > 0 /\ k.type \in {"PUBACK", "PUBREC"}
          /\ k.type = "PUBREC" => Qos(s.msg) = 2
          /\ k.type # "PUBREC" => Incoming(x)' = {}
    <3> SUFFICES ASSUME NEW k \in Items(toBroker'), k.id = x, k.type \in Replies
                 PROVE  /\ copies'[s.msg] > 0 /\ k.type \in {"PUBACK", "PUBREC"}
                        /\ k.type = "PUBREC" => Qos(s.msg) = 2
                        /\ k.type # "PUBREC" => Incoming(x)' = {}
      OBVIOUS
    <3>1. k = p
      BY <1>8, <1>19
    <3>2. k.type = IF Qos(m) = 1 THEN "PUBACK" ELSE "PUBREC"
      BY <1>17, <3>1 DEF type
    <3>3. copies'[m] > 0 /\ (Qos(m) = 1 => Incoming(x)' = {})
      BY <1>20, <3>1 DEF Incoming
    <3> QED BY <1>10, <1>12, <3>2, <3>3
  <2> QED BY <2>1, <2>2, <2>3, <2>4, <2>5, <2>6 DEF InOK
<1>26. [Promise!Next]_<<stage, copies>>
  BY <1>5, <1>11, <1>12, <1>16, QosFacts DEF Promise!Next, Promise!Deliver, Deliver
<1> QED BY <1>19, <1>21, <1>22, <1>23, <1>24, <1>25, <1>26 DEF DeliveryInv

\* An incoming PUBREL: the record moves on and, once the PUBCOMP has gone out, goes.
LEMMA ReleasedRecs ==
  ASSUME RecordsOK(records), BothSized(records), NEW x \in PacketIds,
         \A q \in Recs(records.incoming) : q.packetId = x => q.qos = 2,
         NEW a, a = MQTT_UpdateStateAck(records, x, "PUBREL", "RECEIVE"),
         NEW after, after = AfterAck(records, "PUBREL", "RECEIVE", a),
         sendPublishAcks(after, x, a.newState, Tail(toClient))
  PROVE  /\ a.newState # "Done"
         /\ BothSized(records') /\ records'.outgoing = records.outgoing
         /\ \A r : r.packetId # x => (r \in Recs(records'.incoming) <=> r \in Recs(records.incoming))
         /\ \A r \in Recs(records'.incoming) : r.packetId = x =>
              r.qos = 2 /\ \E q \in Recs(records.incoming) : q.packetId = x
         /\ \/ Ignored(after) \/ Broken(after)
            \/ Answered(after, x, "PUBCOMP") /\ \A r \in Recs(records'.incoming) : r.packetId # x
<1>1. x # 0 /\ ~isPublishOutgoing("PUBREL", "RECEIVE") /\ ~isPublishOutgoing("PUBCOMP", "SEND")
  BY PacketFacts DEF isPublishOutgoing
<1>2. CASE \A q \in Recs(records.incoming) : q.packetId # x
  <2>1. a.newState = "Null" /\ after = records
    BY <1>1, <1>2, AckUnknown
  <2>2. Ignored(after) /\ records' = records
    BY <2>1, AcksSent DEF Ignored
  <2> QED BY <1>2, <2>1, <2>2
<1>3. ASSUME NEW q \in Recs(records.incoming), q.packetId = x
      PROVE  /\ a.newState # "Done"
             /\ BothSized(records') /\ records'.outgoing = records.outgoing
             /\ \A r : r.packetId # x => (r \in Recs(records'.incoming) <=> r \in Recs(records.incoming))
             /\ \A r \in Recs(records'.incoming) : r.packetId = x => r.qos = 2
             /\ \/ Ignored(after) \/ Broken(after)
                \/ Answered(after, x, "PUBCOMP") /\ \A r \in Recs(records'.incoming) : r.packetId # x
  <2>1. /\ q.qos = 2 /\ IsSlot(q)
        /\ \A r \in Recs(records.incoming) : r.packetId = x => r = q
    BY <1>3, RecordFacts DEF RecordsOK
  <2>2. MQTT_CalculateStateAck("PUBREL", "RECEIVE", q.qos) = "PubCompSend"
    BY <2>1 DEF MQTT_CalculateStateAck
  <2>3. /\ after.outgoing = records.outgoing /\ BothSized(after)
        /\ IF validateTransitionAck(q.publishState, "PubCompSend")
           THEN a.newState = "PubCompSend" /\ Moves(records.incoming, after.incoming, q, "PubCompSend")
           ELSE a.newState = "Null" /\ after.incoming = records.incoming
    BY <1>1, <1>3, <2>2, AckIncoming
  <2>4. CASE ~validateTransitionAck(q.publishState, "PubCompSend")
    <3>1. Ignored(after) /\ records' = after
      BY <2>3, <2>4, AcksSent DEF Ignored
    <3> QED BY <1>3, <2>1, <2>3, <2>4, <3>1
  <2>5. CASE validateTransitionAck(q.publishState, "PubCompSend")
    <3>1. PICK s : s = [q EXCEPT !.publishState = "PubCompSend"]
      OBVIOUS
    <3>2. /\ s.packetId = x /\ s.qos = 2 /\ s.publishState = "PubCompSend"
          /\ Recs(after.incoming) = (Recs(records.incoming) \ {q}) \cup {s}
      BY <1>3, <2>1, <2>3, <2>5, <3>1 DEF IsSlot, Moves
    <3>3. Answered(after, x, "PUBCOMP") \/ Broken(after)
      BY <2>3, <2>5, AcksSent
    <3>4. CASE Broken(after)
      <4>1. records' = after
        BY <3>4 DEF Broken
      <4> QED BY <1>3, <2>1, <2>3, <2>5, <3>2, <3>4, <4>1
    <3>5. CASE Answered(after, x, "PUBCOMP")
      <4>1. RecordsOK(after)
        BY AckKeeps
      <4>2. PICK b : b = MQTT_UpdateStateAck(after, x, "PUBCOMP", "SEND")
        OBVIOUS
      <4>3. records' = AfterAck(after, "PUBCOMP", "SEND", b)
        BY <3>5, <4>2 DEF Answered
      <4>4. MQTT_CalculateStateAck("PUBCOMP", "SEND", s.qos) = "Done" /\ validateTransitionAck(s.publishState, "Done")
        BY <3>2 DEF MQTT_CalculateStateAck, validateTransitionAck
      <4>5. s \in Recs(after.incoming)
        BY <3>2
      <4>6. /\ records'.outgoing = after.outgoing /\ BothSized(records')
            /\ Moves(after.incoming, records'.incoming, s, "Done")
        BY <1>1, <2>3, <3>2, <4>1, <4>2, <4>3, <4>4, <4>5, AckIncoming
      <4>7. Recs(records'.incoming) = Recs(after.incoming) \ {s}
        BY <4>6 DEF Moves
      <4> QED BY <1>3, <2>1, <2>3, <2>5, <3>2, <3>5, <4>6, <4>7
    <3> QED BY <3>3, <3>4, <3>5
  <2> QED BY <2>4, <2>5
<1> QED BY <1>2, <1>3

\* A reply to a publish or PUBREL of the client finds its record and moves it on.
LEMMA AcknowledgedRecs ==
  ASSUME RecordsOK(records), BothSized(records), NEW x \in PacketIds,
         NEW q \in Recs(records.outgoing), q.packetId = x, NEW type \in Replies,
         type = "PUBACK" => q.publishState = "PubAckPending",
         type = "PUBREC" => q.publishState = "PubRecPending",
         type = "PUBCOMP" => q.publishState = "PubCompPending",
         NEW a, a = MQTT_UpdateStateAck(records, x, type, "RECEIVE"),
         NEW after, after = AfterAck(records, type, "RECEIVE", a),
         sendPublishAcks(after, x, a.newState, Tail(toClient))
  PROVE  /\ BothSized(records') /\ records'.incoming = records.incoming
         /\ Shifts(records.outgoing, records'.outgoing, x)
         /\ type = "PUBREC" => EndsWith(records'.outgoing, x)
         /\ type # "PUBREC" => /\ a.newState = "Done" /\ Ignored(after)
                               /\ Recs(records'.outgoing) = Recs(records.outgoing) \ {q}
         /\ type = "PUBREC" =>
              /\ a.newState = "PubRelSend"
              /\ \E s : /\ s.packetId = x /\ s.qos = q.qos /\ s.publishState \in OutgoingRelStates
                        /\ Recs(records'.outgoing) = (Recs(records.outgoing) \ {q}) \cup {s}
                        /\ \/ Broken(after)
                           \/ Answered(after, x, "PUBREL") /\ s.publishState = "PubCompPending"
<1>1. IsSlot(q) /\ Fits(q.qos, q.publishState, OutgoingStates) /\ type \in {"PUBACK", "PUBREC", "PUBCOMP"}
  BY RecordFacts DEF RecordsOK, Replies
<1>2. isPublishOutgoing(type, "RECEIVE") /\ isPublishOutgoing("PUBREL", "SEND")
  BY <1>1 DEF isPublishOutgoing
<1>3. q.qos = IF type = "PUBACK" THEN 1 ELSE 2
  BY <1>1 DEF Fits
<1>4. PICK new : new = IF type = "PUBREC" THEN "PubRelSend" ELSE "Done"
  OBVIOUS
<1>5. new = MQTT_CalculateStateAck(type, "RECEIVE", q.qos)
  <2>1. CASE type = "PUBACK"
    BY <1>3, <1>4, <2>1 DEF MQTT_CalculateStateAck
  <2>2. CASE type = "PUBREC"
    BY <1>3, <1>4, <2>2 DEF MQTT_CalculateStateAck
  <2>3. CASE type = "PUBCOMP"
    BY <1>3, <1>4, <2>3 DEF MQTT_CalculateStateAck
  <2> QED BY <1>1, <2>1, <2>2, <2>3
<1>6. validateTransitionAck(q.publishState, new)
  BY <1>1, <1>4 DEF validateTransitionAck
<1>7. /\ a.newState = new /\ after.incoming = records.incoming /\ BothSized(after)
      /\ Moves(records.outgoing, after.outgoing, q, new)
  BY <1>2, <1>5, <1>6, AckOutgoing
<1>8. CASE type # "PUBREC"
  <2>1. Ignored(after) /\ records' = after
    BY <1>4, <1>7, <1>8, AcksSent DEF Ignored
  <2>2. Recs(after.outgoing) = Recs(records.outgoing) \ {q} /\ Shifts(records.outgoing, after.outgoing, x)
    BY <1>4, <1>7, <1>8 DEF Moves
  <2> QED BY <1>4, <1>7, <1>8, <2>1, <2>2
<1>9. CASE type = "PUBREC"
  <2>1. PICK s : s = [q EXCEPT !.publishState = "PubRelSend"]
    OBVIOUS
  <2>2. /\ s.packetId = x /\ s.qos = q.qos /\ s.publishState = "PubRelSend" /\ IsSlot(s)
        /\ Recs(after.outgoing) = (Recs(records.outgoing) \ {q}) \cup {s}
        /\ Shifts(records.outgoing, after.outgoing, x) /\ EndsWith(after.outgoing, x)
    BY <1>1, <1>4, <1>7, <1>9, <2>1 DEF IsSlot, Moves, PublishStates, OutgoingRelStates
  <2>3. Answered(after, x, "PUBREL") \/ Broken(after)
    BY <1>4, <1>7, <1>9, AcksSent
  <2>4. CASE Broken(after)
    <3>1. records' = after
      BY <2>4 DEF Broken
    <3> QED BY <1>4, <1>7, <1>9, <2>2, <2>4, <3>1 DEF OutgoingRelStates
  <2>5. CASE Answered(after, x, "PUBREL")
    <3>1. RecordsOK(after)
      BY AckKeeps
    <3>2. PICK b : b = MQTT_UpdateStateAck(after, x, "PUBREL", "SEND")
      OBVIOUS
    <3>3. records' = AfterAck(after, "PUBREL", "SEND", b)
      BY <2>5, <3>2 DEF Answered
    <3>4. /\ MQTT_CalculateStateAck("PUBREL", "SEND", s.qos) = "PubCompPending"
          /\ validateTransitionAck(s.publishState, "PubCompPending")
      BY <1>3, <1>9, <2>2 DEF MQTT_CalculateStateAck, validateTransitionAck
    <3>5. s \in Recs(after.outgoing)
      BY <2>2
    <3>6. /\ records'.incoming = after.incoming /\ BothSized(records')
          /\ Moves(after.outgoing, records'.outgoing, s, "PubCompPending")
      BY <1>2, <1>7, <2>2, <3>1, <3>2, <3>3, <3>4, <3>5, AckOutgoing
    <3>7. PICK t : t = [s EXCEPT !.publishState = "PubCompPending"]
      OBVIOUS
    <3>8. /\ t.packetId = x /\ t.qos = q.qos /\ t.publishState = "PubCompPending"
          /\ Recs(records'.outgoing) = (Recs(after.outgoing) \ {s}) \cup {t}
          /\ Shifts(after.outgoing, records'.outgoing, 0)
      BY <2>2, <3>6, <3>7 DEF IsSlot, Moves
    <3>9. s \notin Recs(records.outgoing) \ {q}
      <4>1. \A r \in Recs(records.outgoing) : r.packetId = x => r = q
        BY RecordFacts DEF RecordsOK
      <4> QED BY <2>2, <4>1
    <3>10. Recs(records'.outgoing) = (Recs(records.outgoing) \ {q}) \cup {t}
      BY <2>2, <3>8, <3>9
    <3>11. Shifts(records.outgoing, records'.outgoing, x)
      BY <2>2, <3>8, ShiftsTwice
    <3>12. EndsWith(records'.outgoing, x)
      BY <2>2, <3>5, <3>8, PacketFacts, EndsWithKept
    <3> QED BY <1>4, <1>7, <1>9, <2>5, <3>6, <3>8, <3>10, <3>11, <3>12 DEF OutgoingRelStates
  <2> QED BY <2>3, <2>4, <2>5
<1> QED BY <1>8, <1>9

\* The client takes a PUBREL about a message of the broker.
LEMMA IncomingReleaseStep ==
  ASSUME DeliveryInv, RecordsInv, handlePublishAcks, Head(toClient).type = "PUBREL"
  PROVE  DeliveryInv' /\ UNCHANGED <<stage, copies>>
<1>1. PICK h : h = Head(toClient)
  OBVIOUS
<1>2. PICK x : x = h.id
  OBVIOUS
<1>3. PICK a : a = MQTT_UpdateStateAck(records, x, "PUBREL", "RECEIVE")
  OBVIOUS
<1>4. PICK after : after = AfterAck(records, "PUBREL", "RECEIVE", a)
  OBVIOUS
<1>5. /\ Received /\ toClient # <<>> /\ h.type = "PUBREL"
      /\ sendPublishAcks(after, x, a.newState, Tail(toClient))
      /\ a.newState # "Done" => UNCHANGED <<stage, published>>
      /\ UNCHANGED <<nextPacketId, cursor, brokerSends, brokerHolds, copies>>
  BY <1>1, <1>2, <1>3, <1>4 DEF handlePublishAcks, broker, Received
<1>6. toBroker \in Seq(Packets) /\ toClient \in Seq(Packets)
      /\ OneAtATime(toBroker, toClient) /\ OneAtATime(toClient, toBroker)
      /\ RecordsOK(records) /\ BothSized(records)
  BY DEF DeliveryInv, Types, RecordsInv, BothSized
<1>7. h.type \in Requests /\ h.type \notin Replies
  BY <1>5, Kinds DEF Requests, Replies
<1>8. /\ h \in Items(toClient) /\ h \in Packets /\ x \in PacketIds
      /\ Items(Tail(toClient)) \subseteq Items(toClient)
      /\ \A k \in Items(Tail(toClient)) : k.id = x => k.type \notin Requests
      /\ \A k \in Items(toBroker) : k.id = x => k.type \notin Replies
  BY <1>1, <1>2, <1>5, <1>6, <1>7, HeadFacts
<1>9. InOK(x)
  BY <1>8 DEF DeliveryInv
<1>10. PICK s \in Sending(x) : s.rel
  BY <1>2, <1>5, <1>7, <1>8, <1>9 DEF InOK
<1>11. Sending(x) = {s}
  <2>1. s \in Items(brokerSends) /\ s.id = x
    BY <1>10 DEF Sending
  <2> QED BY <1>10, <2>1 DEF Sending, Items, DeliveryInv, OneMessageEach
<1>12. /\ Qos(s.msg) = 2 /\ copies[s.msg] > 0 /\ stage[s.msg] = "open"
       /\ \A q \in Recs(records.incoming) : q.packetId = x => q.qos = 2
  BY <1>9, <1>10, <1>11 DEF InOK, Incoming
<1>13. /\ a.newState # "Done"
       /\ BothSized(records') /\ records'.outgoing = records.outgoing
       /\ \A r : r.packetId # x => (r \in Recs(records'.incoming) <=> r \in Recs(records.incoming))
       /\ \A r \in Recs(records'.incoming) : r.packetId = x => r.qos = 2
       /\ \/ Ignored(after) \/ Broken(after)
          \/ Answered(after, x, "PUBCOMP") /\ \A r \in Recs(records'.incoming) : r.packetId # x
  BY <1>3, <1>4, <1>5, <1>6, <1>8, <1>12, ReleasedRecs
<1>14. PICK p : p = Ack("PUBCOMP", x)
  OBVIOUS
<1>15. p \in Packets /\ p.id = x /\ p.type = "PUBCOMP" /\ p.type \in Replies /\ p.type \notin Requests
  BY <1>8, <1>14, PacketFacts, Kinds DEF Replies
<1>16. \/ /\ toBroker' = Append(toBroker, p) /\ toClient' = Tail(toClient) /\ UNCHANGED app
          /\ \A r \in Recs(records'.incoming) : r.packetId # x
       \/ Ignored(after) \/ Broken(after)
  BY <1>13, <1>14 DEF Answered
<1>17. /\ toBroker' \in Seq(Packets) /\ toClient' \in Seq(Packets)
       /\ OneAtATime(toBroker, toClient)' /\ OneAtATime(toClient, toBroker)' /\ Resumption'
       /\ Items(toClient') \subseteq Items(Tail(toClient))
       /\ Items(toBroker') \subseteq Items(toBroker) \cup {p}
  BY <1>1, <1>2, <1>5, <1>7, <1>15, <1>16, ClientTakes
<1>18. p \in Items(toBroker') => \A r \in Recs(records'.incoming) : r.packetId # x
  <2>1. Ignored(after) \/ Broken(after) => Items(toBroker') \subseteq Items(toBroker)
    BY Cleared DEF Ignored, Broken
  <2> QED BY <1>8, <1>15, <1>16, <2>1
<1>19. UNCHANGED <<nextPacketId, cursor, published, brokerSends, brokerHolds, stage, copies>>
  BY <1>5, <1>13
<1>20. Types' /\ OneMessageEach'
  BY <1>13, <1>17, <1>19 DEF DeliveryInv, Types, OneMessageEach, BothSized
<1>21. \A id \in PacketIds : OutOK(id)'
  <2>1. /\ \A k \in Items(toClient') : k.type \in Replies => k \in Items(toClient)
        /\ \A k \in Items(toBroker') : k.type \in Requests => k \in Items(toBroker)
    BY <1>8, <1>15, <1>17
  <2> QED BY <1>13, <1>19, <2>1, OutSame DEF DeliveryInv
<1>22. \A id \in PacketIds : id # x => InOK(id)'
  <2>1. \A k : k.id # x => /\ k \in Items(brokerSends') <=> k \in Items(brokerSends)
                           /\ k \in Items(brokerSends) => k.msg # s.msg
    <3>1. s \in Items(brokerSends) /\ s.id = x
      BY <1>10 DEF Sending
    <3> QED BY <1>19, <3>1 DEF Items, DeliveryInv, OneMessageEach
  <2>2. /\ \A k \in Items(toClient') : k.id # x /\ k.type \in Requests => k \in Items(toClient)
        /\ \A k \in Items(toBroker') : k.id # x /\ k.type \in Replies => k \in Items(toBroker)
    BY <1>8, <1>15, <1>17
  <2>3. Types /\ \A id \in PacketIds : InOK(id)
    BY DEF DeliveryInv
  <2> QED BY <1>13, <1>19, <2>1, <2>2, <2>3, InOthers
<1>23. InOK(x)'
  <2>1. Sending(x)' = {s}
    BY <1>11, <1>19 DEF Sending
  <2>2. stage'[s.msg] = "open" /\ copies'[s.msg] > 0
    BY <1>12, <1>19
  <2>3. \A q \in Incoming(x)' : q.qos = Qos(s.msg)
    BY <1>12, <1>13 DEF Incoming
  <2>4. \A k \in Items(toClient') : k.id = x => k.type \notin Requests
    BY <1>8, <1>17
  <2>5. \A k \in Items(toBroker') : k.id = x /\ k.type \in Replies =>
          k.type = "PUBCOMP" /\ Incoming(x)' = {}
    BY <1>8, <1>15, <1>17, <1>18 DEF Incoming
  <2> QED BY <1>10, <1>12, <2>1, <2>2, <2>3, <2>4, <2>5 DEF InOK
<1> QED BY <1>17, <1>19, <1>20, <1>21, <1>22, <1>23 DEF DeliveryInv

\* The client takes a reply about a message of its own.
LEMMA IncomingReplyStep ==
  ASSUME DeliveryInv, RecordsInv, handlePublishAcks, Head(toClient).type \in Replies
  PROVE  DeliveryInv' /\ [Promise!Next]_<<stage, copies>>
<1>1. PICK h : h = Head(toClient)
  OBVIOUS
<1>2. PICK x : x = h.id
  OBVIOUS
<1>3. PICK a : a = MQTT_UpdateStateAck(records, x, h.type, "RECEIVE")
  OBVIOUS
<1>4. PICK after : after = AfterAck(records, h.type, "RECEIVE", a)
  OBVIOUS
<1>5. PICK m : m = published[x]
  OBVIOUS
<1>6. /\ Received /\ toClient # <<>> /\ h.type \in Replies
      /\ sendPublishAcks(after, x, a.newState, Tail(toClient))
      /\ IF a.newState = "Done"
           THEN /\ stage' = [stage EXCEPT ![m] = "done"]
                /\ published' = [i \in DOMAIN published \ {x} |-> published[i]]
           ELSE UNCHANGED <<stage, published>>
      /\ UNCHANGED <<nextPacketId, cursor, brokerSends, brokerHolds, copies>>
  BY <1>1, <1>2, <1>3, <1>4, <1>5 DEF handlePublishAcks, broker, Received
<1>7. toBroker \in Seq(Packets) /\ toClient \in Seq(Packets)
      /\ OneAtATime(toBroker, toClient) /\ OneAtATime(toClient, toBroker)
      /\ RecordsOK(records) /\ BothSized(records)
  BY DEF DeliveryInv, Types, RecordsInv, BothSized
<1>8. /\ h \in Items(toClient) /\ h \in Packets /\ x \in PacketIds /\ h.type \notin Requests
      /\ Items(Tail(toClient)) \subseteq Items(toClient)
      /\ \A k \in Items(Tail(toClient)) : k.id = x => k.type \notin Replies
      /\ \A k \in Items(toBroker) : k.id = x => k.type \notin Requests
  BY <1>1, <1>2, <1>6, <1>7, HeadFacts
<1>9. OutOK(x)
  BY <1>8 DEF DeliveryInv
<1>10. PICK q \in Outgoing(x) : OutReply(h, q, copies[m], x \in brokerHolds)
  BY <1>2, <1>5, <1>6, <1>8, <1>9 DEF OutOK
<1>11. /\ x \in DOMAIN published /\ m \in Out /\ stage[m] = "open" /\ q \in Recs(records.outgoing)
       /\ q.packetId = x /\ OutMessage(q, m, copies[m], x \in brokerHolds)
       /\ \A r \in Recs(records.outgoing) : r.packetId = x => r = q
  <2>1. /\ x \in DOMAIN published /\ m \in Out /\ stage[m] = "open" /\ q \in Recs(records.outgoing)
        /\ q.packetId = x /\ OutMessage(q, m, copies[m], x \in brokerHolds)
    BY <1>5, <1>9, <1>10, OutFacts DEF OutOK
  <2> QED BY <1>7, <2>1, RecordFacts DEF RecordsOK
<1>12. h.type \in {"PUBACK", "PUBREC", "PUBCOMP"}
  BY <1>6 DEF Replies
<1>13. /\ h.type = "PUBACK" => q.publishState = "PubAckPending" /\ copies[m] > 0
       /\ h.type = "PUBREC" => q.publishState = "PubRecPending" /\ copies[m] > 0
       /\ h.type = "PUBCOMP" => q.publishState = "PubCompPending" /\ x \notin brokerHolds /\ copies[m] > 0
  <2>1. /\ h.type = "PUBACK" => q.publishState = "PubAckPending" /\ copies[m] > 0
        /\ h.type = "PUBREC" => q.publishState = "PubRecPending" /\ copies[m] > 0
        /\ h.type = "PUBCOMP" => q.publishState = "PubCompPending" /\ x \notin brokerHolds
    BY <1>10 DEF OutReply
  <2> QED BY <1>11, <2>1 DEF OutMessage, OutgoingRelStates
<1>14. /\ BothSized(records') /\ records'.incoming = records.incoming
       /\ h.type # "PUBREC" => /\ a.newState = "Done" /\ Ignored(after)
                               /\ Recs(records'.outgoing) = Recs(records.outgoing) \ {q}
       /\ h.type = "PUBREC" =>
            /\ a.newState = "PubRelSend"
            /\ \E s : /\ s.packetId = x /\ s.qos = q.qos /\ s.publishState \in OutgoingRelStates
                      /\ Recs(records'.outgoing) = (Recs(records.outgoing) \ {q}) \cup {s}
                      /\ \/ Broken(after)
                         \/ Answered(after, x, "PUBREL") /\ s.publishState = "PubCompPending"
  BY <1>3, <1>4, <1>6, <1>7, <1>8, <1>11, <1>13, AcknowledgedRecs
<1>15. PICK p : p = Ack("PUBREL", x)
  OBVIOUS
<1>16. p \in Packets /\ p.id = x /\ p.type = "PUBREL" /\ p.type \in Requests /\ p.type \notin Replies
  BY <1>8, <1>15, PacketFacts, Kinds DEF Requests
<1>17. /\ toBroker' \in Seq(Packets) /\ toClient' \in Seq(Packets)
       /\ OneAtATime(toBroker, toClient)' /\ OneAtATime(toClient, toBroker)' /\ Resumption'
       /\ Items(toClient') \subseteq Items(Tail(toClient))
       /\ Items(toBroker') \subseteq Items(toBroker) \cup {p}
  <2>1. \/ toBroker' = Append(toBroker, p) /\ toClient' = Tail(toClient) /\ UNCHANGED app
        \/ Ignored(after) \/ Broken(after)
    BY <1>14, <1>15 DEF Answered
  <2> QED BY <1>1, <1>2, <1>6, <1>8, <1>16, <2>1, ClientTakes
<1>18. Ignored(after) \/ Broken(after) => p \notin Items(toBroker')
  <2>1. Ignored(after) \/ Broken(after) => Items(toBroker') \subseteq Items(toBroker)
    BY Cleared DEF Ignored, Broken
  <2> QED BY <1>8, <1>16, <2>1
<1>19. \A r : r.packetId # x => (r \in Recs(records'.outgoing) <=> r \in Recs(records.outgoing))
  BY <1>11, <1>14
\* The other messages, whatever the reply.
<1>20. /\ DOMAIN published' \subseteq DOMAIN published /\ m \in Messages
       /\ \A i \in DOMAIN published : i # x => i \in DOMAIN published' /\ published'[i] = published[i]
       /\ \A i \in DOMAIN published' : published'[i] = published[i]
       /\ stage' \in [Messages -> {"new", "open", "done", "dropped"}]
       /\ \A k \in Messages : k # m => stage'[k] = stage[k]
       /\ stage'[m] # "new"
  <2>1. m \in Messages /\ stage \in [Messages -> {"new", "open", "done", "dropped"}]
    BY <1>11 DEF DeliveryInv, Types, Messages
  <2> QED BY <1>6, <1>11, <2>1
<1>21. Types'
  <2>1. \A k \in Messages : stage'[k] = "new" => copies'[k] = 0
    BY <1>6, <1>20 DEF DeliveryInv, Types
  <2>2. \A k \in Recs(records'.outgoing) : k.packetId \in PacketIds
    BY <1>8, <1>19 DEF DeliveryInv, Types
  <2> QED BY <1>6, <1>14, <1>17, <1>20, <2>1, <2>2 DEF DeliveryInv, Types, BothSized
<1>22. OneMessageEach'
  <2>1. \A i, j \in DOMAIN published' : published'[i] = published'[j] => i = j
    BY <1>20 DEF DeliveryInv, OneMessageEach
  <2> QED BY <1>6, <2>1 DEF DeliveryInv, OneMessageEach
<1>23. \A id \in PacketIds : InOK(id)'
  <2>1. \A k \in In : stage'[k] = stage[k] /\ copies'[k] = copies[k]
    BY <1>6, <1>11, <1>20, QosFacts DEF Messages
  <2>2. /\ \A k \in Items(toClient') : k.type \in Requests => k \in Items(toClient)
        /\ \A k \in Items(toBroker') : k.type \in Replies => k \in Items(toBroker)
    BY <1>8, <1>16, <1>17
  <2> QED BY <1>6, <1>14, <2>1, <2>2, InSame DEF DeliveryInv
<1>24. \A id \in PacketIds : id # x => OutOK(id)'
  <2>1. \A i : i # x => /\ i \in DOMAIN published' <=> i \in DOMAIN published
                        /\ i \in brokerHolds' <=> i \in brokerHolds
                        /\ i \in DOMAIN published => published'[i] = published[i] /\ published[i] # m
    BY <1>5, <1>6, <1>11, <1>20 DEF DeliveryInv, OneMessageEach
  <2>2. /\ \A k \in Items(toBroker') : k.id # x /\ k.type \in Requests => k \in Items(toBroker)
        /\ \A k \in Items(toClient') : k.id # x /\ k.type \in Replies => k \in Items(toClient)
    BY <1>8, <1>16, <1>17
  <2>3. \A k \in Out : k # m => stage'[k] = stage[k] /\ copies'[k] = copies[k]
    BY <1>6, <1>20 DEF Messages
  <2>4. \A id \in PacketIds : OutOK(id)
    BY DEF DeliveryInv
  <2> QED BY <1>19, <2>1, <2>2, <2>3, <2>4, OutOthers
<1>25. OutOK(x)' /\ [Promise!Next]_<<stage, copies>>
  <2>1. \A k \in Items(toClient') : k.id = x => k.type \notin Replies
    BY <1>8, <1>17
  <2>2. CASE h.type # "PUBREC"
    <3>1. /\ stage' = [stage EXCEPT ![m] = "done"] /\ x \notin DOMAIN published' /\ copies' = copies
      BY <1>6, <1>14, <2>2
    <3>2. Outgoing(x)' = {}
      BY <1>11, <1>14, <2>2 DEF Outgoing
    <3>3. x \notin brokerHolds'
      <4>1. q.qos = 1 => x \notin brokerHolds
        BY <1>11 DEF OutMessage
      <4>2. h.type = "PUBACK" => q.qos = 1
        BY <1>7, <1>11, <1>13, RecordFacts DEF RecordsOK, Fits
      <4> QED BY <1>6, <1>12, <1>13, <2>2, <4>1, <4>2
    <3>4. \A k \in Items(toBroker') : k.id = x => k.type \notin Requests
      BY <1>8, <1>14, <1>17, <1>18, <2>2
    <3>5. OutOK(x)'
      BY <2>1, <3>1, <3>2, <3>3, <3>4 DEF OutOK
    <3>6. Promise!Next
      BY <1>11, <1>12, <1>13, <1>20, <2>2, <3>1 DEF Promise!Next, Promise!Finish
    <3> QED BY <3>5, <3>6
  <2>3. CASE h.type = "PUBREC"
    <3>1. UNCHANGED <<stage, published, copies>> /\ copies[m] > 0
      BY <1>6, <1>13, <1>14, <2>3
    <3>2. PICK s : /\ s.packetId = x /\ s.qos = q.qos /\ s.publishState \in OutgoingRelStates
                   /\ Recs(records'.outgoing) = (Recs(records.outgoing) \ {q}) \cup {s}
                   /\ Broken(after) \/ (Answered(after, x, "PUBREL") /\ s.publishState = "PubCompPending")
      BY <1>14, <2>3
    <3>3. Outgoing(x)' = {s}
      BY <1>11, <3>2 DEF Outgoing
    <3>4. OutMessage(s, published[x], copies[published[x]], x \in brokerHolds)'
      <4>1. s.publishState \notin OutgoingPublishStates
        BY <3>2 DEF OutgoingRelStates, OutgoingPublishStates
      <4> QED BY <1>5, <1>6, <1>11, <3>1, <3>2, <4>1 DEF OutMessage
    <3>5. \A k \in Items(toBroker') : k.id = x /\ k.type \in Requests => OutRequest(k, s, published'[x])
      BY <1>8, <1>16, <1>17, <1>18, <3>2 DEF OutRequest
    <3>6. OutOK(x)'
      BY <1>6, <1>11, <2>1, <3>1, <3>3, <3>4, <3>5 DEF OutOK
    <3> QED BY <3>1, <3>6
  <2> QED BY <2>2, <2>3
<1> QED BY <1>17, <1>21, <1>22, <1>23, <1>24, <1>25 DEF DeliveryInv

LEMMA DeliveryNext == DeliveryInv /\ RecordsInv /\ [Next]_vars => DeliveryInv' /\ [Promise!Next]_<<stage, copies>>
<1> SUFFICES ASSUME DeliveryInv, RecordsInv, [Next]_vars
             PROVE  DeliveryInv' /\ [Promise!Next]_<<stage, copies>>
  OBVIOUS
<1>1. (DeliveryInv' /\ UNCHANGED <<stage, copies>>) => DeliveryInv' /\ [Promise!Next]_<<stage, copies>>
  OBVIOUS
<1>2. ASSUME NEW m \in Out, AppPublish(m)
      PROVE  DeliveryInv' /\ [Promise!Next]_<<stage, copies>>
  BY <1>2, PublishStep
<1>3. ASSUME NEW m \in In, BrokerPublish(m)
      PROVE  DeliveryInv' /\ [Promise!Next]_<<stage, copies>>
  BY <1>3, BrokerPublishStep
<1>4. CASE handleIncomingPublish
  BY <1>4, IncomingPublishStep
<1>5. CASE handlePublishAcks
  <2>1. Head(toClient).type \in Replies \cup {"PUBREL"}
    <3>1. Received /\ Head(toClient).type # "PUBLISH"
      BY <1>5 DEF handlePublishAcks
    <3>2. Head(toClient) \in Packets
      BY <3>1, TakeFacts DEF DeliveryInv, Types, Received
    <3> QED BY <3>1, <3>2, Kinds DEF Requests
  <2> QED BY <1>1, <1>5, <2>1, IncomingReleaseStep, IncomingReplyStep
<1>6. CASE RecvFailed \/ LinkLost \/ MQTT_Disconnect
  BY <1>1, <1>6, IdleStep
<1>7. CASE Resend \/ handleSessionResumption \/ Connect
  BY <1>1, <1>7, ResendStep, ResumptionStep, ConnectStep
<1>8. CASE ConnectWithoutSession
  BY <1>8, AnewStep
<1>9. CASE BrokerTakesPublish \/ BrokerTakesLast
  BY <1>9, BrokerTakesPublishStep, BrokerTakesLastStep
<1>10. CASE BrokerTakesPubrel \/ BrokerTakesPubrec
  BY <1>1, <1>10, BrokerTakesPubrelStep, BrokerTakesPubrecStep
<1>11. CASE UNCHANGED vars
  <2>1. UNCHANGED <<records, client, net, broker, ghost>>
    BY <1>11 DEF vars
  <2>2. UNCHANGED <<records, nextPacketId, app, cursor, published, toBroker, toClient, brokerSends, brokerHolds,
                    stage, copies>>
    BY <2>1 DEF client, net, broker, ghost
  <2>3. Types' /\ OneMessageEach' /\ Resumption' /\ OneAtATime(toBroker, toClient)' /\ OneAtATime(toClient, toBroker)'
    BY <2>2 DEF DeliveryInv, Types, OneMessageEach, Resumption, Untold
  <2>4. \A id \in PacketIds : OutOK(id)'
    BY <2>2, OutSame DEF DeliveryInv
  <2>5. \A id \in PacketIds : InOK(id)'
    BY <2>2, InSame DEF DeliveryInv
  <2> QED BY <1>1, <2>2, <2>3, <2>4, <2>5 DEF DeliveryInv
<1>12. \/ (\E m \in Out : AppPublish(m)) \/ (\E m \in In : BrokerPublish(m))
       \/ handleIncomingPublish \/ handlePublishAcks
       \/ (RecvFailed \/ LinkLost \/ MQTT_Disconnect) \/ (Resend \/ handleSessionResumption \/ Connect)
       \/ ConnectWithoutSession \/ (BrokerTakesPublish \/ BrokerTakesLast)
       \/ (BrokerTakesPubrel \/ BrokerTakesPubrec) \/ UNCHANGED vars
  <2>1. Next \/ UNCHANGED vars
    OBVIOUS
  <2>2. Settled => UNCHANGED vars
    BY DEF Settled
  <2> QED BY <2>1, <2>2, Zenon DEF Next, ProcessLoop, BrokerStep
<1> QED BY <1>2, <1>3, <1>4, <1>5, <1>6, <1>7, <1>8, <1>9, <1>10, <1>11, <1>12

\* In every session, with any messages, identifiers and slots, however often
\* the connection breaks and whatever it loses, the code and a broker that
\* follows the standard deliver what the QoS levels promise: nothing is
\* reported as done that was not delivered, and no QoS 2 message is delivered
\* twice (the handlers and the resumption of core_mqtt.c over core_mqtt_state.c).
THEOREM SessionDelivers == Spec => Delivered
<1>1. Init => DeliveryInv /\ RecordsInv /\ Promise!Init
  BY DeliveryInit, RecordsInit
<1>2. DeliveryInv /\ RecordsInv /\ [Next]_vars => DeliveryInv' /\ RecordsInv' /\ [Promise!Next]_<<stage, copies>>
  BY DeliveryNext, RecordsNext
<1> QED BY <1>1, <1>2, PTL DEF Spec, Delivered, Promise!Spec

-----------------------------------------------------------------------------
(* The order of the records *)

\* Some record of identifier x is in one of the states.
Has(slots, x, states) == \E q \in Recs(slots) : q.packetId = x /\ q.publishState \in states
OrderInv == sentOrder \in Seq(PacketIds) /\ relOrder \in Seq(PacketIds) /\ ResendOrder

LEMMA ListsFacts ==
  ASSUME NEW seq, NEW slots, NEW states
  PROVE  Lists(seq, slots, states) <=>
           /\ \A x : x \in Items(seq) <=> Has(slots, x, states)
           /\ \A j, k \in DOMAIN seq : j < k => Precedes(slots, seq[j], seq[k])
<1>1. \A x : x \in {slots[i].packetId : i \in {j \in Occupied(slots) : slots[j].publishState \in states}}
             <=> Has(slots, x, states)
  BY DEF Has, Recs
<1>2. Items(seq) = {seq[k] : k \in DOMAIN seq}
  BY DEF Items
<1> QED BY <1>1, <1>2 DEF Lists

LEMMA PrecedesFacts ==
  ASSUME NEW slots, NEW states, Array(slots, states), Sized(slots), NEW x, NEW y, Precedes(slots, x, y)
  PROVE  x # 0 /\ y # 0 /\ x # y
<1>1. PICK i, j \in Occupied(slots) : i < j /\ slots[i].packetId = x /\ slots[j].packetId = y
  BY DEF Precedes
<1>2. i \in Nat /\ j \in Nat
  BY SizedPlaces
<1>3. x # y
  BY <1>1, <1>2, WellFormedFits DEF Array
<1> QED BY <1>1, <1>3 DEF Occupied

\* The records in these states are the same, in the same order.
LEMMA ListsKept ==
  ASSUME NEW seq, NEW slots, NEW t, NEW states, Lists(seq, slots, states), Shifts(slots, t, 0),
         \A x : Has(t, x, states) <=> Has(slots, x, states)
  PROVE  Lists(seq, t, states)
<1>1. ASSUME NEW j \in DOMAIN seq, NEW k \in DOMAIN seq, j < k PROVE Precedes(t, seq[j], seq[k])
  <2>1. Precedes(slots, seq[j], seq[k])
    BY <1>1 DEF Lists
  <2>2. seq[j] # 0 /\ seq[k] # 0
    BY <2>1 DEF Precedes, Occupied
  <2> QED BY <2>1, <2>2 DEF Shifts
<1> QED BY <1>1, ListsFacts

\* A sequence without an item keeps the others, in their order.
LEMMA WithoutFacts ==
  ASSUME NEW S, NEW seq \in Seq(S), NEW x, \A j, k \in DOMAIN seq : seq[j] = seq[k] => j = k
  PROVE  /\ Without(seq, x) \in Seq(S)
         /\ \A y : y \in Items(Without(seq, x)) <=> y \in Items(seq) /\ y # x
         /\ \A j, k \in DOMAIN Without(seq, x) : j < k =>
              \E a, b \in DOMAIN seq : a < b /\ Without(seq, x)[j] = seq[a] /\ Without(seq, x)[k] = seq[b]
<1> DEFINE places == {k \in DOMAIN seq : seq[k] = x}
           i == First(places)
           w == Without(seq, x)
           From(k) == IF k < i THEN k ELSE k + 1
<1>0. Len(seq) \in Nat /\ DOMAIN seq = 1..Len(seq) /\ \A k \in 1..Len(seq) : seq[k] \in S
  OBVIOUS
<1>1. CASE places = {}
  <2>1. w = seq
    BY <1>1 DEF Without
  <2>2. x \notin Items(seq)
    BY <1>1 DEF Items
  <2> HIDE DEF w
  <2>3. \A y : y \in Items(w) <=> y \in Items(seq) /\ y # x
    BY <2>1, <2>2
  <2> QED BY <2>1, <2>3 DEF w
<1>2. CASE places # {}
  <2>1. places \subseteq Nat
    BY <1>0
  <2>2. i \in places
    <3> HIDE DEF places
    <3> QED BY <1>2, <2>1, FirstIsLeast
  <2>3. i \in 1..Len(seq) /\ seq[i] = x
    BY <1>0, <2>2
  <2>4. w = [k \in 1..(Len(seq) - 1) |-> seq[IF k < i THEN k ELSE k + 1]]
    BY <1>2 DEF Without
  <2> HIDE DEF places, i, w
  <2>5. Len(seq) - 1 \in Nat
    BY <1>0, <2>3
  <2>6. DOMAIN w = 1..(Len(seq) - 1)
    BY <2>4
  <2>7. ASSUME NEW k \in DOMAIN w PROVE From(k) \in 1..Len(seq) /\ From(k) # i /\ w[k] = seq[From(k)]
    BY <1>0, <2>3, <2>4, <2>6
  <2>8. ASSUME NEW n \in 1..Len(seq), n # i PROVE \E k \in DOMAIN w : From(k) = n
    <3>1. CASE n < i
      <4>1. n \in DOMAIN w
        BY <1>0, <2>3, <2>6, <3>1
      <4> QED BY <3>1, <4>1
    <3>2. CASE n > i
      <4>1. n - 1 \in DOMAIN w /\ ~(n - 1 < i) /\ (n - 1) + 1 = n
        BY <1>0, <2>3, <2>6, <3>2
      <4> QED BY <4>1
    <3> QED BY <1>0, <2>3, <2>8, <3>1, <3>2
  <2>9. \A j, k \in DOMAIN w : j < k => From(j) < From(k)
    BY <2>3, <2>5, <2>6
  <2> HIDE DEF From
  <2>10. w \in Seq(S)
    <3>1. \A k \in 1..(Len(seq) - 1) : w[k] \in S
      BY <1>0, <2>6, <2>7
    <3>2. w = [k \in 1..(Len(seq) - 1) |-> w[k]]
      BY <2>4, <2>6
    <3> QED BY <2>5, <3>1, <3>2
  <2>11. ASSUME NEW y PROVE y \in Items(w) <=> y \in Items(seq) /\ y # x
    <3>1. ASSUME y \in Items(w) PROVE y \in Items(seq) /\ y # x
      <4>1. PICK k \in DOMAIN w : y = w[k]
        BY <3>1 DEF Items
      <4>2. From(k) \in DOMAIN seq /\ From(k) # i /\ y = seq[From(k)]
        BY <1>0, <2>7, <4>1
      <4> QED BY <1>0, <2>3, <4>2 DEF Items
    <3>2. ASSUME y \in Items(seq), y # x PROVE y \in Items(w)
      <4>1. PICK n \in DOMAIN seq : y = seq[n]
        BY <3>2 DEF Items
      <4>2. PICK k \in DOMAIN w : From(k) = n
        BY <1>0, <2>3, <2>8, <3>2, <4>1
      <4>3. y = w[k]
        BY <2>7, <4>1, <4>2
      <4> QED BY <4>3 DEF Items
    <3> QED BY <3>1, <3>2
  <2>12. \A j, k \in DOMAIN w : j < k => \E a, b \in DOMAIN seq : a < b /\ w[j] = seq[a] /\ w[k] = seq[b]
    BY <1>0, <2>7, <2>9
  <2> QED BY <2>10, <2>11, <2>12 DEF w
<1> QED BY <1>1, <1>2

\* The record of x is no longer in these states.
LEMMA ListsWithout ==
  ASSUME NEW S, NEW seq \in Seq(S), NEW slots, NEW t, NEW states, NEW all, Array(slots, all), Sized(slots),
         Lists(seq, slots, states), NEW x, Shifts(slots, t, x),
         \A y : Has(t, y, states) <=> y # x /\ Has(slots, y, states)
  PROVE  Without(seq, x) \in Seq(S) /\ Lists(Without(seq, x), t, states)
<1>1. \A j, k \in DOMAIN seq : j < k => Precedes(slots, seq[j], seq[k]) /\ seq[j] # seq[k]
  BY PrecedesFacts DEF Lists
<1>2. \A j, k \in DOMAIN seq : seq[j] = seq[k] => j = k
  <2>1. \A j \in DOMAIN seq : j \in Nat
    OBVIOUS
  <2>2. \A j, k \in Nat : j < k \/ k < j \/ j = k
    OBVIOUS
  <2> QED BY <1>1, <2>1, <2>2
<1> DEFINE w == Without(seq, x)
<1>3. /\ w \in Seq(S)
      /\ \A y : y \in Items(w) <=> y \in Items(seq) /\ y # x
      /\ \A j, k \in DOMAIN w : j < k => \E a, b \in DOMAIN seq : a < b /\ w[j] = seq[a] /\ w[k] = seq[b]
  BY <1>2, WithoutFacts
<1> HIDE DEF w
<1>4. \A y : y \in Items(w) <=> Has(t, y, states)
  BY <1>3, ListsFacts
<1>5. ASSUME NEW j \in DOMAIN w, NEW k \in DOMAIN w, j < k PROVE Precedes(t, w[j], w[k])
  <2>1. Precedes(slots, w[j], w[k])
    BY <1>1, <1>3, <1>5
  <2>2. w[j] \in Items(w) /\ w[k] \in Items(w)
    BY DEF Items
  <2>3. w[j] # x /\ w[k] # x
    BY <1>3, <2>2
  <2> QED BY <2>1, <2>3 DEF Shifts
<1>6. Lists(w, t, states)
  BY <1>4, <1>5, ListsFacts
<1> QED BY <1>3, <1>6 DEF w

\* The record of x comes to these states, behind all others.
LEMMA ListsAppend ==
  ASSUME NEW S, NEW seq \in Seq(S), NEW slots, NEW t, NEW states,
         Lists(seq, slots, states), NEW x \in S, ~Has(slots, x, states), Shifts(slots, t, x), EndsWith(t, x),
         \A y : Has(t, y, states) <=> y = x \/ Has(slots, y, states)
  PROVE  Append(seq, x) \in Seq(S) /\ Lists(Append(seq, x), t, states)
<1> DEFINE w == Append(seq, x)
<1>1. /\ w \in Seq(S) /\ Len(seq) \in Nat /\ DOMAIN seq = 1..Len(seq) /\ DOMAIN w = 1..(Len(seq) + 1)
      /\ w[Len(seq) + 1] = x /\ \A k \in 1..Len(seq) : w[k] = seq[k]
  OBVIOUS
<1> HIDE DEF w
<1>2. \A k \in DOMAIN w : k \in DOMAIN seq \/ k = Len(seq) + 1
  BY <1>1
<1>3. \A y : y \in Items(w) <=> y \in Items(seq) \/ y = x
  <2>1. Len(seq) + 1 \in DOMAIN w /\ DOMAIN seq \subseteq DOMAIN w
    BY <1>1
  <2> QED BY <1>1, <1>2, <2>1 DEF Items
<1>4. \A y : y \in Items(w) <=> Has(t, y, states)
  BY <1>3, ListsFacts
<1>5. ASSUME NEW k \in DOMAIN seq PROVE seq[k] # x /\ Has(t, seq[k], states)
  <2>1. seq[k] \in Items(seq)
    BY DEF Items
  <2> QED BY <2>1, ListsFacts
<1>6. ASSUME NEW j \in DOMAIN w, NEW k \in DOMAIN w, j < k PROVE Precedes(t, w[j], w[k])
  <2>1. j \in DOMAIN seq /\ w[j] = seq[j]
    BY <1>1, <1>6
  <2>2. CASE k \in DOMAIN seq
    <3>1. w[k] = seq[k] /\ Precedes(slots, seq[j], seq[k])
      BY <1>1, <1>6, <2>1, <2>2 DEF Lists
    <3> QED BY <1>5, <2>1, <2>2, <3>1 DEF Shifts
  <2>3. CASE k = Len(seq) + 1
    <3>1. \E q \in Recs(t) : q.packetId = seq[j] /\ seq[j] # x
      BY <1>5, <2>1 DEF Has
    <3> QED BY <1>1, <2>1, <2>3, <3>1 DEF EndsWith
  <2> QED BY <1>2, <2>2, <2>3
<1>7. Lists(w, t, states)
  BY <1>4, <1>6, ListsFacts
<1> QED BY <1>1, <1>7 DEF w

\* What becomes of the records in some states when record q goes on to s.
LEMMA HasMoved ==
  ASSUME NEW slots, NEW t, NEW states, NEW q \in Recs(slots), NEW s, s.packetId = q.packetId,
         q.publishState \in states <=> s.publishState \in states,
         Recs(t) = (Recs(slots) \ {q}) \cup {s}
  PROVE  \A y : Has(t, y, states) <=> Has(slots, y, states)
<1> SUFFICES ASSUME NEW y PROVE Has(t, y, states) <=> Has(slots, y, states)
  OBVIOUS
<1>1. ASSUME NEW r \in Recs(t), r.packetId = y, r.publishState \in states PROVE Has(slots, y, states)
  BY <1>1 DEF Has
<1>2. ASSUME NEW r \in Recs(slots), r.packetId = y, r.publishState \in states PROVE Has(t, y, states)
  BY <1>2 DEF Has
<1> QED BY <1>1, <1>2 DEF Has

\* A step that leaves both orders, and moves no record past another.
LEMMA OrderKept ==
  ASSUME OrderInv, UNCHANGED <<sentOrder, relOrder>>, Shifts(records.outgoing, records'.outgoing, 0),
         \A y : Has(records'.outgoing, y, OutgoingPublishStates) <=> Has(records.outgoing, y, OutgoingPublishStates),
         \A y : Has(records'.outgoing, y, OutgoingRelStates) <=> Has(records.outgoing, y, OutgoingRelStates)
  PROVE  OrderInv'
BY ListsKept DEF OrderInv, ResendOrder

LEMMA OrderSame ==
  ASSUME OrderInv, UNCHANGED <<sentOrder, relOrder>>,
         \/ records'.outgoing = records.outgoing
         \/ /\ Recs(records'.outgoing) = Recs(records.outgoing)
            /\ Shifts(records.outgoing, records'.outgoing, 0)
  PROVE  OrderInv'
<1>1. Shifts(records.outgoing, records'.outgoing, 0) /\ Recs(records'.outgoing) = Recs(records.outgoing)
  BY DEF Shifts
<1> QED BY <1>1, OrderKept DEF Has

\* A record goes to another state of those the same order lists, in its place.
LEMMA OrderMoved ==
  ASSUME OrderInv, UNCHANGED <<sentOrder, relOrder>>, NEW slots, NEW q \in Recs(records.outgoing), NEW new,
         Recs(slots) = Recs(records.outgoing), Shifts(records.outgoing, slots, 0),
         IsSlot(q), Moves(slots, records'.outgoing, q, new), new \notin {"Done", "PubRelSend"},
         q.publishState \in OutgoingPublishStates <=> new \in OutgoingPublishStates,
         q.publishState \in OutgoingRelStates <=> new \in OutgoingRelStates
  PROVE  OrderInv'
<1>1. PICK s : s = [q EXCEPT !.publishState = new]
  OBVIOUS
<1>2. s.packetId = q.packetId /\ s.publishState = new
  BY <1>1 DEF IsSlot
<1>3. Recs(records'.outgoing) = (Recs(records.outgoing) \ {q}) \cup {s} /\ Shifts(slots, records'.outgoing, 0)
  BY <1>1 DEF Moves
<1>4. Shifts(records.outgoing, records'.outgoing, 0)
  BY <1>3, ShiftsTwice
<1>5. /\ \A y : Has(records'.outgoing, y, OutgoingPublishStates) <=> Has(records.outgoing, y, OutgoingPublishStates)
      /\ \A y : Has(records'.outgoing, y, OutgoingRelStates) <=> Has(records.outgoing, y, OutgoingRelStates)
  BY <1>2, <1>3, HasMoved
<1> QED BY <1>4, <1>5, OrderKept

LEMMA PublishOrder ==
  ASSUME DeliveryInv, RecordsInv, OrderInv, NEW m \in Out, AppPublish(m)
  PROVE  OrderInv'
<1>0. PICK x : x = nextPacketId
  OBVIOUS
<1>1. PICK R : R = MQTT_ReserveState(records, x, Qos(m))
  OBVIOUS
<1> DEFINE state == MQTT_CalculateStatePublish("SEND", Qos(m))
<1>2. PICK new : new = [packetId |-> x, qos |-> Qos(m), publishState |-> "PublishSend"]
  OBVIOUS
<1>3. /\ relOrder' = relOrder
      /\ \/ R.status = "MQTTSuccess" /\ MQTT_Publish(R, x, m) /\ sentOrder' = Append(sentOrder, x)
         \/ R.status # "MQTTSuccess" /\ records' = R.records /\ sentOrder' = sentOrder
  BY <1>0, <1>1 DEF AppPublish, Reserved
<1>4. x \in PacketIds /\ x # 0 /\ RecordsOK(records) /\ BothSized(records) /\ m \in Messages
  BY <1>0, PacketFacts DEF DeliveryInv, Types, BothSized, RecordsInv, Messages
<1>5. Qos(m) \in {1, 2} /\ RecordsOK(R.records)
  BY <1>1, <1>4, QosFacts, ReserveKeeps
<1>6. /\ Adds(records.outgoing, R.status, R.records.outgoing, new)
      /\ R.records.incoming = records.incoming /\ BothSized(R.records)
  BY <1>1, <1>2, <1>4, ReserveRecs
<1>7. new.packetId = x /\ new.qos = Qos(m) /\ new.publishState = "PublishSend"
  BY <1>2
<1>8. CASE R.status # "MQTTSuccess"
  <2>1. /\ records' = R.records /\ sentOrder' = sentOrder
        /\ Recs(R.records.outgoing) = Recs(records.outgoing) /\ Shifts(records.outgoing, R.records.outgoing, 0)
    BY <1>3, <1>6, <1>8 DEF Adds
  <2> QED BY <1>3, <2>1, OrderSame
<1>9. CASE R.status = "MQTTSuccess"
  <2>1. /\ Recs(R.records.outgoing) = Recs(records.outgoing) \cup {new}
        /\ ~\E q \in Recs(records.outgoing) : q.packetId = x
        /\ Shifts(records.outgoing, R.records.outgoing, 0) /\ EndsWith(R.records.outgoing, x)
    BY <1>6, <1>7, <1>9 DEF Adds
  <2>2. MQTT_Publish(R, x, m) /\ sentOrder' = Append(sentOrder, x)
    BY <1>3, <1>9
  <2>3. PICK s : /\ s.packetId = x /\ s.publishState \in OutgoingPublishStates
                 /\ Recs(records'.outgoing) = Recs(records.outgoing) \cup {s}
                 /\ Shifts(R.records.outgoing, records'.outgoing, 0)
    <3>1. CASE records' = MQTT_UpdateStatePublish(R.records, x, "SEND", Qos(m)).records
      <4>1. Moves(R.records.outgoing, records'.outgoing, new, state)
        <5>1. new \in Recs(R.records.outgoing) /\ new.publishState \in OutgoingPublishStates
          BY <1>7, <2>1 DEF OutgoingPublishStates
        <5> QED BY <1>5, <1>6, <1>7, <3>1, <5>1, PublishSendRecs
      <4>2. state \in {"PubAckPending", "PubRecPending"}
        BY <1>5 DEF MQTT_CalculateStatePublish
      <4>3. PICK s : s = [new EXCEPT !.publishState = state]
        OBVIOUS
      <4>4. s.packetId = x /\ s.publishState = state
        BY <1>2, <4>3
      <4> HIDE DEF state
      <4>5. /\ Recs(records'.outgoing) = (Recs(R.records.outgoing) \ {new}) \cup {s}
            /\ Shifts(R.records.outgoing, records'.outgoing, 0)
        BY <4>1, <4>2, <4>3 DEF Moves
      <4>6. new \notin Recs(records.outgoing)
        BY <1>7, <2>1
      <4> QED BY <2>1, <4>2, <4>4, <4>5, <4>6 DEF OutgoingPublishStates
    <3>2. CASE records' = R.records
      <4>1. Shifts(R.records.outgoing, records'.outgoing, 0)
        BY <3>2 DEF Shifts
      <4> QED BY <1>7, <2>1, <3>2, <4>1 DEF OutgoingPublishStates
    <3> QED BY <2>2, <3>1, <3>2 DEF MQTT_Publish
  <2>4. Shifts(records.outgoing, records'.outgoing, 0) /\ Shifts(records.outgoing, records'.outgoing, x)
    BY <2>1, <2>3, ShiftsTwice, ShiftsAll
  <2>5. EndsWith(records'.outgoing, x)
    BY <1>4, <1>7, <2>1, <2>3, EndsWithKept
  <2>6. s.publishState \notin OutgoingRelStates
    BY <2>3 DEF OutgoingPublishStates, OutgoingRelStates
  <2>7. /\ \A y : Has(records'.outgoing, y, OutgoingPublishStates) <=>
                    y = x \/ Has(records.outgoing, y, OutgoingPublishStates)
        /\ \A y : Has(records'.outgoing, y, OutgoingRelStates) <=> Has(records.outgoing, y, OutgoingRelStates)
        /\ ~Has(records.outgoing, x, OutgoingPublishStates)
    BY <2>1, <2>3, <2>6 DEF Has
  <2>8. Append(sentOrder, x) \in Seq(PacketIds) /\ Lists(Append(sentOrder, x), records'.outgoing, OutgoingPublishStates)
    BY <1>4, <2>4, <2>5, <2>7, ListsAppend DEF OrderInv, ResendOrder
  <2>9. Lists(relOrder, records'.outgoing, OutgoingRelStates)
    BY <2>4, <2>7, ListsKept DEF OrderInv, ResendOrder
  <2> QED BY <1>3, <2>2, <2>8, <2>9 DEF OrderInv, ResendOrder
<1> QED BY <1>8, <1>9

LEMMA ResendOrderStep ==
  ASSUME DeliveryInv, RecordsInv, OrderInv, Resend
  PROVE  OrderInv'
<1>1. PICK next : /\ next = MQTT_PublishToResend(records, cursor)
                  /\ next.packetId = 0 => records' = records
                  /\ next.packetId # 0 =>
                       \E r \in {MQTT_ReserveState(records, next.packetId, Qos(published[next.packetId]))} :
                         Reserved(r, TRUE) /\ MQTT_Publish(r, next.packetId, published[next.packetId])
  BY DEF Resend
<1>2. UNCHANGED <<sentOrder, relOrder>>
  BY DEF Resend, ghost
<1>3. RecordsOK(records) /\ BothSized(records) /\ cursor \in Nat /\ Array(records.outgoing, OutgoingStates)
  BY DEF RecordsInv, RecordsOK, DeliveryInv, Types, BothSized
<1>4. next.packetId # 0 => \E q \in Behind(records.outgoing, cursor) :
                             q.packetId = next.packetId /\ q.publishState \in OutgoingPublishStates
  BY <1>1, <1>3, SelectRecs DEF MQTT_PublishToResend, BothSized
<1>5. CASE next.packetId = 0
  BY <1>1, <1>2, <1>5, OrderSame
<1>6. CASE next.packetId # 0
  <2>1. PICK q \in Recs(records.outgoing) :
             q.packetId = next.packetId /\ q.publishState \in OutgoingPublishStates
    BY <1>4, <1>6 DEF Behind, Recs
  <2>2. q.packetId \in PacketIds /\ OutOK(q.packetId) /\ q \in Outgoing(q.packetId) /\ IsSlot(q)
    BY <1>3, <2>1, RecordFacts DEF DeliveryInv, Types, Outgoing
  <2>3. PICK m : /\ m = published[q.packetId] /\ m \in Messages
                 /\ q.qos = Qos(m) /\ Qos(m) \in {1, 2} /\ q.packetId # 0
    BY <2>2, OutFacts, QosFacts, PacketFacts DEF Messages
  <2>4. PICK r : r = MQTT_ReserveState(records, q.packetId, Qos(m)) /\ MQTT_Publish(r, q.packetId, m)
    BY <1>1, <1>6, <2>1, <2>3
  <2>5. PICK new : new = [packetId |-> q.packetId, qos |-> Qos(m), publishState |-> "PublishSend"]
    OBVIOUS
  <2>6. Adds(records.outgoing, r.status, r.records.outgoing, new) /\ BothSized(r.records) /\ RecordsOK(r.records)
    BY <1>3, <2>3, <2>4, <2>5, ReserveRecs, ReserveKeeps
  <2>7. Recs(r.records.outgoing) = Recs(records.outgoing) /\ Shifts(records.outgoing, r.records.outgoing, 0)
    <3>1. new.packetId = q.packetId
      BY <2>5
    <3>2. r.status = "MQTTStateCollision"
      BY <2>1, <2>6, <3>1 DEF Adds
    <3> QED BY <2>6, <3>2 DEF Adds
  <2> DEFINE state == MQTT_CalculateStatePublish("SEND", Qos(m))
  <2>8. CASE records' = MQTT_UpdateStatePublish(r.records, q.packetId, "SEND", Qos(m)).records
    <3>1. Moves(r.records.outgoing, records'.outgoing, q, state)
      BY <2>1, <2>3, <2>6, <2>7, <2>8, PublishSendRecs
    <3>2. state \in {"PubAckPending", "PubRecPending"}
      BY <2>3 DEF MQTT_CalculateStatePublish
    <3> HIDE DEF state
    <3>3. /\ state \notin {"Done", "PubRelSend"} /\ state \in OutgoingPublishStates
          /\ state \notin OutgoingRelStates /\ q.publishState \notin OutgoingRelStates
      BY <2>1, <3>2 DEF OutgoingPublishStates, OutgoingRelStates
    <3> QED BY <1>2, <2>1, <2>2, <2>7, <3>1, <3>3, OrderMoved
  <2>9. CASE records' = r.records
    BY <1>2, <2>7, <2>9, OrderSame
  <2> QED BY <2>4, <2>8, <2>9 DEF MQTT_Publish
<1> QED BY <1>5, <1>6

LEMMA ResumptionOrder ==
  ASSUME DeliveryInv, RecordsInv, OrderInv, handleSessionResumption
  PROVE  OrderInv'
<1>1. PICK next : /\ next = MQTT_PubrelToResend(records, cursor)
                  /\ next.packetId = 0 => records' = records
                  /\ next.packetId # 0 => sendPublishAcks(records, next.packetId, "PubRelSend", toClient)
  BY DEF handleSessionResumption
<1>2. UNCHANGED <<sentOrder, relOrder>>
  BY DEF handleSessionResumption, ghost
<1>3. RecordsOK(records) /\ BothSized(records) /\ cursor \in Nat /\ Array(records.outgoing, OutgoingStates)
  BY DEF RecordsInv, RecordsOK, DeliveryInv, Types, BothSized
<1>4. next.packetId # 0 => \E q \in Behind(records.outgoing, cursor) :
                             q.packetId = next.packetId /\ q.publishState \in OutgoingRelStates
  BY <1>1, <1>3, SelectRecs DEF MQTT_PubrelToResend, BothSized
<1>5. CASE next.packetId = 0
  BY <1>1, <1>2, <1>5, OrderSame
<1>6. CASE next.packetId # 0
  <2>1. PICK q \in Recs(records.outgoing) : q.packetId = next.packetId /\ q.publishState \in OutgoingRelStates
    BY <1>4, <1>6 DEF Behind, Recs
  <2>2. IsSlot(q) /\ Fits(q.qos, q.publishState, OutgoingStates)
    BY <1>3, <2>1, RecordFacts
  <2>3. q.qos = 2 /\ q.publishState \in {"PubRelSend", "PubCompPending"}
    BY <2>1, <2>2 DEF Fits, OutgoingRelStates
  <2> DEFINE after == AfterAck(records, "PUBREL", "SEND", MQTT_UpdateStateAck(records, q.packetId, "PUBREL", "SEND"))
  <2>4. records' = after \/ records' = records
    BY <1>1, <1>6, <2>1 DEF sendPublishAcks, getAckTypeToSend
  <2>5. /\ isPublishOutgoing("PUBREL", "SEND") /\ MQTT_CalculateStateAck("PUBREL", "SEND", q.qos) = "PubCompPending"
        /\ validateTransitionAck(q.publishState, "PubCompPending")
    BY <2>3 DEF isPublishOutgoing, MQTT_CalculateStateAck, validateTransitionAck
  <2>6. Moves(records.outgoing, after.outgoing, q, "PubCompPending")
    BY <1>3, <2>1, <2>5, AckOutgoing
  <2> HIDE DEF after
  <2>7. CASE records' = records
    BY <1>2, <2>7, OrderSame
  <2>8. CASE records' = after
    <3>1. /\ q.publishState \notin OutgoingPublishStates /\ "PubCompPending" \notin OutgoingPublishStates
          /\ "PubCompPending" \in OutgoingRelStates
      BY <2>3 DEF OutgoingPublishStates, OutgoingRelStates
    <3>2. Shifts(records.outgoing, records.outgoing, 0)
      BY DEF Shifts
    <3> QED BY <1>2, <2>1, <2>2, <2>6, <2>8, <3>1, <3>2, OrderMoved
  <2> QED BY <2>4, <2>7, <2>8
<1> QED BY <1>5, <1>6

\* Records of incoming publishes only: what is then sent leaves the outgoing
\* ones as well.
Beside(r) == r = [outgoing |-> records.outgoing, incoming |-> r.incoming]

LEMMA AckedIncoming ==
  ASSUME NEW r, Beside(r), NEW id, NEW state, state # "PubRelSend", NEW rest, sendPublishAcks(r, id, state, rest)
  PROVE  records'.outgoing = records.outgoing
<1>1. CASE state \notin DOMAIN getAckTypeToSend
  <2>1. records' = r
    BY <1>1 DEF sendPublishAcks
  <2> QED BY <2>1 DEF Beside
<1>2. CASE state \in DOMAIN getAckTypeToSend
  <2>1. PICK type : type = getAckTypeToSend[state]
    OBVIOUS
  <2>2. type \in {"PUBACK", "PUBREC", "PUBCOMP"}
    <3>1. state \in {"PubAckSend", "PubRecSend", "PubCompSend"}
      BY <1>2 DEF getAckTypeToSend
    <3> QED BY <2>1, <3>1 DEF getAckTypeToSend
  <2>3. ~isPublishOutgoing(type, "SEND")
    BY <2>2 DEF isPublishOutgoing
  <2>4. records' = r \/ \E a : records' = AfterAck(r, type, "SEND", a)
    BY <1>2, <2>1 DEF sendPublishAcks
  <2>5. records' = r \/ \E a : records' = [r EXCEPT !.incoming = a.slots]
    BY <2>3, <2>4 DEF AfterAck
  <2> QED BY <2>5 DEF Beside
<1> QED BY <1>1, <1>2

LEMMA IncomingPublishOrder ==
  ASSUME RecordsInv, OrderInv, handleIncomingPublish
  PROVE  OrderInv'
<1>0. Qos(Head(toClient).msg) \in {1, 2}
  BY DEF Qos
<1>1. PICK x, qos, R, state :
        /\ qos \in {1, 2}
        /\ R = MQTT_UpdateStatePublish(records, x, "RECEIVE", qos)
        /\ state \in {"Null", MQTT_CalculateStatePublish("RECEIVE", qos)}
        /\ sendPublishAcks(R.records, x, state, Tail(toClient))
  BY <1>0 DEF handleIncomingPublish
<1>2. UNCHANGED <<sentOrder, relOrder>>
  BY DEF handleIncomingPublish
<1>3. Beside(R.records)
  <2>1. PICK a : R = [status |-> a.status, records |-> [records EXCEPT !.incoming = a.slots]]
    BY <1>1 DEF MQTT_UpdateStatePublish
  <2>2. R.records = [records EXCEPT !.incoming = a.slots]
    BY <2>1
  <2> QED BY <2>2 DEF RecordsInv, RecordsOK, Beside
<1>4. state # "PubRelSend"
  BY <1>1 DEF MQTT_CalculateStatePublish
<1>5. records'.outgoing = records.outgoing
  BY <1>1, <1>3, <1>4, AckedIncoming
<1> QED BY <1>2, <1>5, OrderSame

LEMMA IncomingReleaseOrder ==
  ASSUME RecordsInv, OrderInv, handlePublishAcks, Head(toClient).type = "PUBREL"
  PROVE  OrderInv'
<1>1. PICK x : x = Head(toClient).id
  OBVIOUS
<1>2. PICK a : a = MQTT_UpdateStateAck(records, x, "PUBREL", "RECEIVE")
  OBVIOUS
<1>3. PICK after : after = AfterAck(records, "PUBREL", "RECEIVE", a)
  OBVIOUS
<1>4. /\ sendPublishAcks(after, x, a.newState, Tail(toClient))
      /\ a.newState \notin {"Done", "PubRelSend"} => UNCHANGED <<sentOrder, relOrder>>
  BY <1>1, <1>2, <1>3 DEF handlePublishAcks
<1>5. ~isPublishOutgoing("PUBREL", "RECEIVE")
  BY DEF isPublishOutgoing
<1>6. a.newState \notin {"Done", "PubRelSend"}
  <2>1. \/ a.newState = "Null"
        \/ \E i, qos, current : a = updateStateAck(records.incoming, i, x, current, MQTT_CalculateStateAck("PUBREL", "RECEIVE", qos))
    BY <1>2, <1>5 DEF MQTT_UpdateStateAck
  <2>2. ASSUME NEW i, NEW qos, NEW current,
               a = updateStateAck(records.incoming, i, x, current, MQTT_CalculateStateAck("PUBREL", "RECEIVE", qos))
        PROVE  a.newState \notin {"Done", "PubRelSend"}
    <3>1. MQTT_CalculateStateAck("PUBREL", "RECEIVE", qos) \in {"Null", "PubCompSend"}
      BY DEF MQTT_CalculateStateAck
    <3>2. a.newState \in {"Null", MQTT_CalculateStateAck("PUBREL", "RECEIVE", qos)}
      <4> DEFINE new == MQTT_CalculateStateAck("PUBREL", "RECEIVE", qos)
      <4>1. new # "PubRelSend" /\ a = updateStateAck(records.incoming, i, x, current, new)
        BY <2>2, <3>1
      <4> HIDE DEF new
      <4>2. a.newState \in {"Null", new}
        BY <4>1 DEF updateStateAck
      <4> QED BY <4>2 DEF new
    <3> QED BY <3>1, <3>2
  <2> QED BY <2>1, <2>2
<1>7. Beside(after)
  BY <1>3, <1>5 DEF AfterAck, RecordsInv, RecordsOK, Beside
<1>8. records'.outgoing = records.outgoing
  BY <1>4, <1>6, <1>7, AckedIncoming
<1> QED BY <1>4, <1>6, <1>8, OrderSame

LEMMA IncomingReplyOrder ==
  ASSUME DeliveryInv, RecordsInv, OrderInv, handlePublishAcks, Head(toClient).type \in Replies
  PROVE  OrderInv'
<1>1. PICK h : h = Head(toClient)
  OBVIOUS
<1>2. PICK x : x = h.id
  OBVIOUS
<1>3. PICK a : a = MQTT_UpdateStateAck(records, x, h.type, "RECEIVE")
  OBVIOUS
<1>4. PICK after : after = AfterAck(records, h.type, "RECEIVE", a)
  OBVIOUS
<1>5. /\ Received /\ toClient # <<>> /\ h.type \in Replies
      /\ sendPublishAcks(after, x, a.newState, Tail(toClient))
      /\ a.newState = "Done" => sentOrder' = Without(sentOrder, x) /\ relOrder' = Without(relOrder, x)
      /\ a.newState = "PubRelSend" => sentOrder' = Without(sentOrder, x) /\ relOrder' = Append(relOrder, x)
  BY <1>1, <1>2, <1>3, <1>4 DEF handlePublishAcks, Received
<1>6. toBroker \in Seq(Packets) /\ toClient \in Seq(Packets)
      /\ OneAtATime(toBroker, toClient) /\ OneAtATime(toClient, toBroker)
      /\ RecordsOK(records) /\ BothSized(records) /\ Array(records.outgoing, OutgoingStates)
  BY DEF DeliveryInv, Types, RecordsInv, RecordsOK, BothSized
<1>7. h \in Items(toClient) /\ x \in PacketIds
  BY <1>1, <1>2, <1>5, <1>6, HeadFacts
<1>8. OutOK(x)
  BY <1>7 DEF DeliveryInv
<1>9. PICK q \in Outgoing(x) : OutReply(h, q, copies[published[x]], x \in brokerHolds)
  BY <1>2, <1>5, <1>7, <1>8 DEF OutOK
<1>10. /\ q \in Recs(records.outgoing) /\ q.packetId = x
       /\ \A r \in Recs(records.outgoing) : r.packetId = x => r = q
  <2>1. q \in Recs(records.outgoing) /\ q.packetId = x
    BY <1>9 DEF Outgoing
  <2> QED BY <1>6, <2>1, RecordFacts
<1>11. /\ h.type = "PUBACK" => q.publishState = "PubAckPending"
       /\ h.type = "PUBREC" => q.publishState = "PubRecPending"
       /\ h.type = "PUBCOMP" => q.publishState = "PubCompPending"
  BY <1>9 DEF OutReply
<1>12. /\ Shifts(records.outgoing, records'.outgoing, x)
       /\ h.type = "PUBREC" => EndsWith(records'.outgoing, x)
       /\ h.type # "PUBREC" => a.newState = "Done" /\ Recs(records'.outgoing) = Recs(records.outgoing) \ {q}
       /\ h.type = "PUBREC" =>
            /\ a.newState = "PubRelSend"
            /\ \E s : /\ s.packetId = x /\ s.publishState \in OutgoingRelStates
                      /\ Recs(records'.outgoing) = (Recs(records.outgoing) \ {q}) \cup {s}
  BY <1>3, <1>4, <1>5, <1>6, <1>7, <1>10, <1>11, AcknowledgedRecs
<1>13. /\ sentOrder \in Seq(PacketIds) /\ relOrder \in Seq(PacketIds) /\ Sized(records.outgoing)
       /\ Lists(sentOrder, records.outgoing, OutgoingPublishStates)
       /\ Lists(relOrder, records.outgoing, OutgoingRelStates)
  BY <1>6 DEF OrderInv, ResendOrder, BothSized
<1>14. CASE h.type # "PUBREC"
  <2>1. \A states, y : Has(records'.outgoing, y, states) <=> y # x /\ Has(records.outgoing, y, states)
    BY <1>10, <1>12, <1>14 DEF Has
  <2>2. /\ Without(sentOrder, x) \in Seq(PacketIds) /\ Without(relOrder, x) \in Seq(PacketIds)
        /\ Lists(Without(sentOrder, x), records'.outgoing, OutgoingPublishStates)
        /\ Lists(Without(relOrder, x), records'.outgoing, OutgoingRelStates)
    BY <1>6, <1>12, <1>13, <2>1, ListsWithout
  <2> QED BY <1>5, <1>12, <1>14, <2>2 DEF OrderInv, ResendOrder
<1>15. CASE h.type = "PUBREC"
  <2>1. PICK s : /\ s.packetId = x /\ s.publishState \in OutgoingRelStates
                 /\ Recs(records'.outgoing) = (Recs(records.outgoing) \ {q}) \cup {s}
    BY <1>12, <1>15
  <2>2. s.publishState \notin OutgoingPublishStates /\ q.publishState \notin OutgoingRelStates
    BY <1>11, <1>15, <2>1 DEF OutgoingPublishStates, OutgoingRelStates
  <2>3. \A y : Has(records'.outgoing, y, OutgoingPublishStates) <=>
                 y # x /\ Has(records.outgoing, y, OutgoingPublishStates)
    BY <1>10, <2>1, <2>2 DEF Has
  <2>4. \A y : Has(records'.outgoing, y, OutgoingRelStates) <=> y = x \/ Has(records.outgoing, y, OutgoingRelStates)
    <3>1. s \in Recs(records'.outgoing) /\ Has(records'.outgoing, x, OutgoingRelStates)
      BY <2>1 DEF Has
    <3>2. \A r \in Recs(records.outgoing) : r.publishState \in OutgoingRelStates => r \in Recs(records'.outgoing)
      BY <2>1, <2>2
    <3>3. \A r \in Recs(records'.outgoing) : r \in Recs(records.outgoing) \/ r.packetId = x
      BY <2>1
    <3> QED BY <3>1, <3>2, <3>3 DEF Has
  <2>5. ~Has(records.outgoing, x, OutgoingRelStates)
    BY <1>10, <2>2 DEF Has
  <2>6. Without(sentOrder, x) \in Seq(PacketIds) /\ Lists(Without(sentOrder, x), records'.outgoing, OutgoingPublishStates)
    BY <1>6, <1>12, <1>13, <2>3, ListsWithout
  <2>7. Append(relOrder, x) \in Seq(PacketIds) /\ Lists(Append(relOrder, x), records'.outgoing, OutgoingRelStates)
    BY <1>7, <1>12, <1>13, <1>15, <2>4, <2>5, ListsAppend
  <2> QED BY <1>5, <1>12, <1>15, <2>6, <2>7 DEF OrderInv, ResendOrder
<1> QED BY <1>14, <1>15

LEMMA OrderAfresh ==
  /\ Lists(<<>>, NoRecords(OutgoingSlots), OutgoingPublishStates)
  /\ Lists(<<>>, NoRecords(OutgoingSlots), OutgoingRelStates)
<1>1. \A x, states : ~Has(NoRecords(OutgoingSlots), x, states)
  BY EmptyRecs, SlotsAssumption DEF Has
<1>2. Items(<<>>) = {} /\ DOMAIN <<>> = {}
  BY DEF Items
<1> QED BY <1>1, <1>2, ListsFacts

LEMMA OrderInit == Init => OrderInv
BY OrderAfresh DEF Init, OrderInv, ResendOrder

LEMMA OrderNext == DeliveryInv /\ RecordsInv /\ OrderInv /\ [Next]_vars => OrderInv'
<1> SUFFICES ASSUME DeliveryInv, RecordsInv, OrderInv, [Next]_vars PROVE OrderInv'
  OBVIOUS
<1>1. ASSUME NEW m \in Out, AppPublish(m) PROVE OrderInv'
  BY <1>1, PublishOrder
<1>2. CASE Resend \/ handleSessionResumption \/ handleIncomingPublish
  BY <1>2, ResendOrderStep, ResumptionOrder, IncomingPublishOrder
<1>3. CASE handlePublishAcks
  <2>1. Received /\ Head(toClient).type # "PUBLISH"
    BY <1>3 DEF handlePublishAcks
  <2>2. Head(toClient) \in Packets
    BY <2>1, TakeFacts DEF DeliveryInv, Types, Received
  <2>3. Head(toClient).type \in Replies \cup {"PUBREL"}
    BY <2>1, <2>2, Kinds DEF Requests
  <2> QED BY <1>3, <2>3, IncomingReleaseOrder, IncomingReplyOrder
<1>4. CASE ConnectWithoutSession
  <2>1. records'.outgoing = NoRecords(OutgoingSlots) /\ sentOrder' = <<>> /\ relOrder' = <<>>
    BY <1>4 DEF ConnectWithoutSession
  <2> QED BY <2>1, OrderAfresh DEF OrderInv, ResendOrder
<1>5. CASE RecvFailed \/ LinkLost \/ MQTT_Disconnect \/ Connect
  <2>1. UNCHANGED <<records, sentOrder, relOrder>>
    BY <1>5 DEF RecvFailed, LinkLost, MQTT_Disconnect, Connect, ghost
  <2> QED BY <2>1, OrderSame
<1>6. ASSUME NEW m \in In, BrokerPublish(m) PROVE OrderInv'
  BY <1>6, OrderSame DEF BrokerPublish
<1>7. CASE BrokerTakesPublish \/ BrokerTakesPubrel \/ BrokerTakesPubrec \/ BrokerTakesLast
  <2>1. UNCHANGED <<records, sentOrder, relOrder>>
    BY <1>7 DEF BrokerTakesPublish, BrokerTakesPubrel, BrokerTakesPubrec, BrokerTakesLast, ghost
  <2> QED BY <2>1, OrderSame
<1>8. CASE UNCHANGED vars
  BY <1>8, OrderSame DEF vars, ghost
<1>9. \/ (\E m \in Out : AppPublish(m)) \/ (\E m \in In : BrokerPublish(m))
      \/ (Resend \/ handleSessionResumption \/ handleIncomingPublish) \/ handlePublishAcks \/ ConnectWithoutSession
      \/ (RecvFailed \/ LinkLost \/ MQTT_Disconnect \/ Connect)
      \/ (BrokerTakesPublish \/ BrokerTakesPubrel \/ BrokerTakesPubrec \/ BrokerTakesLast) \/ UNCHANGED vars
  <2>1. Next \/ UNCHANGED vars
    OBVIOUS
  <2>2. Settled => UNCHANGED vars
    BY DEF Settled
  <2> QED BY <2>1, <2>2, Zenon DEF Next, ProcessLoop, BrokerStep
<1> QED BY <1>1, <1>2, <1>3, <1>4, <1>5, <1>6, <1>7, <1>8, <1>9

\* With any messages, identifiers and slots, and however often the records are
\* compacted, deleted, moved behind the others or resumed, the outgoing array
\* stays in the order MQTT prescribes: the unacknowledged publishes as they
\* were sent, the PUBRELs as their PUBRECs came (addRecord, compactRecords,
\* updateRecord and updateStateAck of core_mqtt_state.c).  What the resend
\* cursors walk is that order.
THEOREM RecordsInResendOrder == Spec => []ResendOrder
<1>1. Init => DeliveryInv /\ RecordsInv /\ OrderInv
  BY DeliveryInit, RecordsInit, OrderInit
<1>2. DeliveryInv /\ RecordsInv /\ OrderInv /\ [Next]_vars => DeliveryInv' /\ RecordsInv' /\ OrderInv'
  BY DeliveryNext, RecordsNext, OrderNext
<1>3. OrderInv => ResendOrder
  BY DEF OrderInv
<1> QED BY <1>1, <1>2, <1>3, PTL DEF Spec
=============================================================================
