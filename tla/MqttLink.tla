----------------------------- MODULE MqttLink -----------------------------
(***************************************************************************)
(* One connection of an MQTT client below its packets: the TLS transport   *)
(* of network_transport.c, the send and receive loops of core_mqtt.c with  *)
(* their timeouts, the buffer in which bytes become packets, and the keep- *)
(* alive.  One task calls the library; the broker is external.             *)
(*                                                                         *)
(* A packet is its kind; its bytes are counted.  A moment that the code    *)
(* stores is held as its age, getTime() - moment, up to where no comparison *)
(* can tell it from an older one.                                          *)
(***************************************************************************)
EXTENDS Integers, Sequences, FiniteSets

CONSTANTS BufferSize,                                   \* of networkBuffer
          TxTimeout, RxTimeout, PingTimeout,            \* of the keep-alive
          SendTimeout, PollTimeout, ConnackTimeout,     \* of the loops
          ConnackRetries,                               \* MQTT_MAX_CONNACK_RECEIVE_RETRY_COUNT
          MaxGap,                                       \* bound: waits between two calls of MQTT_ProcessLoop
          MaxPubrels,                                   \* bound: PUBRELs that MQTT_Connect sends again
          MaxInFlight                                   \* bound: packets under way to the client

ASSUME TimesAssumption ==
  /\ {TxTimeout, RxTimeout, PingTimeout, SendTimeout, PollTimeout, ConnackTimeout, MaxGap} \subseteq Nat
  /\ {ConnackRetries, MaxPubrels} \subseteq Nat
  /\ BufferSize \in Nat /\ BufferSize >= 4

VARIABLES
  tls,            \* pxTls of the NetworkContext_t
  up, peer,       \* external: the TCP connection; "alive", "silent": the broker says
                  \* no more, "stalled": nor does what it has said arrive
  pc,             \* where the task is
  sending,        \* the packet being sent, and the lengths of its vectors still to send
  need,           \* bytes that recvExact has still to read
  rounds,         \* of the loop of receiveConnack, and of handleSessionResumption, so far
  index,          \* bytes in the buffer
  stream, skew,   \* packets from the buffer's first byte on, and how far it is into the first
  partial,        \* what has gone out ends inside a packet
  waitingForPingResp,
  age             \* of lastPacketTxTime, lastPacketRxTime, pingReqSendTimeMs; of the start of
                  \* the loop; of the last byte received; of the last MQTT_ProcessLoop

link == <<tls, up, peer>>
buffer == <<index, stream, skew>>
vars == <<link, pc, sending, need, rounds, buffer, partial, waitingForPingResp, age>>

Size(packet) == CASE packet = "CONNACK" -> 4 [] packet = "PINGRESP" -> 2
                  [] packet = "PUBLISH" -> 3 [] packet = "BIG" -> BufferSize + 1
HeaderLength == 2
\* What sendBuffer sends, in one piece; the others are vectors of sendMessageVector.
Buffers == {"PINGREQ", "DISCONNECT", "ACK", "PUBREL"}
Vectors(what) == CASE what \in {"PINGREQ", "DISCONNECT"} -> <<2>>
                   [] what \in {"ACK", "PUBREL"} -> <<4>>
                   [] OTHER -> <<2, 1>>

\* The bytes of a sequence of packets, and how many there are.
Bytes(packets) == {b \in (1..Len(packets)) \X (1..(BufferSize + 1)) : b[2] <= Size(packets[b[1]])}
Length(packets) == Cardinality(Bytes(packets))
\* Until the session is established MQTT_Connect reads past the buffer, in
\* which an earlier connection may have left bytes.
Connecting == \/ pc \in {"tls", "type", "count", "length", "connack"}
              \/ pc = "send" /\ sending.what = "CONNECT"
Coming == Length(stream) - skew - IF Connecting THEN 0 ELSE index

Largest(a, b) == IF a >= b THEN a ELSE b
SendTime == SendTimeout + 1
\* The wait for a call of MQTT_ProcessLoop with a publish in it, a recv that finds
\* nothing, a PINGREQ and an acknowledgement.  For so long nothing may come: until the
\* keep-alive looks for it, or the PUBRELs of MQTT_Connect are out, and then for the
\* answer, a call for every packet the buffer can hold, the one that pings and the
\* one that finds no answer.
CallTime == MaxGap + SendTime + 1 + SendTime + SendTime
RxWait == Largest(RxTimeout, 1)
QuietTime == Largest(RxWait, MaxPubrels * SendTime)
SilenceAllowed == QuietTime + PingTimeout + ((BufferSize \div 2) + 2) * CallTime
\* The age up to which a timer is told from older ones.
AgeCap == [tx |-> TxTimeout, rx |-> RxWait, ping |-> PingTimeout + 1, silent |-> SilenceAllowed + 1,
           call |-> Largest(SendTimeout, Largest(PollTimeout, ConnackTimeout)) + 1, gap |-> MaxGap + 1]
Timers == DOMAIN AgeCap
Older(t, d) == IF age[t] + d > AgeCap[t] THEN AgeCap[t] ELSE age[t] + d
\* d passes, and at its end the timers of a set are read anew.
Elapse(d, restart) == age' = [t \in Timers |-> IF t \in restart THEN 0 ELSE Older(t, d)]

Init ==
  /\ tls = "null" /\ up = FALSE /\ peer = "alive" /\ pc = "closed"
  /\ sending = [what |-> "nothing", left |-> <<>>] /\ need = 0 /\ rounds = 0
  /\ index = 0 /\ stream = <<>> /\ skew = 0 /\ partial = FALSE
  /\ waitingForPingResp = FALSE
  /\ age = AgeCap

-----------------------------------------------------------------------------
\* The transport.

xTlsConnect ==
  /\ pc = "closed"
  /\ \/ tls' = "open" /\ up' = TRUE /\ peer' = "alive" /\ pc' = "tls"
     \/ tls' = "null" /\ UNCHANGED <<up, peer, pc>>
  /\ stream' = <<>> /\ skew' = 0 /\ partial' = FALSE
  /\ UNCHANGED <<sending, need, rounds, index, waitingForPingResp, age>>

\* The context is destroyed, and pxTls goes on pointing to it.
xTlsDisconnect ==
  /\ pc = "over"
  /\ tls' = "freed" /\ up' = FALSE /\ pc' = "closed"
  /\ UNCHANGED <<peer, sending, need, rounds, buffer, partial, waitingForPingResp, age>>

\* The two calls return -1 for a connection that is lost and when they are
\* asked for no bytes, and else what they could move before their timeout.
Fails(length) == length = 0 \/ tls # "open" \/ ~up
espTlsTransportSend(length) == 0..length
espTlsTransportRecv(length) == IF peer = "stalled" THEN {0} ELSE 0..(IF length < Coming THEN length ELSE Coming)
Duration(result) == IF result = 0 THEN {1} ELSE {0, 1}

-----------------------------------------------------------------------------
\* Sending, a call of the transport at a time.

StartSending(what) == pc' = "send" /\ sending' = [what |-> what, left |-> Vectors(what)]

\* The vectors without the n bytes that went out.
Advance(left, n) == IF n = Head(left) THEN Tail(left) ELSE [left EXCEPT ![1] = @ - n]

\* The loops of sendMessageVector and of sendBuffer test their timeouts differently.
TimedOut(elapsed) == IF sending.what \in Buffers THEN elapsed >= SendTimeout ELSE elapsed > SendTimeout
\* A timeout fails the call only with something left to send.
SendChunk ==
  /\ pc = "send" /\ sending.left # <<>>
  /\ IF Fails(Head(sending.left)) THEN pc' = "over" /\ UNCHANGED <<sending, partial, age>>
     ELSE \E n \in espTlsTransportSend(Head(sending.left)) : \E d \in Duration(n) :
              /\ sending' = [sending EXCEPT !.left = Advance(@, n)]
              /\ partial' = (sending'.left # <<>> /\ (partial \/ n > 0))
              /\ Elapse(d, IF n > 0 THEN {"tx"} ELSE {})
              /\ pc' = IF sending'.left # <<>> /\ TimedOut(age.call + d) THEN "over" ELSE "send"
  /\ UNCHANGED <<link, need, rounds, buffer, waitingForPingResp>>

MQTT_Publish ==
  /\ pc = "idle" /\ age.gap <= MaxGap
  /\ StartSending("PUBLISH") /\ Elapse(0, {"call"})
  /\ UNCHANGED <<link, need, rounds, buffer, partial, waitingForPingResp>>

\* A DISCONNECT that has gone out empties the buffer; the application then
\* closes the connection, as it does after an error.
MQTT_Disconnect ==
  /\ pc = "idle"
  /\ StartSending("DISCONNECT") /\ Elapse(0, {"call"})
  /\ UNCHANGED <<link, need, rounds, buffer, partial, waitingForPingResp>>
Disconnected ==
  /\ pc = "send" /\ sending.left = <<>> /\ sending.what = "DISCONNECT"
  /\ pc' = "over" /\ index' = 0
  /\ UNCHANGED <<link, sending, need, rounds, stream, skew, partial, waitingForPingResp, age>>

Published ==
  /\ pc = "send" /\ sending.left = <<>> /\ sending.what = "PUBLISH"
  /\ pc' = "idle"
  /\ UNCHANGED <<link, sending, need, rounds, buffer, partial, waitingForPingResp, age>>

-----------------------------------------------------------------------------
\* Receiving.  n bytes of the stream are behind the task.

Consume(n) ==
  IF stream # <<>> /\ skew + n >= Size(Head(stream))
    THEN stream' = Tail(stream) /\ skew' = skew + n - Size(Head(stream))
    ELSE stream' = stream /\ skew' = skew + n

Heard(n) == IF n > 0 THEN {"silent"} ELSE {}

\* Mutant: a read that finds nothing is tried again for ever.
recvExactForever ==
  /\ pc \in {"connack", "discard"} /\ need > 0
  /\ IF Fails(need) THEN pc' = "over" /\ UNCHANGED <<need, stream, skew, age>>
     ELSE \E n \in espTlsTransportRecv(need) : \E d \in Duration(n) :
            Elapse(d, Heard(n)) /\ need' = need - n /\ Consume(n) /\ UNCHANGED pc
  /\ UNCHANGED <<link, sending, rounds, index, partial, waitingForPingResp>>
\* recvExact, for the rest of a CONNACK or of a packet to be discarded: bytes
\* that arrive restart its timer.
recvExact ==
  /\ pc \in {"connack", "discard"} /\ need > 0
  /\ IF Fails(need) THEN pc' = "over" /\ UNCHANGED <<need, stream, skew, age>>
     ELSE \E n \in espTlsTransportRecv(need) : \E d \in Duration(n) :
              /\ Elapse(d, Heard(n) \cup IF n > 0 THEN {"call"} ELSE {})
              /\ need' = need - n /\ Consume(n)
              /\ pc' = IF n = 0 /\ age.call + d >= PollTimeout THEN "over" ELSE pc
  /\ UNCHANGED <<link, sending, rounds, index, partial, waitingForPingResp>>

-----------------------------------------------------------------------------
\* MQTT_Connect.

ConnectStarts ==
  /\ pc = "tls"
  /\ StartSending("CONNECT") /\ Elapse(0, {"call"})
  /\ UNCHANGED <<link, need, rounds, buffer, partial, waitingForPingResp>>

\* With a timeout the CONNACK is waited for by the clock, without one by retries.
ConnectSent ==
  /\ pc = "send" /\ sending.left = <<>> /\ sending.what = "CONNECT"
  /\ pc' \in {"type", "count"} /\ rounds' = 0 /\ Elapse(0, {"call"})
  /\ stream' = IF peer = "alive" THEN <<"CONNACK">> ELSE stream
  /\ UNCHANGED <<link, sending, need, index, skew, partial, waitingForPingResp>>

\* The loop of receiveConnack, for the byte of the type: only that one may be late.
AwaitType ==
  /\ pc \in {"type", "count"}
  /\ IF Fails(1) THEN pc' = "over" /\ UNCHANGED <<stream, skew, rounds, age>>
     ELSE \E n \in espTlsTransportRecv(1) : \E d \in Duration(n) :
              /\ Consume(n) /\ Elapse(d, Heard(n))
              /\ rounds' = IF n = 0 /\ pc = "count" THEN rounds + 1 ELSE rounds
              /\ pc' = CASE n = 1 -> "length"
                         [] n = 0 /\ pc = "type" /\ age.call + d < ConnackTimeout -> "type"
                         [] n = 0 /\ pc = "count" /\ rounds < ConnackRetries -> "count"
                         [] OTHER -> "over"
  /\ UNCHANGED <<link, sending, need, index, partial, waitingForPingResp>>

\* The remaining length, and the rest of the packet by recvExact.
AwaitLength ==
  /\ pc = "length"
  /\ IF Fails(1) THEN pc' = "over" /\ UNCHANGED <<stream, skew, need, age>>
     ELSE \E n \in espTlsTransportRecv(1) : \E d \in Duration(n) :
              /\ Consume(n) /\ Elapse(d, Heard(n) \cup {"call"})
              /\ need' = Size("CONNACK") - HeaderLength
              /\ pc' = IF n = 1 THEN "connack" ELSE "over"
  /\ UNCHANGED <<link, sending, rounds, index, partial, waitingForPingResp>>

receiveConnack == AwaitType \/ AwaitLength

\* Mutant: bytes of the last connection stay in the buffer.
handleSessionResumptionKeepsBytes ==
  /\ pc = "connack" /\ need = 0
  /\ pc' = "resume" /\ rounds' = 0
  /\ UNCHANGED <<link, sending, need, buffer, partial, waitingForPingResp, age>>
\* The CONNACK is in; one that refuses ends the call.
handleSessionResumption ==
  /\ pc = "connack" /\ need = 0
  /\ \/ pc' = "resume" /\ rounds' = 0 /\ index' = 0
     \/ pc' = "over" /\ UNCHANGED <<rounds, index>>
  /\ UNCHANGED <<link, sending, need, stream, skew, partial, waitingForPingResp, age>>

\* The PUBRELs that the session still has under way are sent again, if it is present.
ResendPubrel ==
  /\ pc = "resume" /\ rounds < MaxPubrels
  /\ rounds' = rounds + 1
  /\ StartSending("PUBREL") /\ Elapse(0, {"call"})
  /\ UNCHANGED <<link, need, buffer, partial, waitingForPingResp>>
\* sendPublishAcks fails too if the state of the publish cannot be updated.
PubrelSent ==
  /\ pc = "send" /\ sending.left = <<>> /\ sending.what = "PUBREL"
  /\ pc' \in {"resume", "over"}
  /\ UNCHANGED <<link, sending, need, rounds, buffer, partial, waitingForPingResp, age>>

\* lastPacketRxTime keeps the value it had.
Connected ==
  /\ pc = "resume"
  /\ pc' = "idle" /\ rounds' = 0 /\ waitingForPingResp' = FALSE /\ Elapse(0, {"gap"})
  /\ UNCHANGED <<link, sending, need, buffer, partial>>

-----------------------------------------------------------------------------
\* MQTT_ProcessLoop.

\* Mutant: only what has gone out counts.
handleKeepAliveTxOnly(d) ==
  IF waitingForPingResp
    THEN IF Older("ping", d) > PingTimeout THEN "KeepAliveTimeout" ELSE "nothing"
  ELSE IF TxTimeout # 0 /\ Older("tx", d) >= TxTimeout THEN "ping" ELSE "nothing"
\* What the keep-alive asks for after d.
handleKeepAlive(d) ==
  IF waitingForPingResp
    THEN IF Older("ping", d) > PingTimeout THEN "KeepAliveTimeout" ELSE "nothing"
  ELSE IF \/ TxTimeout # 0 /\ Older("tx", d) >= TxTimeout
          \/ Older("rx", d) # 0 /\ Older("rx", d) >= RxTimeout
    THEN "ping"
  ELSE "nothing"

discardStoredPacket(length, buffered, d, restart) ==
  /\ pc' = "discard" /\ need' = length - buffered
  /\ Consume(buffered) /\ index' = 0
  /\ Elapse(d, restart \cup {"call"})
  /\ UNCHANGED <<sending, waitingForPingResp>>

\* A packet that its handler refuses has been taken out of the buffer all the same.
\* One that calls for an acknowledgement (a PUBLISH, which stands for PUBREC and PUBREL
\* too) is answered first; lastPacketRxTime is for those whose handling went well.
HandlePacket(length, buffered, d, restart) ==
  /\ index' = buffered - length /\ Consume(length)
  /\ waitingForPingResp' = (waitingForPingResp /\ Head(stream) # "PINGRESP")
  /\ \/ pc' = "idle" /\ Elapse(d, restart \cup {"rx"}) /\ UNCHANGED sending
     \/ /\ Head(stream) = "PUBLISH"
        /\ \/ StartSending("ACK") /\ Elapse(d, restart \cup {"call"})
           \/ pc' = "over" /\ Elapse(d, restart) /\ UNCHANGED sending
  /\ UNCHANGED need

NeedMoreBytes(buffered, d, restart) ==
  /\ pc' = "idle" /\ index' = buffered
  /\ Elapse(d, restart)
  /\ UNCHANGED <<sending, need, stream, skew, waitingForPingResp>>

\* The buffer is looked at: its first packet is handled if it is all there,
\* and discarded if it can never be.
FinishIteration(buffered, d, restart) ==
  LET length == Size(Head(stream)) IN
  IF buffered < HeaderLength   THEN NeedMoreBytes(buffered, d, restart)
  ELSE IF length > BufferSize  THEN discardStoredPacket(length, buffered, d, restart)
  ELSE IF length > buffered    THEN NeedMoreBytes(buffered, d, restart)
  ELSE HandlePacket(length, buffered, d, restart)

\* The keep-alive is looked at when recv finds nothing, and before a packet
\* that waits in the buffer.
receiveSingleIteration ==
  /\ pc = "idle"
  /\ IF Fails(BufferSize - index)
       THEN pc' = "over" /\ UNCHANGED <<sending, need, buffer, waitingForPingResp, age>>
       ELSE \E n \in espTlsTransportRecv(BufferSize - index) : \E d \in Duration(n) :
         CASE n > 0 \/ handleKeepAlive(d) = "nothing" ->
                FinishIteration(index + n, d, {"gap"} \cup Heard(n))
           [] n = 0 /\ handleKeepAlive(d) = "ping" ->
                StartSending("PINGREQ") /\ Elapse(d, {"gap", "call"})
                /\ UNCHANGED <<need, buffer, waitingForPingResp>>
           [] n = 0 /\ handleKeepAlive(d) = "KeepAliveTimeout" ->
                pc' = "over" /\ Elapse(d, {"gap"}) /\ UNCHANGED <<sending, need, buffer, waitingForPingResp>>
  /\ UNCHANGED <<link, rounds, partial>>

\* MQTT_Ping has sent its two bytes: the iteration goes on with what it had.
MQTT_Ping ==
  /\ pc = "send" /\ sending.left = <<>> /\ sending.what = "PINGREQ"
  /\ pc' = "ponder" /\ waitingForPingResp' = TRUE
  /\ age' = [age EXCEPT !.ping = age.tx]
  /\ stream' = IF peer = "alive" THEN Append(stream, "PINGRESP") ELSE stream
  /\ UNCHANGED <<link, sending, need, rounds, index, skew, partial>>
IterationAfterPing ==
  /\ pc = "ponder"
  /\ FinishIteration(index, 0, {"gap"})
  /\ UNCHANGED <<link, rounds, partial>>

\* sendPublishAcks returns, with an error if the state of the publish cannot be updated.
Acknowledged ==
  /\ pc = "send" /\ sending.left = <<>> /\ sending.what = "ACK"
  /\ \/ pc' = "idle" /\ Elapse(0, {"rx", "gap"})
     \/ pc' = "over" /\ UNCHANGED age
  /\ UNCHANGED <<link, sending, need, rounds, buffer, partial, waitingForPingResp>>

\* The rest of the packet has been read: there is no data.
Discarded ==
  /\ pc = "discard" /\ need = 0
  /\ pc' = "idle" /\ Elapse(0, {"gap"})
  /\ UNCHANGED <<link, sending, need, rounds, buffer, partial, waitingForPingResp>>

-----------------------------------------------------------------------------
\* External: the broker, the network, and the application between two calls.

BrokerSends(packet) ==
  /\ up /\ peer = "alive" /\ ~Connecting
  /\ Len(stream) < MaxInFlight
  /\ stream' = Append(stream, packet)
  /\ UNCHANGED <<link, pc, sending, need, rounds, index, skew, partial, waitingForPingResp, age>>
PeerFallsSilent == /\ up /\ peer = "alive" /\ peer' = "silent"
                   /\ UNCHANGED <<tls, up, pc, sending, need, rounds, buffer, partial, waitingForPingResp, age>>
\* What is under way does not come any more, were it the rest of a packet.
NetworkStalls == /\ up /\ peer # "stalled" /\ peer' = "stalled"
                 /\ UNCHANGED <<tls, up, pc, sending, need, rounds, buffer, partial, waitingForPingResp, age>>
LinkBreaks == /\ up /\ up' = FALSE
              /\ UNCHANGED <<tls, peer, pc, sending, need, rounds, buffer, partial, waitingForPingResp, age>>
Wait == /\ pc = "idle" /\ age.gap < MaxGap /\ Elapse(1, {})
        /\ UNCHANGED <<link, pc, sending, need, rounds, buffer, partial, waitingForPingResp>>

InCall == \/ SendChunk \/ recvExact
          \/ ConnectSent \/ receiveConnack \/ handleSessionResumption
          \/ ResendPubrel \/ PubrelSent \/ Connected
          \/ MQTT_Ping \/ IterationAfterPing \/ Acknowledged \/ Discarded \/ Published \/ Disconnected
Next == \/ xTlsConnect \/ xTlsDisconnect \/ ConnectStarts
        \/ MQTT_Publish \/ MQTT_Disconnect \/ receiveSingleIteration \/ InCall
        \/ \E packet \in {"PUBLISH", "BIG"} : BrokerSends(packet)
        \/ PeerFallsSilent \/ NetworkStalls \/ LinkBreaks \/ Wait

Spec == Init /\ [][Next]_vars /\ WF_vars(InCall)
-----------------------------------------------------------------------------
\* Between two calls that reported no error the buffer starts where a packet
\* does, has room for recv to ask for at least one byte (a transport that is
\* asked for none reports an error), and what has gone out is whole packets.
\* After one, the reset of MQTT_Connect makes it so again.
Framed == pc = "idle" =>
  /\ skew = 0 /\ index < BufferSize /\ Coming >= 0
  /\ ~partial

\* A broker from which nothing comes any more is found out: no call leaves
\* the application with a connection that has been silent for longer than the
\* timeouts of the keep-alive, the calls on the way with their publishes and
\* acknowledgements, and the PUBRELs of MQTT_Connect.
DeadPeerFound == pc = "idle" => age.silent <= SilenceAllowed

\* Every call of the library returns, whatever the transport does: a byte at
\* a time, no byte at all, or an error.
CallReturns == pc \notin {"idle", "over", "closed", "tls"} ~> pc \in {"idle", "over"}
=============================================================================
