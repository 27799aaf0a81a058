-------------------------- MODULE MqttLinkProofs --------------------------
(***************************************************************************)
(* Proofs about one MQTT connection: the buffer and what has gone out stay *)
(* at the boundaries of packets, and a broker that has fallen silent is    *)
(* found out in time.                                                      *)
(***************************************************************************)
EXTENDS MqttLink, FiniteSetTheorems, SequenceTheorems, TLAPS

Kinds == {"CONNACK", "PINGRESP", "PUBLISH", "BIG"}
Steps == {"closed", "tls", "send", "type", "count", "length", "connack", "resume",
          "idle", "ponder", "discard", "over"}
Whats == {"nothing", "CONNECT", "PUBLISH", "PINGREQ", "DISCONNECT", "ACK", "PUBREL"}

TypeOK ==
  /\ pc \in Steps
  /\ sending \in [what : Whats, left : Seq(Nat)]
  /\ need \in Nat /\ rounds \in Nat /\ index \in Nat /\ skew \in Nat
  /\ stream \in Seq(Kinds)
  /\ age \in [Timers -> Nat]
  /\ partial \in BOOLEAN /\ waitingForPingResp \in BOOLEAN

\* What goes out is whole packets except while one is being sent, and after
\* an error.
OutInv == partial => \/ pc = "send" /\ sending.left # <<>>
                     \/ pc \in {"over", "closed"}

\* The states in which the buffer holds what the client has of the stream.
Buffering == \/ pc \in {"idle", "ponder", "resume"}
             \/ pc = "send" /\ sending.what # "CONNECT"
\* Where the task is in the stream, at each place of the code: nothing has
\* come before the CONNECT is out, then the CONNACK and nothing else, then
\* packets of which the buffer holds the first index bytes, none while the
\* session is resumed, and while a packet is discarded that packet.
InInv ==
  /\ pc = "tls" => stream = <<>> /\ skew = 0
  /\ pc = "send" /\ sending.what = "CONNECT" => stream = <<>> /\ skew = 0
  /\ pc \in {"type", "count"} => stream \in {<<>>, <<"CONNACK">>} /\ skew = 0
  /\ pc = "length" => stream = <<"CONNACK">> /\ skew = 1
  /\ pc = "connack" => \/ need > 0 /\ stream = <<"CONNACK">> /\ skew + need = 4
                       \/ need = 0 /\ stream = <<>> /\ skew = 0
  /\ Buffering => skew = 0 /\ index < BufferSize /\ index <= Length(stream)
  /\ pc = "resume" \/ (pc = "send" /\ sending.what = "PUBREL") => index = 0
  /\ pc = "discard" => /\ index = 0
                       /\ \/ /\ need > 0 /\ stream # <<>> /\ Head(stream) = "BIG"
                             /\ skew + need = BufferSize + 1
                          \/ need = 0 /\ skew = 0
FrameInv == TypeOK /\ OutInv /\ InInv

-----------------------------------------------------------------------------
\* The calls that were made since the last byte and that took a packet out of
\* the buffer, at the most: it held BufferSize bytes then and holds i now.
Past(i) == ((BufferSize \div 2) - (i \div 2)) * CallTime
\* A whole packet is in the buffer.
Complete == index >= HeaderLength /\ Size(Head(stream)) <= index
\* The time since MQTT_ProcessLoop last read the clock, at the most, between
\* two of its calls.
Late == IF age.gap <= MaxGap THEN age.gap
        ELSE MaxGap + IF pc = "send" THEN age.call ELSE SendTime

\* Nothing has come for as long as the last packet is old.
ReceivedInv == age.rx < RxWait => age.silent <= Past(index) + age.rx
\* Between two calls and in a publish: nothing has come until the keep-alive
\* pings for it, and until the answer is overdue; with a packet in the buffer,
\* nothing since the last call.
Between == \/ pc = "idle"
           \/ pc = "send" /\ sending.what = "PUBLISH"
BetweenInv ==
  /\ ~waitingForPingResp => age.silent <= Past(index) + QuietTime + Late
  /\ waitingForPingResp =>
       /\ age.ping <= PingTimeout => age.silent <= Past(index) + QuietTime + CallTime + age.ping
       /\ age.silent <= Past(index) + QuietTime + CallTime + PingTimeout + Late
  /\ Complete => age.silent <= Past(index) + Late
\* While the PINGREQ is sent, the time since the keep-alive saw a packet fresh
\* enough, and since the call that could have taken one out of the buffer.
Spent == MaxGap + SendTime + 1 + age.call
PingingInv ==
  /\ age.silent <= Past(index) + QuietTime + Spent
  /\ Complete => age.silent <= Past(index) + Spent
\* After it there is time for an acknowledgement in the same call.
PingedInv ==
  /\ waitingForPingResp
  /\ age.silent + SendTime <= Past(index) + QuietTime + CallTime
  /\ Complete => age.silent + SendTime <= Past(index) + CallTime
\* While a packet is acknowledged the time for that is part of its call.
AckingInv == age.silent + SendTime <= Past(index) + age.call
\* While a session is resumed nothing has come since the CONNACK.
ResumingInv == rounds <= MaxPubrels /\ age.silent <= rounds * SendTime
ResendingInv == rounds <= MaxPubrels /\ age.silent + SendTime <= rounds * SendTime + age.call

SilenceInv ==
  /\ pc = "send" => /\ age.call <= SendTime
                    /\ sending.left # <<>> => age.call <= SendTimeout
  /\ Between => ReceivedInv /\ BetweenInv
  /\ pc = "send" /\ sending.what = "PINGREQ" => ReceivedInv /\ PingingInv
  /\ pc = "ponder" => ReceivedInv /\ PingedInv
  /\ pc = "send" /\ sending.what = "ACK" => AckingInv
  /\ pc = "resume" => ReceivedInv /\ ResumingInv
  /\ pc = "send" /\ sending.what = "PUBREL" => ReceivedInv /\ ResendingInv
  /\ pc \in {"discard", "connack"} /\ need = 0 => age.silent = 0

LinkInv == FrameInv /\ SilenceInv

-----------------------------------------------------------------------------
(* The lengths of packets *)

\* No packet is shorter than its header, and only a BIG one does not fit.
LEMMA SizeFacts ==
  /\ Size("CONNACK") = 4 /\ Size("PINGRESP") = 2 /\ Size("PUBLISH") = 3
  /\ Size("BIG") = BufferSize + 1
  /\ \A kind \in Kinds : Size(kind) \in 2..(BufferSize + 1)
  /\ \A kind \in Kinds : Size(kind) > BufferSize => kind = "BIG"
BY TimesAssumption DEF Size, Kinds

LEMMA BytesFinite ==
  ASSUME NEW s \in Seq(Kinds)
  PROVE  /\ IsFiniteSet(Bytes(s))
         /\ Length(s) \in Nat
<1>1. Len(s) \in Nat /\ BufferSize + 1 \in Nat
  BY TimesAssumption
<1>2. IsFiniteSet(1..Len(s)) /\ IsFiniteSet(1..(BufferSize + 1))
  BY <1>1, FS_Interval
<1>3. IsFiniteSet((1..Len(s)) \X (1..(BufferSize + 1)))
  BY <1>2, FS_Product
<1>4. Bytes(s) \subseteq (1..Len(s)) \X (1..(BufferSize + 1))
  BY DEF Bytes
<1>5. IsFiniteSet(Bytes(s))
  BY <1>3, <1>4, FS_Subset
<1> QED BY <1>5, FS_CardinalityType DEF Length

\* A byte of a sequence is a packet of it and a place in that packet.
LEMMA BytesOf ==
  ASSUME NEW s \in Seq(Kinds)
  PROVE  /\ \A i \in 1..Len(s) : \A k \in 1..Size(s[i]) : <<i, k>> \in Bytes(s)
         /\ \A b \in Bytes(s) : /\ b = <<b[1], b[2]>>
                                /\ b[1] \in 1..Len(s) /\ b[2] \in 1..Size(s[b[1]])
<1>1. ASSUME NEW i \in 1..Len(s), NEW k \in 1..Size(s[i])
      PROVE  <<i, k>> \in Bytes(s)
  <2>1. s[i] \in Kinds
    OBVIOUS
  <2>2. Size(s[i]) \in 2..(BufferSize + 1)
    BY <2>1, SizeFacts
  <2>3. k \in 1..(BufferSize + 1) /\ k <= Size(s[i])
    BY <2>2, TimesAssumption
  <2> QED BY <2>3 DEF Bytes
<1>2. ASSUME NEW b \in Bytes(s)
      PROVE  /\ b = <<b[1], b[2]>>
             /\ b[1] \in 1..Len(s) /\ b[2] \in 1..Size(s[b[1]])
  <2>1. b \in (1..Len(s)) \X (1..(BufferSize + 1)) /\ b[2] <= Size(s[b[1]])
    BY DEF Bytes
  <2>2. b = <<b[1], b[2]>> /\ b[1] \in 1..Len(s) /\ b[2] \in 1..(BufferSize + 1)
    BY <2>1
  <2>3. s[b[1]] \in Kinds
    BY <2>2
  <2>4. Size(s[b[1]]) \in 2..(BufferSize + 1)
    BY <2>3, SizeFacts
  <2> QED BY <2>1, <2>2, <2>4, TimesAssumption
<1> QED BY <1>1, <1>2

LEMMA LengthEmpty == Length(<<>>) = 0
<1>1. Bytes(<<>>) = {}
  BY DEF Bytes
<1> QED BY <1>1, FS_EmptySet DEF Length

\* The first packet, and the rest.
LEMMA LengthTail ==
  ASSUME NEW s \in Seq(Kinds), s # <<>>
  PROVE  Length(s) = Size(Head(s)) + Length(Tail(s))
<1> DEFINE size == Size(Head(s))
           First == {1} \X (1..size)
           Rest == Bytes(s) \ First
           f == [b \in Bytes(Tail(s)) |-> <<b[1] + 1, b[2]>>]
<1>1. Head(s) = s[1] /\ Len(s) \in Nat \ {0} /\ Head(s) \in Kinds /\ Tail(s) \in Seq(Kinds)
      /\ Len(Tail(s)) = Len(s) - 1 /\ \A i \in 1..Len(Tail(s)) : Tail(s)[i] = s[i + 1]
  BY HeadTailProperties, EmptySeq
<1>2. size \in Nat /\ size >= 1
  BY <1>1, SizeFacts, TimesAssumption
<1>3. IsFiniteSet(First) /\ Cardinality(First) = size
  <2>1. IsFiniteSet(1..size) /\ Cardinality(1..size) = size
    BY <1>2, FS_Interval
  <2>2. IsFiniteSet({1}) /\ Cardinality({1}) = 1
    BY FS_Singleton
  <2>3. IsFiniteSet(First) /\ Cardinality(First) = 1 * size
    BY <2>1, <2>2, FS_Product
  <2> QED BY <2>3, <1>2
<1>4. First \subseteq Bytes(s)
  <2>1. \A k \in 1..size : <<1, k>> \in Bytes(s)
    BY <1>1, BytesOf
  <2> QED BY <2>1
<1>5. IsFiniteSet(Rest) /\ Cardinality(Rest) = Length(s) - size
  <2>1. IsFiniteSet(Bytes(s))
    BY BytesFinite
  <2>2. Bytes(s) \cap First = First
    BY <1>4
  <2> HIDE DEF First
  <2>3. IsFiniteSet(Bytes(s) \ First) /\ Cardinality(Bytes(s) \ First)
          = Cardinality(Bytes(s)) - Cardinality(Bytes(s) \cap First)
    BY <2>1, FS_Difference
  <2> QED BY <2>2, <2>3, <1>3 DEF Length
<1>6. f \in Bijection(Bytes(Tail(s)), Rest)
  <2>1. ASSUME NEW b \in Bytes(Tail(s)) PROVE f[b] \in Rest
    <3>1. b[1] \in 1..Len(Tail(s)) /\ b[2] \in 1..Size(Tail(s)[b[1]])
      BY <1>1, BytesOf
    <3>2. b[1] + 1 \in 1..Len(s) /\ Tail(s)[b[1]] = s[b[1] + 1] /\ b[1] + 1 # 1
      BY <1>1, <3>1
    <3>3. <<b[1] + 1, b[2]>> \in Bytes(s)
      BY <3>1, <3>2, BytesOf
    <3> QED BY <3>2, <3>3
  <2>2. ASSUME NEW a \in Bytes(Tail(s)), NEW b \in Bytes(Tail(s)), f[a] = f[b] PROVE a = b
    <3>1. a = <<a[1], a[2]>> /\ b = <<b[1], b[2]>> /\ a[1] \in Int /\ b[1] \in Int
      <4>1. a = <<a[1], a[2]>> /\ a[1] \in 1..Len(Tail(s))
        BY <1>1, BytesOf
      <4>2. b = <<b[1], b[2]>> /\ b[1] \in 1..Len(Tail(s))
        BY <1>1, BytesOf
      <4> QED BY <4>1, <4>2, <1>1
    <3>2. a[1] + 1 = b[1] + 1 /\ a[2] = b[2]
      BY <2>2
    <3> QED BY <3>1, <3>2
  <2>3. ASSUME NEW c \in Rest PROVE \E b \in Bytes(Tail(s)) : f[b] = c
    <3>1. c = <<c[1], c[2]>> /\ c[1] \in 1..Len(s) /\ c[2] \in 1..Size(s[c[1]])
      BY BytesOf
    <3>2. c[1] # 1
      <4>1. SUFFICES ASSUME c[1] = 1 PROVE FALSE
        OBVIOUS
      <4>2. c[2] \in 1..size
        BY <3>1, <4>1, <1>1
      <4> QED BY <3>1, <4>1, <4>2
    <3>3. c[1] - 1 \in 1..Len(Tail(s)) /\ Tail(s)[c[1] - 1] = s[c[1]]
      BY <1>1, <3>1, <3>2
    <3>4. <<c[1] - 1, c[2]>> \in Bytes(Tail(s))
      BY <1>1, <3>1, <3>3, BytesOf
    <3>5. f[<<c[1] - 1, c[2]>>] = c
      BY <3>1, <3>4
    <3> QED BY <3>4, <3>5
  <2> HIDE DEF f, Rest
  <2>4. f \in [Bytes(Tail(s)) -> Rest]
    BY <2>1 DEF f
  <2> QED BY <2>2, <2>3, <2>4 DEF Bijection, Injection, Surjection, IsInjective
<1>7. Cardinality(Rest) = Length(Tail(s))
  <2>1. ExistsBijection(Bytes(Tail(s)), Rest)
    BY <1>6 DEF ExistsBijection
  <2>2. IsFiniteSet(Bytes(Tail(s)))
    BY <1>1, BytesFinite
  <2> HIDE DEF Rest
  <2> QED BY <2>1, <2>2, FS_Bijection DEF Length
<1>8. Length(s) \in Nat
  BY BytesFinite
<1> HIDE DEF Rest
<1> QED BY <1>2, <1>5, <1>7, <1>8

LEMMA LengthAppend ==
  ASSUME NEW s \in Seq(Kinds), NEW kind \in Kinds
  PROVE  Length(s) <= Length(Append(s, kind))
<1>1. Append(s, kind) \in Seq(Kinds) /\ Len(Append(s, kind)) = Len(s) + 1
      /\ \A i \in 1..Len(s) : Append(s, kind)[i] = s[i]
  OBVIOUS
<1>2. Bytes(s) \subseteq Bytes(Append(s, kind))
  <2> SUFFICES ASSUME NEW b \in Bytes(s) PROVE b \in Bytes(Append(s, kind))
    OBVIOUS
  <2>1. b = <<b[1], b[2]>> /\ b[1] \in 1..Len(s) /\ b[2] \in 1..Size(s[b[1]])
    BY BytesOf
  <2>2. b[1] \in 1..Len(Append(s, kind)) /\ Append(s, kind)[b[1]] = s[b[1]]
    BY <1>1, <2>1
  <2>3. <<b[1], b[2]>> \in Bytes(Append(s, kind))
    BY <1>1, <2>1, <2>2, BytesOf
  <2> QED BY <2>1, <2>3
<1>3. IsFiniteSet(Bytes(Append(s, kind)))
  BY <1>1, BytesFinite
<1> QED BY <1>2, <1>3, FS_Subset DEF Length

LEMMA ConnackAlone ==
  /\ <<"CONNACK">> \in Seq(Kinds) /\ <<"CONNACK">> # <<>>
  /\ Head(<<"CONNACK">>) = "CONNACK" /\ Tail(<<"CONNACK">>) = <<>>
BY DEF Kinds

LEMMA LengthConnack == Length(<<"CONNACK">>) = 4
<1>1. <<"CONNACK">> \in Seq(Kinds) /\ <<"CONNACK">> # <<>>
      /\ Head(<<"CONNACK">>) = "CONNACK" /\ Tail(<<"CONNACK">>) = <<>>
  BY ConnackAlone
<1>2. Length(<<"CONNACK">>) = Size(Head(<<"CONNACK">>)) + Length(Tail(<<"CONNACK">>))
  BY <1>1, LengthTail
<1> QED BY <1>1, <1>2, LengthEmpty, SizeFacts

-----------------------------------------------------------------------------
(* Time *)

LEMMA NumberFacts ==
  /\ BufferSize \in Nat /\ BufferSize >= 4 /\ MaxGap \in Nat /\ SendTimeout \in Nat
  /\ PingTimeout \in Nat /\ RxTimeout \in Nat /\ TxTimeout \in Nat
  /\ PollTimeout \in Nat /\ ConnackTimeout \in Nat
  /\ ConnackRetries \in Nat /\ MaxPubrels \in Nat
  /\ RxWait \in Nat /\ RxWait >= 1 /\ RxWait >= RxTimeout
  /\ SendTime \in Nat /\ SendTime = SendTimeout + 1
  /\ CallTime \in Nat /\ CallTime = MaxGap + 3 * SendTime + 1
<1>1. /\ BufferSize \in Nat /\ BufferSize >= 4 /\ MaxGap \in Nat /\ SendTimeout \in Nat
      /\ PingTimeout \in Nat /\ RxTimeout \in Nat /\ TxTimeout \in Nat
      /\ PollTimeout \in Nat /\ ConnackTimeout \in Nat
      /\ ConnackRetries \in Nat /\ MaxPubrels \in Nat
  BY TimesAssumption
<1>2. RxWait \in Nat /\ RxWait >= 1 /\ RxWait >= RxTimeout
  BY <1>1 DEF RxWait, Largest
<1>3. SendTime \in Nat /\ SendTime = SendTimeout + 1
  BY <1>1 DEF SendTime
<1>4. CallTime \in Nat /\ CallTime = MaxGap + 3 * SendTime + 1
  BY <1>1, <1>3 DEF CallTime
<1> QED BY <1>1, <1>2, <1>3, <1>4

\* Nothing comes while the keep-alive does not look, nor while MQTT_Connect
\* sends PUBRELs, which take the more time the more there are.
LEMMA QuietFacts ==
  /\ QuietTime \in Nat /\ QuietTime >= RxWait /\ QuietTime >= 1
  /\ \A k \in Nat : /\ k * SendTime \in Nat /\ (k + 1) * SendTime = k * SendTime + SendTime
                    /\ k <= MaxPubrels => k * SendTime <= QuietTime
<1>1. \A a, c \in Nat : a * c \in Nat /\ (a + 1) * c = a * c + c
  OBVIOUS
<1>2. \A a, b, c \in Nat : a <= b => a * c <= b * c
  OBVIOUS
<1>3. MaxPubrels * SendTime \in Nat
  BY <1>1, NumberFacts
<1>4. QuietTime \in Nat /\ QuietTime >= RxWait /\ QuietTime >= MaxPubrels * SendTime
  BY <1>3, NumberFacts DEF QuietTime, Largest
<1>5. ASSUME NEW k \in Nat
      PROVE  /\ k * SendTime \in Nat /\ (k + 1) * SendTime = k * SendTime + SendTime
             /\ k <= MaxPubrels => k * SendTime <= QuietTime
  <2>1. k * SendTime \in Nat /\ (k + 1) * SendTime = k * SendTime + SendTime
    BY <1>1, NumberFacts
  <2>2. k <= MaxPubrels => k * SendTime <= MaxPubrels * SendTime
    BY <1>2, NumberFacts
  <2>3. \A x, y, z \in Nat : x <= y /\ y <= z => x <= z
    OBVIOUS
  <2> QED BY <1>3, <1>4, <2>1, <2>2, <2>3
<1> QED BY <1>4, <1>5, NumberFacts

LEMMA AllowedIsNat == SilenceAllowed \in Nat
<1>1. (BufferSize \div 2) + 2 \in Nat
  BY NumberFacts
<1>2. ((BufferSize \div 2) + 2) * CallTime \in Nat
  BY <1>1, NumberFacts
<1> QED BY <1>2, NumberFacts, QuietFacts DEF SilenceAllowed

\* What is left of the calls that a full buffer leads to, when some packets
\* have been taken out.
LEMMA PastFacts ==
  /\ \A i \in 0..BufferSize : Past(i) \in Nat /\ Past(i) <= Past(0)
  /\ \A i \in 0..BufferSize : \A j \in Nat : j + HeaderLength <= i => Past(i) + CallTime <= Past(j)
  /\ Past(0) = (BufferSize \div 2) * CallTime
<1>1. ASSUME NEW i \in 0..BufferSize
      PROVE  Past(i) \in Nat /\ Past(i) <= Past(0)
  <2>1. i \div 2 \in 0..(BufferSize \div 2)
    BY NumberFacts
  <2> DEFINE half == BufferSize \div 2
             used == i \div 2
  <2>2. half \in Nat /\ used \in Nat /\ used <= half /\ CallTime \in Nat /\ 0 \div 2 = 0
    BY <2>1, NumberFacts
  <2>3. half - used \in Nat /\ half - used <= half
    BY <2>2
  <2>4. Past(i) = (half - used) * CallTime /\ Past(0) = half * CallTime
    BY <2>2 DEF Past
  <2> HIDE DEF half, used
  <2>5. \A a, b, c \in Nat : a <= b => a * c \in Nat /\ a * c <= b * c
    OBVIOUS
  <2>6. (half - used) * CallTime \in Nat /\ (half - used) * CallTime <= half * CallTime
    BY <2>2, <2>3, <2>5
  <2> QED BY <2>4, <2>6
<1>2. ASSUME NEW i \in 0..BufferSize, NEW j \in Nat, j + HeaderLength <= i
      PROVE  Past(i) + CallTime <= Past(j)
  <2> DEFINE half == BufferSize \div 2
             used == i \div 2
             less == j \div 2
  <2>1. half \in Nat /\ used \in Nat /\ less \in Nat /\ used <= half /\ less + 1 <= used /\ CallTime \in Nat
    BY <1>2, NumberFacts DEF HeaderLength
  <2>2. Past(i) = (half - used) * CallTime /\ Past(j) = (half - less) * CallTime
    BY DEF Past
  <2> HIDE DEF half, used, less
  <2>3. half - used \in Nat /\ half - less \in Nat /\ (half - used) + 1 <= half - less
    BY <2>1
  <2>4. \A a, b, c \in Nat : a + 1 <= b => a * c + c <= b * c
    <3> SUFFICES ASSUME NEW a \in Nat, NEW b \in Nat, NEW c \in Nat, a + 1 <= b
                 PROVE  a * c + c <= b * c
      OBVIOUS
    <3>1. (a + 1) * c <= b * c /\ (a + 1) * c = a * c + c
      OBVIOUS
    <3> QED BY <3>1
  <2>5. (half - used) * CallTime + CallTime <= (half - less) * CallTime
    BY <2>1, <2>3, <2>4
  <2> QED BY <2>2, <2>5
<1>3. Past(0) = (BufferSize \div 2) * CallTime
  <2>1. 0 \div 2 = 0
    OBVIOUS
  <2> QED BY <2>1, NumberFacts DEF Past
<1> QED BY <1>1, <1>2, <1>3

\* The timers after d: those that are read anew, and the others, which count
\* up to the age that no comparison tells from an older one.
LEMMA Elapsed ==
  ASSUME age \in [Timers -> Nat], NEW d \in {0, 1}, NEW restart, Elapse(d, restart)
  PROVE  /\ age' \in [Timers -> Nat]
         /\ \A t \in Timers \cap restart : age'[t] = 0
         /\ \A t \in Timers \ restart :
              /\ age'[t] = Older(t, d) /\ age'[t] <= age[t] + d
              /\ age[t] + d <= AgeCap[t] \/ age'[t] < AgeCap[t] => age'[t] = age[t] + d
              /\ age[t] + d > AgeCap[t] => age'[t] = AgeCap[t]
<1>1. \A t \in Timers : AgeCap[t] \in Nat
  BY AllowedIsNat, NumberFacts DEF Timers, AgeCap, Largest
<1>2. age' = [t \in Timers |-> IF t \in restart THEN 0 ELSE Older(t, d)]
  BY DEF Elapse
<1>3. ASSUME NEW t \in Timers
      PROVE  /\ Older(t, d) \in Nat /\ Older(t, d) <= age[t] + d
             /\ age[t] + d <= AgeCap[t] \/ Older(t, d) < AgeCap[t] => Older(t, d) = age[t] + d
             /\ age[t] + d > AgeCap[t] => Older(t, d) = AgeCap[t]
  <2>1. AgeCap[t] \in Nat /\ age[t] \in Nat
    BY <1>1
  <2> QED BY <2>1 DEF Older
<1> HIDE DEF Timers
<1> QED BY <1>2, <1>3

LEMMA TimersAre ==
  /\ "tx" \in Timers /\ "rx" \in Timers /\ "ping" \in Timers
  /\ "silent" \in Timers /\ "call" \in Timers /\ "gap" \in Timers
  /\ AgeCap.rx = RxWait /\ AgeCap.ping = PingTimeout + 1 /\ AgeCap.gap = MaxGap + 1
  /\ AgeCap.call \in Nat /\ AgeCap.call >= SendTimeout + 1
BY NumberFacts DEF Timers, AgeCap, Largest

-----------------------------------------------------------------------------
(* The transport and the stream *)

LEMMA Received ==
  ASSUME NEW length \in Nat, Coming \in Int, NEW n \in espTlsTransportRecv(length)
  PROVE  n \in Nat /\ n <= length /\ (Coming \in Nat => n <= Coming)
BY DEF espTlsTransportRecv

LEMMA Durations ==
  ASSUME NEW n, NEW d \in Duration(n)
  PROVE  d \in {0, 1} /\ (n = 0 => d = 1)
BY DEF Duration

LEMMA Consumed ==
  ASSUME stream \in Seq(Kinds), skew \in Nat, NEW n \in Nat, Consume(n)
  PROVE  stream' \in Seq(Kinds) /\ skew' \in Nat
<1>1. CASE stream # <<>> /\ skew + n >= Size(Head(stream))
  <2>1. Head(stream) \in Kinds /\ Tail(stream) \in Seq(Kinds)
    BY <1>1, HeadTailProperties
  <2>2. Size(Head(stream)) \in Nat
    BY <2>1, SizeFacts, NumberFacts
  <2>3. stream' = Tail(stream) /\ skew' = skew + n - Size(Head(stream))
    BY <1>1 DEF Consume
  <2> QED BY <1>1, <2>1, <2>2, <2>3
<1>2. CASE ~(stream # <<>> /\ skew + n >= Size(Head(stream)))
  BY <1>2 DEF Consume
<1> QED BY <1>1, <1>2

\* The vectors of a packet, and what is left of them.
LEMMA VectorsLeft ==
  /\ \A what \in Whats : Vectors(what) \in Seq(Nat)
  /\ \A left \in Seq(Nat) : left # <<>> =>
       /\ Head(left) \in Nat
       /\ \A n \in espTlsTransportSend(Head(left)) : n \in Nat /\ Advance(left, n) \in Seq(Nat)
<1>1. ASSUME NEW left \in Seq(Nat), left # <<>>
      PROVE  /\ Head(left) \in Nat
             /\ \A n \in espTlsTransportSend(Head(left)) : n \in Nat /\ Advance(left, n) \in Seq(Nat)
  <2>1. Head(left) \in Nat /\ Tail(left) \in Seq(Nat) /\ Len(left) \in Nat \ {0} /\ Head(left) = left[1]
    BY <1>1, HeadTailProperties, EmptySeq
  <2>2. ASSUME NEW n \in espTlsTransportSend(Head(left))
        PROVE  n \in Nat /\ Advance(left, n) \in Seq(Nat)
    <3>1. n \in Nat /\ n <= Head(left)
      BY <2>1 DEF espTlsTransportSend
    <3>2. 1 \in 1..Len(left) /\ left[1] - n \in Nat
      BY <2>1, <3>1
    <3>3. [left EXCEPT ![1] = left[1] - n] \in Seq(Nat)
      BY <3>2, ExceptSeq
    <3> QED BY <2>1, <3>1, <3>3 DEF Advance
  <2> QED BY <2>1, <2>2
<1>2. \A what \in Whats : Vectors(what) \in Seq(Nat)
  BY DEF Vectors, Whats
<1> QED BY <1>1, <1>2

-----------------------------------------------------------------------------
(* The boundaries of packets *)

\* The first state.
LEMMA FrameInit == Init => FrameInv
<1> SUFFICES ASSUME Init PROVE FrameInv
  OBVIOUS
<1>1. age \in [Timers -> Nat]
  BY AllowedIsNat, NumberFacts DEF Init, Timers, AgeCap, Largest
<1>2. stream \in Seq(Kinds) /\ sending \in [what : Whats, left : Seq(Nat)]
  BY EmptySeq DEF Init, Whats
<1>3. TypeOK
  BY <1>1, <1>2 DEF Init, TypeOK, Steps
<1> QED BY <1>3 DEF Init, FrameInv, OutInv, InInv, Buffering

\* What the client has in its buffer is part of what is under way.
LEMMA ComingFacts ==
  ASSUME FrameInv
  PROVE  /\ Buffering => Coming = Length(stream) - index /\ Coming \in Nat
         /\ pc \in {"type", "count", "length", "connack"} => Coming = Length(stream) - skew /\ Coming \in Nat
         /\ Length(stream) \in Nat /\ Coming \in Int
<1>1. Length(stream) \in Nat
  BY BytesFinite DEF FrameInv, TypeOK
<1>2. CASE Buffering
  <2>1. ~Connecting /\ pc \notin {"type", "count", "length", "connack"}
    BY <1>2 DEF Buffering, Connecting
  <2> QED BY <1>1, <1>2, <2>1 DEF Coming, FrameInv, TypeOK, InInv
<1>3. CASE pc \in {"type", "count", "length", "connack"}
  <2>1. Connecting /\ ~Buffering
    BY <1>3 DEF Connecting, Buffering
  <2>2. skew <= Length(stream)
    <3>1. CASE pc \in {"type", "count"}
      BY <1>1, <3>1 DEF FrameInv, TypeOK, InInv
    <3>2. CASE pc = "length"
      BY <3>2, LengthConnack DEF FrameInv, TypeOK, InInv
    <3>3. CASE pc = "connack"
      BY <1>1, <3>3, LengthConnack DEF FrameInv, TypeOK, InInv
    <3> QED BY <1>3, <3>1, <3>2, <3>3
  <2> QED BY <1>1, <2>1, <2>2 DEF Coming, FrameInv, TypeOK
<1>4. Coming \in Int
  BY <1>1 DEF Coming, FrameInv, TypeOK
<1> QED BY <1>1, <1>2, <1>3, <1>4 DEF Buffering

LEMMA FrameTlsConnect == FrameInv /\ xTlsConnect => FrameInv'
<1> SUFFICES ASSUME FrameInv, xTlsConnect PROVE FrameInv'
  OBVIOUS
<1>1. pc = "closed" /\ pc' \in {"closed", "tls"} /\ stream' = <<>> /\ skew' = 0 /\ partial' = FALSE
      /\ UNCHANGED <<sending, need, rounds, index, waitingForPingResp, age>>
  BY DEF xTlsConnect
<1>2. stream' \in Seq(Kinds)
  BY <1>1, EmptySeq
<1>3. TypeOK'
  BY <1>1, <1>2 DEF FrameInv, TypeOK, Steps
<1> QED BY <1>1, <1>3 DEF FrameInv, OutInv, InInv, Buffering

LEMMA FrameTlsDisconnect == FrameInv /\ xTlsDisconnect => FrameInv'
BY DEF xTlsDisconnect, FrameInv, TypeOK, OutInv, InInv, Buffering, Steps, buffer

LEMMA FrameSendChunk == FrameInv /\ SendChunk => FrameInv'
<1> SUFFICES ASSUME FrameInv, SendChunk PROVE FrameInv'
  OBVIOUS
<1>1. pc = "send" /\ sending.left # <<>> /\ sending.left \in Seq(Nat) /\ sending.what \in Whats
  BY DEF FrameInv, TypeOK, SendChunk
<1>2. UNCHANGED <<need, rounds, index, stream, skew, waitingForPingResp>>
  BY DEF SendChunk, buffer
<1>3. CASE pc' = "over" /\ UNCHANGED <<sending, partial, age>>
  BY <1>2, <1>3 DEF FrameInv, TypeOK, OutInv, InInv, Buffering, Steps
<1>4. CASE ~(pc' = "over" /\ UNCHANGED <<sending, partial, age>>)
  <2>1. PICK n \in espTlsTransportSend(Head(sending.left)) : \E d \in Duration(n) :
          /\ sending' = [sending EXCEPT !.left = Advance(@, n)]
          /\ partial' = (sending'.left # <<>> /\ (partial \/ n > 0))
          /\ Elapse(d, IF n > 0 THEN {"tx"} ELSE {})
          /\ pc' = IF sending'.left # <<>> /\ TimedOut(age.call + d) THEN "over" ELSE "send"
    BY <1>4 DEF SendChunk
  <2>0. PICK d \in Duration(n) : Elapse(d, IF n > 0 THEN {"tx"} ELSE {})
    BY <2>1
  <2>2. n \in Nat /\ Advance(sending.left, n) \in Seq(Nat)
    BY <1>1, VectorsLeft
  <2>3. sending' \in [what : Whats, left : Seq(Nat)] /\ sending'.what = sending.what
    BY <1>1, <2>1, <2>2 DEF FrameInv, TypeOK
  <2>4. age' \in [Timers -> Nat]
    BY <2>0, Elapsed, Durations DEF FrameInv, TypeOK
  <2>5. partial' \in BOOLEAN /\ pc' \in {"over", "send"} /\ (partial' => sending'.left # <<>>)
    BY <2>1
  <2>6. TypeOK' /\ OutInv'
    BY <1>2, <2>3, <2>4, <2>5 DEF FrameInv, TypeOK, OutInv, Steps
  <2>7. InInv'
    BY <1>1, <1>2, <2>3, <2>5 DEF FrameInv, TypeOK, InInv, Buffering
  <2> QED BY <2>6, <2>7 DEF FrameInv
<1> QED BY <1>3, <1>4

LEMMA Starting ==
  ASSUME FrameInv, NEW what \in Whats, StartSending(what)
  PROVE  /\ pc' = "send" /\ sending'.what = what
         /\ sending' \in [what : Whats, left : Seq(Nat)] /\ sending'.left = Vectors(what)
         /\ sending'.left # <<>>
<1>1. Vectors(what) \in Seq(Nat)
  BY VectorsLeft
<1>2. Vectors(what) # <<>>
  BY DEF Vectors
<1> QED BY <1>1, <1>2 DEF StartSending

Starts == ConnectStarts \/ MQTT_Publish \/ MQTT_Disconnect \/ ResendPubrel
LEMMA FrameSends == FrameInv /\ Starts => FrameInv'
<1> SUFFICES ASSUME FrameInv, Starts PROVE FrameInv'
  OBVIOUS
<1> USE DEF Starts
<1>1. UNCHANGED <<need, index, stream, skew, waitingForPingResp, partial>> /\ rounds' \in {rounds, rounds + 1}
  BY DEF ConnectStarts, MQTT_Publish, MQTT_Disconnect, ResendPubrel, buffer
<1>2. pc \in {"tls", "idle", "resume"} /\ ~partial
  BY DEF ConnectStarts, MQTT_Publish, MQTT_Disconnect, ResendPubrel, FrameInv, OutInv
<1>3. Elapse(0, {"call"})
  BY DEF ConnectStarts, MQTT_Publish, MQTT_Disconnect, ResendPubrel
<1>4. age' \in [Timers -> Nat]
  BY <1>3, Elapsed DEF FrameInv, TypeOK
<1>5. PICK what \in Whats : StartSending(what) /\ (pc = "tls" <=> what = "CONNECT")
                            /\ (what = "PUBREL" => pc = "resume")
  BY DEF ConnectStarts, MQTT_Publish, MQTT_Disconnect, ResendPubrel, Whats
<1>6. /\ pc' = "send" /\ sending'.what = what
      /\ sending' \in [what : Whats, left : Seq(Nat)] /\ sending'.left # <<>>
  BY <1>5, Starting
<1>7. TypeOK' /\ OutInv'
  BY <1>1, <1>2, <1>4, <1>6 DEF FrameInv, TypeOK, OutInv, Steps
<1>8. InInv'
  BY <1>1, <1>2, <1>5, <1>6 DEF FrameInv, InInv, Buffering
<1> QED BY <1>7, <1>8 DEF FrameInv

\* A packet has gone out, and the call goes on or returns.
LEMMA FrameSent == FrameInv /\ (Published \/ Disconnected \/ PubrelSent) => FrameInv'
BY NumberFacts DEF Published, Disconnected, PubrelSent, FrameInv, TypeOK, OutInv, InInv, Buffering, Steps, buffer

LEMMA FrameAcknowledged == FrameInv /\ Acknowledged => FrameInv'
<1> SUFFICES ASSUME FrameInv, Acknowledged PROVE FrameInv'
  OBVIOUS
<1>1. age' \in [Timers -> Nat]
  BY Elapsed DEF FrameInv, TypeOK, Acknowledged
<1> QED BY <1>1 DEF Acknowledged, FrameInv, TypeOK, OutInv, InInv, Buffering, Steps, buffer

LEMMA FrameConnectSent == FrameInv /\ ConnectSent => FrameInv'
<1> SUFFICES ASSUME FrameInv, ConnectSent PROVE FrameInv'
  OBVIOUS
<1>1. age' \in [Timers -> Nat]
  BY Elapsed DEF FrameInv, TypeOK, ConnectSent
<1>2. stream = <<>> /\ skew = 0 /\ ~partial
  BY DEF FrameInv, ConnectSent, InInv, OutInv
<1>3. stream' \in {<<>>, <<"CONNACK">>} /\ stream' \in Seq(Kinds)
  <2>1. stream' = stream \/ stream' = <<"CONNACK">>
    BY DEF ConnectSent
  <2>2. <<"CONNACK">> \in Seq(Kinds) /\ <<>> \in Seq(Kinds)
    BY DEF Kinds
  <2> QED BY <1>2, <2>1, <2>2
<1> QED BY <1>1, <1>2, <1>3 DEF ConnectSent, FrameInv, TypeOK, OutInv, InInv, Buffering, Steps

LEMMA FrameExternal ==
  FrameInv /\ (PeerFallsSilent \/ NetworkStalls \/ LinkBreaks \/ Wait \/ Discarded) => FrameInv'
<1>1. ASSUME FrameInv, PeerFallsSilent \/ NetworkStalls \/ LinkBreaks PROVE FrameInv'
  <2>1. UNCHANGED <<pc, sending, need, rounds, index, stream, skew, partial, waitingForPingResp, age>>
    BY <1>1 DEF PeerFallsSilent, NetworkStalls, LinkBreaks, buffer
  <2>2. TypeOK' /\ OutInv'
    BY <1>1, <2>1 DEF FrameInv, TypeOK, OutInv
  <2>3. InInv'
    BY <1>1, <2>1 DEF FrameInv, InInv, Buffering
  <2> QED BY <2>2, <2>3 DEF FrameInv
<1>2. ASSUME FrameInv, Wait PROVE FrameInv'
  <2>1. age' \in [Timers -> Nat]
    BY <1>2, Elapsed DEF FrameInv, TypeOK, Wait
  <2> QED BY <1>2, <2>1 DEF Wait, FrameInv, TypeOK, OutInv, InInv, Buffering, buffer
<1>3. ASSUME FrameInv, Discarded PROVE FrameInv'
  <2>1. Length(stream) \in Nat
    BY <1>3, ComingFacts
  <2>2. age' \in [Timers -> Nat]
    BY <1>3, Elapsed DEF FrameInv, TypeOK, Discarded
  <2> QED BY <1>3, <2>1, <2>2, NumberFacts DEF Discarded, FrameInv, TypeOK, OutInv, InInv, Buffering, Steps, buffer
<1> QED BY <1>1, <1>2, <1>3

\* A packet that comes makes the stream longer, and its first packet stays.
LEMMA Appended ==
  ASSUME stream \in Seq(Kinds), NEW kind \in Kinds, stream' = Append(stream, kind)
  PROVE  /\ stream' \in Seq(Kinds) /\ stream' # <<>>
         /\ Length(stream) <= Length(stream')
         /\ stream # <<>> => Head(stream') = Head(stream)
BY LengthAppend

LEMMA FrameBrokerSends ==
  ASSUME FrameInv, NEW packet \in {"PUBLISH", "BIG"}, BrokerSends(packet)
  PROVE  FrameInv'
<1>1. /\ stream' \in Seq(Kinds) /\ stream' # <<>>
      /\ Length(stream) <= Length(stream') /\ Length(stream) \in Nat /\ Length(stream') \in Nat
      /\ stream # <<>> => Head(stream') = Head(stream)
  <2>1. stream \in Seq(Kinds) /\ packet \in Kinds /\ stream' = Append(stream, packet)
    BY DEF FrameInv, TypeOK, BrokerSends, Kinds
  <2>2. /\ stream' \in Seq(Kinds) /\ stream' # <<>>
        /\ Length(stream) <= Length(stream') /\ (stream # <<>> => Head(stream') = Head(stream))
    BY <2>1, Appended
  <2> QED BY <2>1, <2>2, BytesFinite
<1>2. UNCHANGED <<pc, sending, need, rounds, index, skew, partial, waitingForPingResp, age>>
  BY DEF BrokerSends
<1>3. ~Connecting
  BY DEF BrokerSends
<1>4. TypeOK' /\ OutInv'
  BY <1>1, <1>2 DEF FrameInv, TypeOK, OutInv
<1>5. InInv'
  BY <1>1, <1>2, <1>3 DEF FrameInv, TypeOK, InInv, Buffering, Connecting
<1> QED BY <1>4, <1>5 DEF FrameInv

LEMMA FramePing == FrameInv /\ MQTT_Ping => FrameInv'
<1> SUFFICES ASSUME FrameInv, MQTT_Ping PROVE FrameInv'
  OBVIOUS
<1>1. stream' \in Seq(Kinds) /\ Length(stream) <= Length(stream') /\ Length(stream) \in Nat /\ Length(stream') \in Nat
  <2>1. stream \in Seq(Kinds) /\ "PINGRESP" \in Kinds
    BY DEF FrameInv, TypeOK, Kinds
  <2>2. CASE stream' = Append(stream, "PINGRESP")
    BY <2>1, <2>2, Appended, BytesFinite
  <2>3. CASE stream' = stream
    BY <2>1, <2>3, BytesFinite
  <2> QED BY <2>2, <2>3 DEF MQTT_Ping
<1>2. UNCHANGED <<sending, need, rounds, index, skew, partial>> /\ pc' = "ponder" /\ pc = "send"
      /\ sending.what = "PINGREQ" /\ sending.left = <<>> /\ waitingForPingResp' = TRUE
  BY DEF MQTT_Ping
<1>3. age' \in [Timers -> Nat]
  BY TimersAre DEF FrameInv, TypeOK, MQTT_Ping
<1> QED BY <1>1, <1>2, <1>3 DEF FrameInv, TypeOK, OutInv, InInv, Buffering, Steps

LEMMA FrameRecvExact == FrameInv /\ recvExact => FrameInv'
<1> SUFFICES ASSUME FrameInv, recvExact PROVE FrameInv'
  OBVIOUS
<1>1. UNCHANGED <<sending, rounds, index, partial, waitingForPingResp>>
      /\ pc \in {"connack", "discard"} /\ need > 0 /\ need \in Nat
  BY DEF recvExact, FrameInv, TypeOK
<1>2. CASE pc' = "over" /\ UNCHANGED <<need, stream, skew, age>>
  BY <1>1, <1>2 DEF FrameInv, TypeOK, OutInv, InInv, Buffering, Steps
<1>3. CASE ~(pc' = "over" /\ UNCHANGED <<need, stream, skew, age>>)
  <2>1. PICK n \in espTlsTransportRecv(need) : \E d \in Duration(n) :
          /\ Elapse(d, Heard(n) \cup IF n > 0 THEN {"call"} ELSE {})
          /\ need' = need - n /\ Consume(n)
          /\ pc' = IF n = 0 /\ age.call + d >= PollTimeout THEN "over" ELSE pc
    BY <1>3 DEF recvExact
  <2>2. PICK d \in Duration(n) : Elapse(d, Heard(n) \cup IF n > 0 THEN {"call"} ELSE {})
    BY <2>1
  <2>3. age' \in [Timers -> Nat]
    BY <2>2, Elapsed, Durations DEF FrameInv, TypeOK
  <2>4. n \in Nat /\ n <= need
    BY <1>1, ComingFacts, Received
  <2>5. n \in Nat /\ n <= need /\ need' = need - n /\ pc' \in {pc, "over"}
    BY <2>1, <2>4
  <2>6. stream' \in Seq(Kinds) /\ skew' \in Nat
    BY <2>1, <2>5, Consumed DEF FrameInv, TypeOK
  <2>7. TypeOK' /\ OutInv'
    BY <1>1, <2>3, <2>5, <2>6 DEF FrameInv, TypeOK, OutInv, Steps
  <2>8. CASE pc' = "over"
    BY <2>7, <2>8 DEF FrameInv, InInv, Buffering
  <2>9. CASE pc' = pc /\ pc = "connack"
    <3>0. stream = <<"CONNACK">> /\ skew + need = 4
      BY <1>1, <2>9 DEF FrameInv, InInv
    <3>1. skew + need = 4 /\ stream # <<>> /\ Head(stream) = "CONNACK" /\ Tail(stream) = <<>>
      BY <3>0, ConnackAlone
    <3>2. skew \in Nat /\ Size(Head(stream)) = 4
      BY <3>1, SizeFacts DEF FrameInv, TypeOK
    <3>3. \/ need' > 0 /\ stream' = stream /\ skew' + need' = 4
          \/ need' = 0 /\ stream' = <<>> /\ skew' = 0
      <4>1. Consume(n)
        BY <2>1
      <4>2. CASE skew + n >= 4
        BY <1>1, <2>5, <3>1, <3>2, <4>1, <4>2 DEF Consume
      <4>3. CASE ~(skew + n >= 4)
        BY <1>1, <2>5, <3>1, <3>2, <4>1, <4>3 DEF Consume
      <4> QED BY <4>2, <4>3
    <3> QED BY <2>7, <2>9, <3>0, <3>3 DEF FrameInv, InInv, Buffering
  <2>10. CASE pc' = pc /\ pc = "discard"
    <3>1. stream # <<>> /\ Head(stream) = "BIG" /\ skew + need = BufferSize + 1 /\ index = 0
      BY <1>1, <2>10 DEF FrameInv, InInv
    <3>2. skew \in Nat /\ Size(Head(stream)) = BufferSize + 1
      BY <3>1, SizeFacts DEF FrameInv, TypeOK
    <3>3. \/ need' > 0 /\ stream' = stream /\ skew' + need' = BufferSize + 1
          \/ need' = 0 /\ skew' = 0
      <4>1. Consume(n)
        BY <2>1
      <4>2. CASE skew + n >= BufferSize + 1
        BY <1>1, <2>5, <3>1, <3>2, <4>1, <4>2, NumberFacts DEF Consume
      <4>3. CASE ~(skew + n >= BufferSize + 1)
        BY <1>1, <2>5, <3>1, <3>2, <4>1, <4>3, NumberFacts DEF Consume
      <4> QED BY <4>2, <4>3
    <3> QED BY <1>1, <2>7, <2>10, <3>1, <3>3 DEF FrameInv, InInv, Buffering
  <2> QED BY <1>1, <2>5, <2>8, <2>9, <2>10
<1> QED BY <1>2, <1>3

\* A byte of a CONNACK that is not its last.
LEMMA ConnackByte ==
  ASSUME stream = <<"CONNACK">>, skew \in {0, 1}, NEW n \in {0, 1}, Consume(n)
  PROVE  stream' = stream /\ skew' = skew + n
<1>1. Size(Head(stream)) = 4
  BY SizeFacts
<1> QED BY <1>1 DEF Consume

LEMMA FrameAwaitType == FrameInv /\ AwaitType => FrameInv'
<1> SUFFICES ASSUME FrameInv, AwaitType PROVE FrameInv'
  OBVIOUS
<1>1. UNCHANGED <<sending, need, index, partial, waitingForPingResp>> /\ pc \in {"type", "count"}
  BY DEF AwaitType
<1>2. CASE pc' = "over" /\ UNCHANGED <<stream, skew, rounds, age>>
  BY <1>1, <1>2 DEF FrameInv, TypeOK, OutInv, InInv, Buffering, Steps
<1>3. CASE ~(pc' = "over" /\ UNCHANGED <<stream, skew, rounds, age>>)
  <2>1. PICK n \in espTlsTransportRecv(1) : \E d \in Duration(n) :
          /\ Consume(n) /\ Elapse(d, Heard(n))
          /\ rounds' = IF n = 0 /\ pc = "count" THEN rounds + 1 ELSE rounds
          /\ pc' = CASE n = 1 -> "length"
                     [] n = 0 /\ pc = "type" /\ age.call + d < ConnackTimeout -> "type"
                     [] n = 0 /\ pc = "count" /\ rounds < ConnackRetries -> "count"
                     [] OTHER -> "over"
    BY <1>3 DEF AwaitType
  <2>2. PICK d \in Duration(n) :
          /\ Elapse(d, Heard(n))
          /\ pc' = CASE n = 1 -> "length"
                     [] n = 0 /\ pc = "type" /\ age.call + d < ConnackTimeout -> "type"
                     [] n = 0 /\ pc = "count" /\ rounds < ConnackRetries -> "count"
                     [] OTHER -> "over"
    BY <2>1
  <2>3. age' \in [Timers -> Nat]
    BY <2>2, Elapsed, Durations DEF FrameInv, TypeOK
  <2>4. Coming = Length(stream) - skew /\ Coming \in Nat
    BY <1>1, ComingFacts
  <2>5. n \in {0, 1} /\ n <= Coming
    <3>1. n \in Nat /\ n <= 1 /\ n <= Coming
      BY <2>4, Received
    <3> QED BY <3>1
  <2>6. stream' \in Seq(Kinds) /\ skew' \in Nat
    BY <2>1, <2>5, Consumed DEF FrameInv, TypeOK
  <2>7. rounds' \in Nat
    BY <2>1 DEF FrameInv, TypeOK
  <2>8. \/ n = 1 /\ pc' = "length"
        \/ n = 0 /\ pc' \in {"type", "count"}
        \/ pc' = "over"
    BY <2>2, <2>5
  <2>9. TypeOK' /\ OutInv'
    BY <1>1, <2>3, <2>6, <2>7, <2>8 DEF FrameInv, TypeOK, OutInv, Steps
  <2>10. stream \in {<<>>, <<"CONNACK">>} /\ skew = 0
    BY <1>1 DEF FrameInv, InInv
  <2>11. CASE n = 1 /\ pc' = "length"
    <3>1. stream = <<"CONNACK">>
      BY <2>4, <2>5, <2>10, <2>11, LengthEmpty
    <3>2. stream' = stream /\ skew' = 1
      BY <2>1, <2>5, <2>10, <2>11, <3>1, ConnackByte
    <3> QED BY <2>9, <2>11, <3>1, <3>2 DEF FrameInv, InInv, Buffering
  <2>12. CASE n = 0 /\ pc' \in {"type", "count"}
    <3>1. stream' = stream /\ skew' = 0
      <4>1. CASE stream = <<"CONNACK">>
        BY <2>1, <2>5, <2>10, <2>12, <4>1, ConnackByte
      <4>2. CASE stream = <<>>
        BY <2>1, <2>10, <2>12, <4>2 DEF Consume
      <4> QED BY <2>10, <4>1, <4>2
    <3> QED BY <2>9, <2>10, <2>12, <3>1 DEF FrameInv, InInv, Buffering
  <2>13. CASE pc' = "over"
    BY <2>9, <2>13 DEF FrameInv, InInv, Buffering
  <2> QED BY <2>8, <2>11, <2>12, <2>13
<1> QED BY <1>2, <1>3

LEMMA FrameAwaitLength == FrameInv /\ AwaitLength => FrameInv'
<1> SUFFICES ASSUME FrameInv, AwaitLength PROVE FrameInv'
  OBVIOUS
<1>1. UNCHANGED <<sending, rounds, index, partial, waitingForPingResp>> /\ pc = "length"
  BY DEF AwaitLength
<1>2. stream = <<"CONNACK">> /\ skew = 1
  BY <1>1 DEF FrameInv, InInv
<1>3. CASE pc' = "over" /\ UNCHANGED <<stream, skew, need, age>>
  BY <1>1, <1>3 DEF FrameInv, TypeOK, OutInv, InInv, Buffering, Steps
<1>4. CASE ~(pc' = "over" /\ UNCHANGED <<stream, skew, need, age>>)
  <2>1. PICK n \in espTlsTransportRecv(1) : \E d \in Duration(n) :
          /\ Consume(n) /\ Elapse(d, Heard(n) \cup {"call"})
          /\ need' = Size("CONNACK") - HeaderLength
          /\ pc' = IF n = 1 THEN "connack" ELSE "over"
    BY <1>4 DEF AwaitLength
  <2>2. age' \in [Timers -> Nat]
    <3>1. PICK d \in Duration(n) : Elapse(d, Heard(n) \cup {"call"})
      BY <2>1
    <3> QED BY <3>1, Elapsed, Durations DEF FrameInv, TypeOK
  <2>3. n \in {0, 1}
    <3>1. n \in Nat /\ n <= 1
      BY ComingFacts, Received
    <3> QED BY <3>1
  <2>4. need' = 2 /\ stream' = stream /\ skew' = 1 + n
    BY <1>2, <2>1, <2>3, ConnackByte, SizeFacts DEF HeaderLength
  <2>5. TypeOK' /\ OutInv'
    BY <1>1, <2>1, <2>2, <2>3, <2>4 DEF FrameInv, TypeOK, OutInv, Steps
  <2>6. InInv'
    BY <1>2, <2>1, <2>3, <2>4 DEF InInv, Buffering
  <2> QED BY <2>5, <2>6 DEF FrameInv
<1> QED BY <1>3, <1>4

LEMMA FrameResumption == FrameInv /\ handleSessionResumption => FrameInv'
<1> SUFFICES ASSUME FrameInv, handleSessionResumption PROVE FrameInv'
  OBVIOUS
<1>1. UNCHANGED <<sending, need, stream, skew, partial, waitingForPingResp, age>> /\ pc = "connack" /\ need = 0
  BY DEF handleSessionResumption
<1>2. stream = <<>> /\ skew = 0 /\ ~partial
  BY <1>1 DEF FrameInv, InInv, OutInv
<1>3. CASE pc' = "resume" /\ rounds' = 0 /\ index' = 0
  <2>1. TypeOK'
    BY <1>1, <1>3 DEF FrameInv, TypeOK, Steps
  <2>2. Length(stream') = 0 /\ index' < BufferSize /\ index' <= Length(stream')
    BY <1>1, <1>2, <1>3, LengthEmpty, NumberFacts
  <2> QED BY <1>1, <1>2, <1>3, <2>1, <2>2 DEF FrameInv, OutInv, InInv, Buffering
<1>4. CASE pc' = "over" /\ UNCHANGED <<rounds, index>>
  BY <1>1, <1>2, <1>4 DEF FrameInv, TypeOK, OutInv, InInv, Buffering, Steps
<1> QED BY <1>3, <1>4 DEF handleSessionResumption

LEMMA FrameConnected == FrameInv /\ Connected => FrameInv'
<1> SUFFICES ASSUME FrameInv, Connected PROVE FrameInv'
  OBVIOUS
<1>1. age' \in [Timers -> Nat]
  BY Elapsed DEF FrameInv, TypeOK, Connected
<1> QED BY <1>1 DEF Connected, FrameInv, TypeOK, OutInv, InInv, Buffering, Steps, buffer

\* What a look at the buffer comes to: more bytes are needed, or its first
\* packet can never be there and is discarded, or it is handled.
Waits(buffered, d, restart) ==
  /\ pc' = "idle" /\ index' = buffered /\ index' < BufferSize /\ Elapse(d, restart)
  /\ UNCHANGED <<sending, need, stream, skew, waitingForPingResp>>
  /\ ~(buffered >= HeaderLength /\ Size(Head(stream)) <= buffered)
Discards(buffered, d, restart) ==
  /\ pc' = "discard" /\ index' = 0 /\ Elapse(d, restart \cup {"call"})
  /\ stream # <<>> /\ Head(stream) = "BIG"
  /\ skew' = buffered /\ need' = BufferSize + 1 - buffered
  /\ UNCHANGED <<sending, stream, waitingForPingResp>>
Handles(buffered, d, restart) ==
  /\ stream # <<>> /\ stream' = Tail(stream) /\ skew' = 0
  /\ Size(Head(stream)) \in HeaderLength..buffered
  /\ index' = buffered - Size(Head(stream))
  /\ \/ pc' = "idle" /\ Elapse(d, restart \cup {"rx"}) /\ UNCHANGED sending
     \/ StartSending("ACK") /\ Elapse(d, restart \cup {"call"})
     \/ pc' = "over" /\ Elapse(d, restart) /\ UNCHANGED sending
  /\ waitingForPingResp' \in BOOLEAN
  /\ UNCHANGED need

LEMMA Iteration ==
  ASSUME FrameInv, Buffering, NEW buffered \in Nat, buffered <= Length(stream), buffered <= BufferSize,
         NEW d, NEW restart, FinishIteration(buffered, d, restart)
  PROVE  \/ Waits(buffered, d, restart)
         \/ Discards(buffered, d, restart)
         \/ Handles(buffered, d, restart)
<1>1. stream \in Seq(Kinds) /\ skew = 0 /\ waitingForPingResp \in BOOLEAN
  BY DEF FrameInv, TypeOK, InInv
<1>2. CASE buffered < HeaderLength
  BY <1>2, NumberFacts DEF FinishIteration, NeedMoreBytes, Waits, HeaderLength
<1>3. CASE ~(buffered < HeaderLength)
  <2> DEFINE length == Size(Head(stream))
  <2>1. stream # <<>>
    BY <1>3, LengthEmpty DEF HeaderLength
  <2>2. Head(stream) \in Kinds /\ length \in 2..(BufferSize + 1)
    BY <1>1, <2>1, HeadTailProperties, SizeFacts
  <2>3. CASE length > BufferSize
    <3>1. Head(stream) = "BIG" /\ length = BufferSize + 1
      BY <2>2, <2>3, SizeFacts
    <3>2. discardStoredPacket(length, buffered, d, restart)
      BY <1>3, <2>3 DEF FinishIteration
    <3>3. stream' = stream /\ skew' = buffered
      BY <1>1, <3>1, <3>2, NumberFacts DEF discardStoredPacket, Consume
    <3>5. need' = BufferSize + 1 - buffered
      BY <3>1, <3>2, NumberFacts DEF discardStoredPacket
    <3>6. pc' = "discard" /\ index' = 0 /\ Elapse(d, restart \cup {"call"})
          /\ UNCHANGED <<sending, waitingForPingResp>>
      BY <3>2 DEF discardStoredPacket
    <3>4. Discards(buffered, d, restart)
      BY <2>1, <3>1, <3>3, <3>5, <3>6, Zenon DEF Discards
    <3> QED BY <3>4
  <2>4. CASE ~(length > BufferSize) /\ length > buffered
    <3>1. NeedMoreBytes(buffered, d, restart)
      BY <1>3, <2>4 DEF FinishIteration
    <3> QED BY <2>2, <2>4, <3>1, NumberFacts DEF NeedMoreBytes, Waits
  <2>5. CASE ~(length > BufferSize) /\ ~(length > buffered)
    <3>1. HandlePacket(length, buffered, d, restart)
      BY <1>3, <2>5 DEF FinishIteration
    <3>2. stream' = Tail(stream) /\ skew' = 0
      BY <1>1, <2>1, <2>2, <3>1 DEF HandlePacket, Consume
    <3>3. length \in HeaderLength..buffered
      BY <2>2, <2>5 DEF HeaderLength
    <3> QED BY <1>1, <2>1, <3>1, <3>2, <3>3 DEF HandlePacket, Handles
  <2> QED BY <2>3, <2>4, <2>5
<1> QED BY <1>2, <1>3

LEMMA FrameIteration ==
  ASSUME FrameInv, pc \in {"idle", "ponder"}, NEW buffered \in Nat,
         buffered <= Length(stream), buffered <= BufferSize,
         NEW d \in {0, 1}, NEW restart, FinishIteration(buffered, d, restart),
         UNCHANGED <<rounds, partial>>
  PROVE  FrameInv'
<1>1. Buffering /\ stream \in Seq(Kinds) /\ skew = 0 /\ ~partial /\ Length(stream) \in Nat
  BY ComingFacts DEF Buffering, FrameInv, TypeOK, InInv, OutInv
<1>2. CASE Waits(buffered, d, restart)
  <2>1. age' \in [Timers -> Nat]
    BY <1>2, Elapsed DEF Waits, FrameInv, TypeOK
  <2> QED BY <1>1, <1>2, <2>1 DEF Waits, FrameInv, TypeOK, OutInv, InInv, Buffering, Steps
<1>3. CASE Discards(buffered, d, restart)
  <2>1. age' \in [Timers -> Nat]
    BY <1>3, Elapsed DEF Discards, FrameInv, TypeOK
  <2>2. need' \in Nat /\ need' > 0 /\ skew' + need' = BufferSize + 1
    BY <1>3, NumberFacts DEF Discards
  <2> QED BY <1>1, <1>3, <2>1, <2>2 DEF Discards, FrameInv, TypeOK, OutInv, InInv, Buffering, Steps
<1>4. CASE Handles(buffered, d, restart)
  <2>1. age' \in [Timers -> Nat]
    BY <1>4, Elapsed DEF Handles, FrameInv, TypeOK
  <2>2. Length(stream) = Size(Head(stream)) + Length(Tail(stream)) /\ Tail(stream) \in Seq(Kinds)
    BY <1>1, <1>4, LengthTail, HeadTailProperties DEF Handles
  <2>3. Length(Tail(stream)) \in Nat
    BY <2>2, BytesFinite
  <2>4. index' \in Nat /\ index' < BufferSize /\ index' <= Length(stream')
    BY <1>1, <1>4, <2>2, <2>3, NumberFacts DEF Handles, HeaderLength
  <2>5. CASE pc' \in {"idle", "over"} /\ UNCHANGED sending
    BY <1>1, <1>4, <2>1, <2>2, <2>4, <2>5 DEF Handles, FrameInv, TypeOK, OutInv, InInv, Buffering, Steps
  <2>6. CASE StartSending("ACK")
    <3>1. /\ pc' = "send" /\ sending'.what = "ACK"
          /\ sending' \in [what : Whats, left : Seq(Nat)] /\ sending'.left # <<>>
      BY <2>6, Starting DEF Whats
    <3> QED BY <1>1, <1>4, <2>1, <2>2, <2>4, <3>1 DEF Handles, FrameInv, TypeOK, OutInv, InInv, Buffering, Steps
  <2> QED BY <1>4, <2>5, <2>6 DEF Handles
<1> QED BY <1>1, <1>2, <1>3, <1>4, Iteration

LEMMA FrameAfterPing == FrameInv /\ IterationAfterPing => FrameInv'
<1> SUFFICES ASSUME FrameInv, IterationAfterPing PROVE FrameInv'
  OBVIOUS
<1>1. pc = "ponder" /\ FinishIteration(index, 0, {"gap"}) /\ UNCHANGED <<rounds, partial>>
  BY DEF IterationAfterPing
<1>2. index \in Nat /\ index <= Length(stream) /\ index <= BufferSize
  BY <1>1, NumberFacts DEF FrameInv, TypeOK, InInv, Buffering
<1> QED BY <1>1, <1>2, FrameIteration

\* The ways an iteration of MQTT_ProcessLoop can go.
IterationFails == /\ pc' = "over" /\ UNCHANGED <<sending, need, index, stream, skew, waitingForPingResp>>
                  /\ age' \in [Timers -> Nat]
Iterates(n, d) ==
  /\ n <= BufferSize - index /\ n <= Length(stream) - index
  /\ n = 0 => d = 1
  /\ n > 0 \/ handleKeepAlive(d) = "nothing"
  /\ FinishIteration(index + n, d, {"gap"} \cup Heard(n))
Pings ==
  /\ handleKeepAlive(1) = "ping" /\ ~waitingForPingResp
  /\ StartSending("PINGREQ") /\ Elapse(1, {"gap", "call"})
  /\ UNCHANGED <<need, index, stream, skew, waitingForPingResp>>

LEMMA IterationCases ==
  ASSUME FrameInv, receiveSingleIteration
  PROVE  /\ pc = "idle" /\ UNCHANGED <<rounds, partial>>
         /\ \/ IterationFails
            \/ \E n \in Nat : \E d \in {0, 1} : Iterates(n, d)
            \/ Pings
<1>1. pc = "idle" /\ UNCHANGED <<rounds, partial>>
  BY DEF receiveSingleIteration
<1>2. age \in [Timers -> Nat] /\ index \in Nat /\ index < BufferSize
  BY <1>1 DEF FrameInv, TypeOK, InInv, Buffering
<1>3. CASE pc' = "over" /\ UNCHANGED <<sending, need, buffer, waitingForPingResp, age>>
  BY <1>1, <1>2, <1>3 DEF buffer, IterationFails, FrameInv, TypeOK
<1>4. CASE ~(pc' = "over" /\ UNCHANGED <<sending, need, buffer, waitingForPingResp, age>>)
  <2>1. PICK n \in espTlsTransportRecv(BufferSize - index) : \E d \in Duration(n) :
         CASE n > 0 \/ handleKeepAlive(d) = "nothing" ->
                FinishIteration(index + n, d, {"gap"} \cup Heard(n))
           [] n = 0 /\ handleKeepAlive(d) = "ping" ->
                StartSending("PINGREQ") /\ Elapse(d, {"gap", "call"})
                /\ UNCHANGED <<need, buffer, waitingForPingResp>>
           [] n = 0 /\ handleKeepAlive(d) = "KeepAliveTimeout" ->
                pc' = "over" /\ Elapse(d, {"gap"}) /\ UNCHANGED <<sending, need, buffer, waitingForPingResp>>
    BY <1>4 DEF receiveSingleIteration
  <2>2. PICK d \in Duration(n) :
         CASE n > 0 \/ handleKeepAlive(d) = "nothing" ->
                FinishIteration(index + n, d, {"gap"} \cup Heard(n))
           [] n = 0 /\ handleKeepAlive(d) = "ping" ->
                StartSending("PINGREQ") /\ Elapse(d, {"gap", "call"})
                /\ UNCHANGED <<need, buffer, waitingForPingResp>>
           [] n = 0 /\ handleKeepAlive(d) = "KeepAliveTimeout" ->
                pc' = "over" /\ Elapse(d, {"gap"}) /\ UNCHANGED <<sending, need, buffer, waitingForPingResp>>
    BY <2>1
  <2>3. n \in Nat /\ n <= BufferSize - index /\ n <= Length(stream) - index
    <3>1. Coming = Length(stream) - index /\ Coming \in Nat
      BY <1>1, ComingFacts DEF Buffering
    <3>2. BufferSize - index \in Nat
      BY <1>2, NumberFacts
    <3> QED BY <3>1, <3>2, Received
  <2>4. d \in {0, 1} /\ (n = 0 => d = 1)
    BY Durations
  <2>5. handleKeepAlive(d) \in {"nothing", "ping", "KeepAliveTimeout"}
        /\ (handleKeepAlive(d) = "ping" => ~waitingForPingResp)
    BY DEF handleKeepAlive
  <2>6. CASE n > 0 \/ handleKeepAlive(d) = "nothing"
    <3>2. FinishIteration(index + n, d, {"gap"} \cup Heard(n))
      <4>1. ~(n = 0 /\ handleKeepAlive(d) = "ping") /\ ~(n = 0 /\ handleKeepAlive(d) = "KeepAliveTimeout")
        BY <2>3, <2>6
      <4> QED BY <2>2, <2>6, <4>1, Zenon
    <3>1. Iterates(n, d)
      BY <2>3, <2>4, <2>6, <3>2, Zenon DEF Iterates
    <3> QED BY <1>1, <2>3, <2>4, <3>1
  <2>7. CASE n = 0 /\ handleKeepAlive(d) = "ping"
    <3>1. Pings
      BY <2>2, <2>4, <2>5, <2>7 DEF Pings, buffer
    <3> QED BY <1>1, <3>1
  <2>8. CASE n = 0 /\ handleKeepAlive(d) = "KeepAliveTimeout"
    <3>1. pc' = "over" /\ Elapse(d, {"gap"}) /\ UNCHANGED <<sending, need, buffer, waitingForPingResp>>
      BY <2>2, <2>8
    <3>2. age' \in [Timers -> Nat]
      BY <1>2, <2>4, <3>1, Elapsed
    <3>3. IterationFails
      BY <3>1, <3>2 DEF IterationFails, buffer
    <3> QED BY <1>1, <3>3
  <2>9. n > 0 \/ n = 0
    BY <2>3
  <2> QED BY <2>5, <2>6, <2>7, <2>8, <2>9
<1> QED BY <1>3, <1>4

LEMMA FrameSingleIteration == FrameInv /\ receiveSingleIteration => FrameInv'
<1> SUFFICES ASSUME FrameInv, receiveSingleIteration PROVE FrameInv'
  OBVIOUS
<1>1. pc = "idle" /\ UNCHANGED <<rounds, partial>> /\ ~partial
  BY IterationCases DEF FrameInv, OutInv
<1>2. CASE IterationFails
  BY <1>1, <1>2 DEF IterationFails, FrameInv, TypeOK, OutInv, InInv, Buffering, Steps
<1>3. ASSUME NEW n \in Nat, NEW d \in {0, 1}, Iterates(n, d)
      PROVE  FrameInv'
  <2>1. index + n \in Nat /\ index + n <= Length(stream) /\ index + n <= BufferSize
    BY <1>3, ComingFacts, NumberFacts DEF FrameInv, TypeOK, Iterates
  <2>2. FinishIteration(index + n, d, {"gap"} \cup Heard(n))
    BY <1>3 DEF Iterates
  <2> QED BY <1>1, <2>1, <2>2, FrameIteration
<1>4. CASE Pings
  <2>0. StartSending("PINGREQ") /\ Elapse(1, {"gap", "call"})
        /\ UNCHANGED <<need, index, stream, skew, waitingForPingResp>>
    BY <1>4 DEF Pings
  <2>1. age' \in [Timers -> Nat]
    BY <2>0, Elapsed DEF FrameInv, TypeOK
  <2>2. /\ pc' = "send" /\ sending'.what = "PINGREQ"
        /\ sending' \in [what : Whats, left : Seq(Nat)] /\ sending'.left # <<>>
    BY <2>0, Starting DEF Whats
  <2> QED BY <1>1, <2>0, <2>1, <2>2 DEF FrameInv, TypeOK, OutInv, InInv, Buffering, Steps
<1> QED BY <1>2, <1>3, <1>4, IterationCases

LEMMA FrameNext == FrameInv /\ [Next]_vars => FrameInv'
<1>1. FrameInv /\ UNCHANGED vars => FrameInv'
  BY DEF vars, link, buffer, FrameInv, TypeOK, OutInv, InInv, Buffering
<1>2. \A packet \in {"PUBLISH", "BIG"} : FrameInv /\ BrokerSends(packet) => FrameInv'
  BY FrameBrokerSends
<1> QED BY <1>1, <1>2, FrameTlsConnect, FrameTlsDisconnect, FrameSendChunk, FrameSends, FrameSent,
           FrameAcknowledged, FrameConnectSent, FrameExternal, FramePing, FrameRecvExact, FrameAwaitType,
           FrameAwaitLength, FrameResumption, FrameConnected, FrameAfterPing, FrameSingleIteration,
           Zenon DEF Next, InCall, receiveConnack, Starts

\* After every call that reported no error what is in the buffer starts where
\* a packet does, recv can be asked for a byte, and what has gone out is whole
\* packets: for every size of the buffer, every packet and every division of
\* the bytes among the calls of the transport.
THEOREM BuffersHoldWholePackets == Spec => []Framed
<1>1. FrameInv => Framed
  <2> SUFFICES ASSUME FrameInv, pc = "idle"
               PROVE  skew = 0 /\ index < BufferSize /\ Coming >= 0 /\ ~partial
    BY DEF Framed
  <2>1. Buffering
    BY DEF Buffering
  <2> QED BY <2>1, ComingFacts DEF FrameInv, OutInv, InInv
<1> QED BY <1>1, FrameInit, FrameNext, PTL DEF Spec

-----------------------------------------------------------------------------
(* A silent broker *)

LEMMA AgesAreNat ==
  ASSUME age \in [Timers -> Nat]
  PROVE  /\ age.silent \in Nat /\ age.rx \in Nat /\ age.ping \in Nat
         /\ age.gap \in Nat /\ age.call \in Nat /\ age.tx \in Nat
BY TimersAre

\* The timers that the keep-alive goes by, when only others are read anew.
LEMMA Aged ==
  ASSUME age \in [Timers -> Nat], NEW d \in {0, 1},
         NEW restart \in SUBSET {"tx", "call", "gap"}, Elapse(d, restart)
  PROVE  /\ age' \in [Timers -> Nat]
         /\ age'.silent <= age.silent + d
         /\ age'.rx = Older("rx", d) /\ age'.ping = Older("ping", d)
         /\ age'.rx <= RxWait \/ age'.rx <= age.rx + d
         /\ age'.rx < RxWait => age'.rx = age.rx + d
         /\ age'.ping <= PingTimeout => age'.ping = age.ping + d
         /\ "gap" \in restart => age'.gap = 0
         /\ "gap" \notin restart => age'.gap = IF age.gap + d > MaxGap + 1 THEN MaxGap + 1 ELSE age.gap + d
         /\ "call" \in restart => age'.call = 0
         /\ "call" \notin restart /\ age.call <= SendTimeout => age'.call = age.call + d
<1>1. age' \in [Timers -> Nat]
  BY Elapsed
<1>2. /\ age.silent \in Nat /\ age.rx \in Nat /\ age.ping \in Nat
      /\ age.gap \in Nat /\ age.call \in Nat
      /\ age'.silent \in Nat /\ age'.rx \in Nat /\ age'.ping \in Nat
      /\ age'.gap \in Nat /\ age'.call \in Nat
  BY <1>1, TimersAre
<1>3. /\ \A t \in Timers \cap restart : age'[t] = 0
      /\ \A t \in Timers \ restart :
           /\ age'[t] = Older(t, d) /\ age'[t] <= age[t] + d
           /\ age[t] + d <= AgeCap[t] \/ age'[t] < AgeCap[t] => age'[t] = age[t] + d
           /\ age[t] + d > AgeCap[t] => age'[t] = AgeCap[t]
  BY Elapsed
<1>4. "silent" \notin restart /\ "rx" \notin restart /\ "ping" \notin restart
  OBVIOUS
<1>5. age'.silent <= age.silent + d
  BY <1>3, <1>4, TimersAre
<1>6. /\ age'.rx = Older("rx", d)
      /\ age'.rx <= age.rx + d
      /\ age'.rx < RxWait => age'.rx = age.rx + d
  BY <1>3, <1>4, TimersAre
<1>7. /\ age'.ping = Older("ping", d)
      /\ age'.ping < PingTimeout + 1 => age'.ping = age.ping + d
  BY <1>3, <1>4, TimersAre
<1>8. /\ "gap" \in restart => age'.gap = 0
      /\ "gap" \notin restart /\ age.gap + d <= MaxGap + 1 => age'.gap = age.gap + d
      /\ "gap" \notin restart /\ age.gap + d > MaxGap + 1 => age'.gap = MaxGap + 1
  BY <1>3, TimersAre
<1>9. /\ "call" \in restart => age'.call = 0
      /\ "call" \notin restart /\ age.call + d <= AgeCap.call => age'.call = age.call + d
  BY <1>3, TimersAre
<1> QED BY <1>1, <1>2, <1>5, <1>6, <1>7, <1>8, <1>9, TimersAre, NumberFacts

LEMMA LateFacts ==
  ASSUME age \in [Timers -> Nat]
  PROVE  /\ Late \in Nat
         /\ pc # "send" => Late <= MaxGap + SendTime
BY AgesAreNat, NumberFacts DEF Late

LEMMA PastNow == FrameInv /\ Buffering => Past(index) \in Nat /\ Past(index) <= Past(0)
BY PastFacts, NumberFacts DEF FrameInv, TypeOK, InInv

\* Where there is nothing to wait for.
Elsewhere == \/ pc \in {"closed", "tls", "type", "count", "length", "over"}
             \/ pc \in {"discard", "connack"} /\ need # 0
LEMMA SilenceElsewhere == Elsewhere => SilenceInv
BY DEF SilenceInv, Between, Elsewhere

\* Just after the task has heard something or made room in the buffer.
LEMMA SilenceFresh ==
  FrameInv /\ pc = "idle" /\ age.silent <= Past(index) => SilenceInv
<1> SUFFICES ASSUME FrameInv, pc = "idle", age.silent <= Past(index) PROVE SilenceInv
  OBVIOUS
<1>1. Past(index) \in Nat
  BY PastNow DEF Buffering
<1>2. Late \in Nat /\ age.silent \in Nat /\ age.rx \in Nat /\ age.ping \in Nat
  BY LateFacts, AgesAreNat DEF FrameInv, TypeOK
<1>3. ReceivedInv /\ BetweenInv
  BY <1>1, <1>2, NumberFacts, QuietFacts DEF ReceivedInv, BetweenInv
<1> QED BY <1>3 DEF SilenceInv, Between

LEMMA SilenceInit == Init => SilenceInv
BY DEF Init, SilenceInv, Between

LEMMA SilenceQuiet ==
  xTlsConnect \/ xTlsDisconnect \/ Disconnected \/ ConnectSent => SilenceInv'
<1>1. ASSUME xTlsConnect \/ xTlsDisconnect \/ Disconnected \/ ConnectSent
      PROVE  pc' \in {"closed", "tls", "type", "count", "over"}
  BY <1>1 DEF xTlsConnect, xTlsDisconnect, Disconnected, ConnectSent
<1>2. Elsewhere' => SilenceInv'
  BY SilenceElsewhere, PTL
<1> QED BY <1>1, <1>2 DEF Elsewhere

\* What the invariant says is kept when the parts it is about are.
LEMMA SilenceSame ==
  ASSUME SilenceInv,
         UNCHANGED <<pc, sending, need, rounds, index, waitingForPingResp, age>>,
         Complete' => Complete
  PROVE  SilenceInv'
<1>1. Past(index)' = Past(index) /\ Late' = Late /\ Spent' = Spent
  BY DEF Past, Late, Spent
<1>2. ReceivedInv' = ReceivedInv /\ (BetweenInv => BetweenInv') /\ (PingingInv => PingingInv')
      /\ (PingedInv => PingedInv') /\ Between' = Between /\ AckingInv' = AckingInv
      /\ ResumingInv' = ResumingInv /\ ResendingInv' = ResendingInv
  BY <1>1 DEF ReceivedInv, BetweenInv, PingingInv, PingedInv, Between, AckingInv, ResumingInv, ResendingInv
<1> QED BY <1>2 DEF SilenceInv

LEMMA SilenceExternal ==
  SilenceInv /\ (PeerFallsSilent \/ NetworkStalls \/ LinkBreaks \/ UNCHANGED vars) => SilenceInv'
<1> SUFFICES ASSUME SilenceInv, PeerFallsSilent \/ NetworkStalls \/ LinkBreaks \/ UNCHANGED vars
             PROVE  SilenceInv'
  OBVIOUS
<1>1. UNCHANGED <<pc, sending, need, rounds, index, stream, skew, waitingForPingResp, age>>
  BY DEF PeerFallsSilent, NetworkStalls, LinkBreaks, vars, buffer
<1> QED BY <1>1, SilenceSame DEF Complete

\* A packet at the end of the stream does not become the first of a buffer
\* that holds something.
LEMMA SilenceBrokerSends ==
  ASSUME LinkInv, NEW packet \in {"PUBLISH", "BIG"}, BrokerSends(packet)
  PROVE  SilenceInv'
<1>1. UNCHANGED <<pc, sending, need, rounds, index, waitingForPingResp, age>> /\ stream' = Append(stream, packet)
  BY DEF BrokerSends
<1>2. CASE Buffering
  <2>1. stream \in Seq(Kinds) /\ packet \in Kinds /\ index <= Length(stream)
    BY <1>2 DEF LinkInv, FrameInv, TypeOK, InInv, Kinds
  <2>2. index >= HeaderLength => stream # <<>>
    BY <2>1, LengthEmpty DEF HeaderLength, LinkInv, FrameInv, TypeOK
  <2>3. stream # <<>> => Head(stream') = Head(stream)
    BY <1>1, <2>1, Appended
  <2> QED BY <1>1, <2>2, <2>3, SilenceSame DEF Complete, LinkInv
<1>3. CASE ~Buffering
  BY <1>1, <1>3 DEF SilenceInv, Between, Buffering, LinkInv
<1> QED BY <1>2, <1>3

LEMMA SilenceSends == LinkInv /\ Starts => SilenceInv'
<1> SUFFICES ASSUME LinkInv, Starts PROVE SilenceInv'
  OBVIOUS
<1>1. age \in [Timers -> Nat] /\ FrameInv /\ SilenceInv
  BY DEF LinkInv, FrameInv, TypeOK
<1>2. Elapse(0, {"call"}) /\ UNCHANGED <<index, stream, waitingForPingResp>>
  BY DEF Starts, ConnectStarts, MQTT_Publish, MQTT_Disconnect, ResendPubrel, buffer
<1>3. /\ age' \in [Timers -> Nat] /\ age'.silent <= age.silent /\ age'.call = 0
      /\ age'.rx < RxWait => age'.rx = age.rx
      /\ age'.ping <= PingTimeout => age'.ping = age.ping
      /\ age'.gap = IF age.gap > MaxGap + 1 THEN MaxGap + 1 ELSE age.gap
  BY <1>1, <1>2, Aged, AgesAreNat
<1>4. PICK what \in {"CONNECT", "PUBLISH", "DISCONNECT", "PUBREL"} :
        /\ StartSending(what)
        /\ what = "PUBLISH" => pc = "idle" /\ age.gap <= MaxGap
        /\ what = "PUBREL" => pc = "resume" /\ rounds < MaxPubrels /\ rounds' = rounds + 1
  BY DEF Starts, ConnectStarts, MQTT_Publish, MQTT_Disconnect, ResendPubrel
<1>5. pc' = "send" /\ sending'.what = what /\ sending'.left # <<>>
  BY <1>1, <1>4, Starting DEF Whats
<1>6. age'.call <= SendTimeout /\ age'.call <= SendTime
  BY <1>3, NumberFacts
<1>7. /\ age.silent \in Nat /\ age.rx \in Nat /\ age.ping \in Nat /\ age.gap \in Nat
      /\ age'.silent \in Nat /\ age'.rx \in Nat /\ age'.ping \in Nat /\ age'.gap \in Nat
  BY <1>1, <1>3, TimersAre
<1>8. CASE what \notin {"PUBLISH", "PUBREL"}
  BY <1>4, <1>5, <1>6, <1>8 DEF SilenceInv, Between
<1>9. CASE what = "PUBREL"
  <2>1. pc = "resume" /\ rounds < MaxPubrels /\ rounds' = rounds + 1 /\ ReceivedInv /\ ResumingInv
    BY <1>1, <1>4, <1>9 DEF SilenceInv
  <2>2. Past(index)' = Past(index) /\ Past(index) \in Nat
    BY <1>1, <1>2, <2>1, PastNow DEF Past, Buffering
  <2>3. ReceivedInv'
    BY <1>3, <1>7, <2>1, <2>2, NumberFacts DEF ReceivedInv
  <2>4. rounds \in Nat
    BY <1>1 DEF FrameInv, TypeOK
  <2>5. rounds * SendTime \in Nat /\ rounds' * SendTime = rounds * SendTime + SendTime
    BY <2>1, <2>4, QuietFacts
  <2>6. age.silent <= rounds * SendTime
    BY <2>1 DEF ResumingInv
  <2>7. \A a, b, c, e \in Nat : a <= b /\ b <= c => a + e <= (c + e) + 0
    OBVIOUS
  <2>8. age'.silent + SendTime <= (rounds * SendTime + SendTime) + 0
    BY <1>3, <1>7, <2>5, <2>6, <2>7, NumberFacts
  <2>9. rounds' <= MaxPubrels
    BY <2>1, <2>4, NumberFacts
  <2>10. ResendingInv'
    BY <1>3, <2>5, <2>8, <2>9 DEF ResendingInv
  <2> QED BY <1>5, <1>6, <1>9, <2>3, <2>10 DEF SilenceInv, Between
<1>10. CASE what = "PUBLISH"
  <2>1. pc = "idle" /\ age.gap <= MaxGap /\ ReceivedInv /\ BetweenInv
    BY <1>1, <1>4, <1>10 DEF SilenceInv, Between
  <2>2. Past(index)' = Past(index) /\ Past(index) \in Nat /\ Complete' = Complete
    BY <1>1, <1>2, <2>1, PastNow DEF Past, Complete, Buffering
  <2>4. Late' = age.gap /\ Late = age.gap
    BY <1>3, <1>7, <2>1, NumberFacts DEF Late
  <2>5. ReceivedInv'
    BY <1>3, <1>7, <2>1, <2>2, NumberFacts DEF ReceivedInv
  <2>6. BetweenInv'
    BY <1>2, <1>3, <1>7, <2>1, <2>2, <2>4, NumberFacts, QuietFacts DEF BetweenInv
  <2> QED BY <1>5, <1>6, <1>10, <2>5, <2>6 DEF SilenceInv, Between
<1> QED BY <1>8, <1>10, <1>9

LEMMA SilencePublished == LinkInv /\ Published => SilenceInv'
<1> SUFFICES ASSUME LinkInv, Published PROVE SilenceInv'
  OBVIOUS
<1>1. age \in [Timers -> Nat] /\ FrameInv /\ SilenceInv
  BY DEF LinkInv, FrameInv, TypeOK
<1>2. pc = "send" /\ sending.left = <<>> /\ sending.what = "PUBLISH" /\ pc' = "idle"
      /\ UNCHANGED <<index, stream, waitingForPingResp, age>>
  BY DEF Published, buffer
<1>3. ReceivedInv /\ BetweenInv /\ age.call <= SendTime
  BY <1>1, <1>2 DEF SilenceInv, Between
<1>4. Past(index)' = Past(index) /\ Past(index) \in Nat /\ Complete' = Complete
  BY <1>1, <1>2, PastNow DEF Past, Complete, Buffering
<1>5. age.silent \in Nat /\ age.rx \in Nat /\ age.ping \in Nat /\ age.gap \in Nat /\ age.call \in Nat
  BY <1>1, AgesAreNat
<1>6. Late \in Nat /\ Late' \in Nat /\ Late <= Late'
  BY <1>2, <1>3, <1>5, NumberFacts DEF Late
<1>7. ReceivedInv'
  BY <1>2, <1>3, <1>4 DEF ReceivedInv
<1>8. BetweenInv'
  BY <1>2, <1>3, <1>4, <1>5, <1>6, NumberFacts, QuietFacts DEF BetweenInv
<1> QED BY <1>2, <1>7, <1>8 DEF SilenceInv, Between

\* The PUBREL has taken its time, and the acknowledgement that of its call.
LEMMA SilencePubrelSent == LinkInv /\ PubrelSent => SilenceInv'
<1> SUFFICES ASSUME LinkInv, PubrelSent PROVE SilenceInv'
  OBVIOUS
<1>0. Elsewhere' => SilenceInv'
  BY SilenceElsewhere, PTL
<1>1. age \in [Timers -> Nat] /\ FrameInv /\ SilenceInv
  BY DEF LinkInv, FrameInv, TypeOK
<1>2. pc = "send" /\ sending.what = "PUBREL" /\ pc' \in {"resume", "over"}
      /\ UNCHANGED <<rounds, index, age>>
  BY DEF PubrelSent, buffer
<1>3. CASE pc' = "over"
  BY <1>0, <1>3 DEF Elsewhere
<1>4. CASE pc' = "resume"
  <2>1. ReceivedInv /\ ResendingInv /\ age.call <= SendTime
    BY <1>1, <1>2 DEF SilenceInv
  <2>2. ReceivedInv'
    BY <1>2, <2>1 DEF ReceivedInv, Past
  <2>3. rounds * SendTime \in Nat /\ age.silent \in Nat /\ age.call \in Nat
    BY <1>1, AgesAreNat, QuietFacts DEF FrameInv, TypeOK
  <2>4. age.silent + SendTime <= rounds * SendTime + age.call
    BY <2>1 DEF ResendingInv
  <2>5. \A a, b, c, e \in Nat : a + e <= b + c /\ c <= e => a <= b
    OBVIOUS
  <2>6. age.silent <= rounds * SendTime
    BY <2>1, <2>3, <2>4, <2>5, NumberFacts
  <2>7. ResumingInv'
    BY <1>2, <2>1, <2>6 DEF ResumingInv, ResendingInv
  <2> QED BY <1>4, <2>2, <2>7 DEF SilenceInv, Between
<1> QED BY <1>2, <1>3, <1>4

LEMMA SilenceAcknowledged == LinkInv /\ FrameInv' /\ Acknowledged => SilenceInv'
<1> SUFFICES ASSUME LinkInv, FrameInv', Acknowledged PROVE SilenceInv'
  OBVIOUS
<1>0. /\ Elsewhere' => SilenceInv'
      /\ (FrameInv /\ pc = "idle" /\ age.silent <= Past(index))' => SilenceInv'
  BY SilenceElsewhere, SilenceFresh, PTL
<1>1. age \in [Timers -> Nat] /\ FrameInv /\ SilenceInv
  BY DEF LinkInv, FrameInv, TypeOK
<1>2. pc = "send" /\ sending.what = "ACK" /\ UNCHANGED index
  BY DEF Acknowledged, buffer
<1>3. CASE pc' = "over"
  BY <1>0, <1>3 DEF Elsewhere
<1>4. CASE pc' = "idle" /\ Elapse(0, {"rx", "gap"})
  <2>1. AckingInv /\ age.call <= SendTime
    BY <1>1, <1>2 DEF SilenceInv
  <2>2. age'.silent <= age.silent + 0
    BY <1>1, <1>4, Elapsed, TimersAre
  <2>3. Past(index)' = Past(index) /\ Past(index) \in Nat
    BY <1>1, <1>2, PastNow DEF Past, Buffering
  <2>4. age.silent \in Nat /\ age.call \in Nat /\ age'.silent \in Nat
    BY <1>1, TimersAre DEF FrameInv, TypeOK
  <2>5. age'.silent <= Past(index)
    BY <2>1, <2>2, <2>3, <2>4, NumberFacts DEF AckingInv
  <2> QED BY <1>0, <1>4, <2>3, <2>5
<1> QED BY <1>3, <1>4 DEF Acknowledged

\* A session begins: nothing has come since the CONNACK, but for the time of
\* the PUBRELs.
LEMMA SilenceConnected == LinkInv /\ Connected => SilenceInv'
<1> SUFFICES ASSUME LinkInv, Connected PROVE SilenceInv'
  OBVIOUS
<1>1. age \in [Timers -> Nat] /\ FrameInv /\ SilenceInv
  BY DEF LinkInv, FrameInv, TypeOK
<1>2. pc = "resume" /\ pc' = "idle" /\ waitingForPingResp' = FALSE /\ Elapse(0, {"gap"})
      /\ UNCHANGED <<index, stream>>
  BY DEF Connected, buffer
<1>3. ReceivedInv /\ ResumingInv /\ index = 0 /\ rounds \in Nat
  BY <1>1, <1>2 DEF SilenceInv, FrameInv, InInv, TypeOK
<1>4. /\ age'.silent <= age.silent + 0 /\ age'.gap = 0
      /\ age'.rx < RxWait => age'.rx = age.rx + 0
  BY <1>1, <1>2, Aged
<1>5. /\ age.silent \in Nat /\ age.rx \in Nat /\ age' \in [Timers -> Nat]
      /\ age'.silent \in Nat /\ age'.rx \in Nat
  BY <1>1, <1>2, Elapsed, TimersAre
<1>6. Past(index)' = Past(index) /\ Past(index) \in Nat /\ ~Complete'
  BY <1>1, <1>2, <1>3, PastNow DEF Past, Buffering, Complete, HeaderLength
<1>7. age.silent <= QuietTime
  <2>1. rounds * SendTime \in Nat /\ rounds * SendTime <= QuietTime /\ age.silent <= rounds * SendTime
    BY <1>3, QuietFacts DEF ResumingInv
  <2>2. \A x, y, z \in Nat : x <= y /\ y <= z => x <= z
    OBVIOUS
  <2> QED BY <1>5, <2>1, <2>2, QuietFacts
<1>8. ReceivedInv'
  BY <1>3, <1>4, <1>5, <1>6, NumberFacts DEF ReceivedInv
<1>9. Late' = 0
  BY <1>4, NumberFacts DEF Late
<1>10. age'.silent <= Past(index) + QuietTime + 0
  BY <1>4, <1>5, <1>6, <1>7, QuietFacts
<1>11. BetweenInv'
  BY <1>2, <1>6, <1>9, <1>10 DEF BetweenInv
<1> QED BY <1>2, <1>8, <1>11 DEF SilenceInv, Between

LEMMA SilenceWait == LinkInv /\ Wait => SilenceInv'
<1> SUFFICES ASSUME LinkInv, Wait PROVE SilenceInv'
  OBVIOUS
<1>1. age \in [Timers -> Nat] /\ FrameInv /\ SilenceInv
  BY DEF LinkInv, FrameInv, TypeOK
<1>2. pc = "idle" /\ pc' = "idle" /\ age.gap < MaxGap /\ Elapse(1, {})
      /\ UNCHANGED <<index, stream, waitingForPingResp>>
  BY DEF Wait, buffer
<1>3. ReceivedInv /\ BetweenInv
  BY <1>1, <1>2 DEF SilenceInv, Between
<1>4. /\ age' \in [Timers -> Nat] /\ age'.silent <= age.silent + 1
      /\ age'.rx < RxWait => age'.rx = age.rx + 1
      /\ age'.ping <= PingTimeout => age'.ping = age.ping + 1
      /\ age'.gap = IF age.gap + 1 > MaxGap + 1 THEN MaxGap + 1 ELSE age.gap + 1
  BY <1>1, <1>2, Aged
<1>5. /\ age.silent \in Nat /\ age.rx \in Nat /\ age.ping \in Nat /\ age.gap \in Nat
      /\ age'.silent \in Nat /\ age'.rx \in Nat /\ age'.ping \in Nat /\ age'.gap \in Nat
  BY <1>1, <1>4, TimersAre
<1>6. Past(index)' = Past(index) /\ Past(index) \in Nat /\ Complete' = Complete
  BY <1>1, <1>2, PastNow DEF Past, Complete, Buffering
<1>7. Late = age.gap /\ Late' = age.gap + 1
  BY <1>2, <1>4, <1>5, NumberFacts DEF Late
<1>8. ReceivedInv'
  BY <1>3, <1>4, <1>5, <1>6, NumberFacts DEF ReceivedInv
<1>9. BetweenInv'
  BY <1>2, <1>3, <1>4, <1>5, <1>6, <1>7, NumberFacts, QuietFacts DEF BetweenInv
<1> QED BY <1>2, <1>8, <1>9 DEF SilenceInv, Between

LEMMA SilenceSendChunk == LinkInv /\ SendChunk => SilenceInv'
<1> SUFFICES ASSUME LinkInv, SendChunk PROVE SilenceInv'
  OBVIOUS
<1>0. Elsewhere' => SilenceInv'
  BY SilenceElsewhere, PTL
<1>1. age \in [Timers -> Nat] /\ FrameInv /\ SilenceInv /\ sending \in [what : Whats, left : Seq(Nat)]
  BY DEF LinkInv, FrameInv, TypeOK
<1>2. pc = "send" /\ sending.left # <<>> /\ UNCHANGED <<rounds, index, stream, waitingForPingResp>>
  BY DEF SendChunk, buffer
<1>3. CASE pc' = "over"
  BY <1>0, <1>3 DEF Elsewhere
<1>4. CASE pc' # "over"
  <2>1. PICK n \in espTlsTransportSend(Head(sending.left)) : \E d \in Duration(n) :
          /\ sending' = [sending EXCEPT !.left = Advance(@, n)]
          /\ Elapse(d, IF n > 0 THEN {"tx"} ELSE {})
          /\ pc' = IF sending'.left # <<>> /\ TimedOut(age.call + d) THEN "over" ELSE "send"
    BY <1>4 DEF SendChunk
  <2>2. PICK d \in Duration(n) :
          /\ Elapse(d, IF n > 0 THEN {"tx"} ELSE {})
          /\ pc' = IF sending'.left # <<>> /\ TimedOut(age.call + d) THEN "over" ELSE "send"
    BY <2>1
  <2>3. d \in {0, 1}
    BY Durations
  <2>4. PICK restart \in SUBSET {"tx", "call", "gap"} :
          Elapse(d, restart) /\ "gap" \notin restart /\ "call" \notin restart
    BY <2>2
  <2>5. age.call <= SendTimeout
    BY <1>1, <1>2 DEF SilenceInv
  <2>6. /\ age' \in [Timers -> Nat] /\ age'.silent <= age.silent + d
        /\ age'.rx < RxWait => age'.rx = age.rx + d
        /\ age'.ping <= PingTimeout => age'.ping = age.ping + d
        /\ age'.gap = IF age.gap + d > MaxGap + 1 THEN MaxGap + 1 ELSE age.gap + d
        /\ age'.call = age.call + d
    BY <1>1, <2>3, <2>4, <2>5, Aged
  <2>7. /\ age.silent \in Nat /\ age.rx \in Nat /\ age.ping \in Nat /\ age.gap \in Nat /\ age.call \in Nat
        /\ age'.silent \in Nat /\ age'.rx \in Nat /\ age'.ping \in Nat /\ age'.gap \in Nat
    BY <1>1, <2>6, TimersAre
  <2>8. /\ pc' = "send" /\ sending'.what = sending.what
        /\ age'.call <= SendTime
        /\ sending'.left # <<>> => age'.call <= SendTimeout
    <3>1. pc' = "send" /\ ~(sending'.left # <<>> /\ age.call + d > SendTimeout)
      <4>1. pc' = "send" /\ ~(sending'.left # <<>> /\ TimedOut(age.call + d))
        BY <1>4, <2>2
      <4>2. age.call + d > SendTimeout => TimedOut(age.call + d)
        BY <2>3, <2>7, NumberFacts DEF TimedOut
      <4> QED BY <4>1, <4>2
    <3>2. sending'.what = sending.what
      BY <1>1, <2>1
    <3> QED BY <2>3, <2>5, <2>6, <2>7, <3>1, <3>2, NumberFacts
  <2>9. Complete' = Complete /\ Past(index)' = Past(index)
    BY <1>2 DEF Past, Complete
  <2>10. CASE sending.what = "PUBLISH"
    <3>1. ReceivedInv /\ BetweenInv
      BY <1>1, <1>2, <2>10 DEF SilenceInv, Between
    <3>2. Past(index) \in Nat
      BY <1>1, <1>2, <2>10, PastNow DEF Buffering
    <3>3. Late \in Nat /\ Late' \in Nat /\ Late + d <= Late'
      <4>1. Late = IF age.gap <= MaxGap THEN age.gap ELSE MaxGap + age.call
        BY <1>2 DEF Late
      <4>2. Late' = IF age'.gap <= MaxGap THEN age'.gap ELSE MaxGap + age'.call
        BY <2>8 DEF Late
      <4> QED BY <2>3, <2>6, <2>7, <4>1, <4>2, NumberFacts
    <3>4. ReceivedInv'
      BY <2>3, <2>6, <2>7, <2>9, <3>1, <3>2, NumberFacts DEF ReceivedInv
    <3>5. BetweenInv'
      <4>1. ~waitingForPingResp => age'.silent <= Past(index) + QuietTime + Late'
        BY <2>3, <2>6, <2>7, <3>1, <3>2, <3>3, NumberFacts, QuietFacts DEF BetweenInv
      <4>2. waitingForPingResp /\ age'.ping <= PingTimeout
              => age'.silent <= Past(index) + QuietTime + CallTime + age'.ping
        BY <2>3, <2>6, <2>7, <3>1, <3>2, NumberFacts, QuietFacts DEF BetweenInv
      <4>3. waitingForPingResp => age'.silent <= Past(index) + QuietTime + CallTime + PingTimeout + Late'
        BY <2>3, <2>6, <2>7, <3>1, <3>2, <3>3, NumberFacts, QuietFacts DEF BetweenInv
      <4>4. Complete => age'.silent <= Past(index) + Late'
        BY <2>3, <2>6, <2>7, <3>1, <3>2, <3>3, NumberFacts, QuietFacts DEF BetweenInv
      <4> QED BY <1>2, <2>9, <4>1, <4>2, <4>3, <4>4 DEF BetweenInv
    <3> QED BY <2>8, <2>10, <3>4, <3>5 DEF SilenceInv, Between
  <2>11. CASE sending.what = "PINGREQ"
    <3>1. ReceivedInv /\ PingingInv
      BY <1>1, <1>2, <2>11 DEF SilenceInv, Between
    <3>2. Past(index) \in Nat
      BY <1>1, <1>2, <2>11, PastNow DEF Buffering
    <3>3. ReceivedInv'
      BY <2>3, <2>6, <2>7, <2>9, <3>1, <3>2, NumberFacts, QuietFacts DEF ReceivedInv
    <3>4. Spent \in Nat /\ Spent' = Spent + d
      BY <2>3, <2>6, <2>7, NumberFacts, QuietFacts DEF Spent
    <3>5. age'.silent <= Past(index) + QuietTime + (Spent + d)
      BY <2>3, <2>6, <2>7, <3>1, <3>2, <3>4, NumberFacts, QuietFacts DEF PingingInv
    <3>6. Complete => age'.silent <= Past(index) + (Spent + d)
      BY <2>3, <2>6, <2>7, <3>1, <3>2, <3>4, NumberFacts, QuietFacts DEF PingingInv
    <3>7. PingingInv'
      BY <2>9, <3>4, <3>5, <3>6 DEF PingingInv
    <3> QED BY <2>8, <2>11, <3>3, <3>7 DEF SilenceInv, Between
  <2>13. CASE sending.what = "ACK"
    <3>1. AckingInv
      BY <1>1, <1>2, <2>13 DEF SilenceInv
    <3>2. Past(index) \in Nat
      BY <1>1, <1>2, <2>13, PastNow DEF Buffering
    <3>3. age'.silent + SendTime <= Past(index) + age'.call
      BY <2>3, <2>6, <2>7, <3>1, <3>2, NumberFacts DEF AckingInv
    <3>4. AckingInv'
      BY <2>9, <3>3 DEF AckingInv
    <3> QED BY <2>8, <2>13, <3>4 DEF SilenceInv, Between
  <2>14. CASE sending.what = "PUBREL"
    <3>1. ReceivedInv /\ ResendingInv
      BY <1>1, <1>2, <2>14 DEF SilenceInv
    <3>2. Past(index) \in Nat
      BY <1>1, <1>2, <2>14, PastNow DEF Buffering
    <3>3. ReceivedInv'
      BY <2>3, <2>6, <2>7, <2>9, <3>1, <3>2, NumberFacts DEF ReceivedInv
    <3>4. rounds * SendTime \in Nat
      BY <1>1, QuietFacts DEF FrameInv, TypeOK
    <3>5. age.silent + SendTime <= rounds * SendTime + age.call
      BY <3>1 DEF ResendingInv
    <3>6. \A a, b, c, e \in Nat : \A x \in Nat : a + e <= b + c /\ x <= a + d => x + e <= b + (c + d)
      BY <2>3
    <3>7. age'.silent + SendTime <= rounds * SendTime + (age.call + d)
      BY <2>6, <2>7, <3>4, <3>5, <3>6, NumberFacts
    <3>8. ResendingInv'
      BY <1>2, <2>6, <3>1, <3>7 DEF ResendingInv
    <3> QED BY <2>8, <2>14, <3>3, <3>8 DEF SilenceInv, Between
  <2>12. CASE sending.what \notin {"PUBLISH", "PINGREQ", "ACK", "PUBREL"}
    BY <2>8, <2>12 DEF SilenceInv, Between
  <2> QED BY <2>10, <2>11, <2>12, <2>13, <2>14
<1> QED BY <1>3, <1>4

LEMMA SilencePing == LinkInv /\ MQTT_Ping => SilenceInv'
<1> SUFFICES ASSUME LinkInv, MQTT_Ping PROVE SilenceInv'
  OBVIOUS
<1>1. age \in [Timers -> Nat] /\ FrameInv /\ SilenceInv
  BY DEF LinkInv, FrameInv, TypeOK
<1>2. pc = "send" /\ sending.left = <<>> /\ sending.what = "PINGREQ" /\ pc' = "ponder" /\ waitingForPingResp'
      /\ UNCHANGED <<sending, index>> /\ age' = [age EXCEPT !.ping = age.tx]
      /\ stream' = (IF peer = "alive" THEN Append(stream, "PINGRESP") ELSE stream)
  BY DEF MQTT_Ping
<1>3. age'.silent = age.silent /\ age'.rx = age.rx
  BY <1>1, <1>2, TimersAre
<1>4. ReceivedInv /\ PingingInv /\ age.call <= SendTime
  BY <1>1, <1>2 DEF SilenceInv
<1>5. Past(index)' = Past(index) /\ Past(index) \in Nat
  BY <1>1, <1>2, PastNow DEF Past, Buffering
<1>6. Complete' => Complete
  <2>1. stream \in Seq(Kinds) /\ "PINGRESP" \in Kinds /\ index <= Length(stream) /\ index \in Nat
    BY <1>1, <1>2 DEF FrameInv, TypeOK, InInv, Buffering, Kinds
  <2>2. index >= HeaderLength => stream # <<>>
    BY <2>1, LengthEmpty DEF HeaderLength
  <2>3. stream # <<>> => Head(stream') = Head(stream)
    BY <1>2, <2>1, Appended
  <2> QED BY <1>2, <2>2, <2>3 DEF Complete
<1>7. age.silent \in Nat /\ age.rx \in Nat /\ age.call \in Nat
  BY <1>1, AgesAreNat
<1>8. ReceivedInv'
  BY <1>3, <1>4, <1>5 DEF ReceivedInv
<1>9. Spent \in Nat /\ Spent + SendTime <= CallTime
  BY <1>4, <1>7, NumberFacts DEF Spent
<1>10. /\ age.silent + SendTime <= Past(index) + QuietTime + CallTime
       /\ Complete => age.silent + SendTime <= Past(index) + CallTime
  BY <1>4, <1>5, <1>7, <1>9, NumberFacts, QuietFacts DEF PingingInv
<1>11. PingedInv'
  BY <1>2, <1>3, <1>5, <1>6, <1>10 DEF PingedInv
<1> QED BY <1>2, <1>8, <1>11 DEF SilenceInv, Between

LEMMA SilenceRecvExact == LinkInv /\ recvExact => SilenceInv'
<1> SUFFICES ASSUME LinkInv, recvExact PROVE SilenceInv'
  OBVIOUS
<1>0. Elsewhere' => SilenceInv'
  BY SilenceElsewhere, PTL
<1>1. /\ age \in [Timers -> Nat] /\ FrameInv
      /\ pc \in {"connack", "discard"} /\ need > 0 /\ need \in Nat
  BY DEF LinkInv, FrameInv, TypeOK, recvExact
<1>2. CASE pc' = "over"
  BY <1>0, <1>2 DEF Elsewhere
<1>3. CASE pc' # "over"
  <2>1. PICK n \in espTlsTransportRecv(need) : \E d \in Duration(n) :
          /\ Elapse(d, Heard(n) \cup IF n > 0 THEN {"call"} ELSE {})
          /\ need' = need - n
          /\ pc' = IF n = 0 /\ age.call + d >= PollTimeout THEN "over" ELSE pc
    BY <1>3 DEF recvExact
  <2>2. PICK d \in Duration(n) : Elapse(d, Heard(n) \cup IF n > 0 THEN {"call"} ELSE {})
    BY <2>1
  <2>3. n \in Nat /\ n <= need /\ pc' = pc
    BY <1>1, <1>3, <2>1, ComingFacts, Received
  <2>4. CASE need' # 0
    BY <1>0, <1>1, <2>3, <2>4 DEF Elsewhere
  <2>5. CASE need' = 0
    <3>1. n > 0
      BY <1>1, <2>1, <2>3, <2>5
    <3>2. Elapse(d, {"silent", "call"}) /\ d \in {0, 1}
      <4>1. Heard(n) \cup (IF n > 0 THEN {"call"} ELSE {}) = {"silent", "call"}
        BY <3>1 DEF Heard
      <4> QED BY <2>2, <4>1, Durations
    <3>3. age'.silent = 0
      BY <1>1, <3>2, Elapsed, TimersAre
    <3> QED BY <1>1, <2>3, <3>3 DEF SilenceInv, Between
  <2> QED BY <2>4, <2>5
<1> QED BY <1>2, <1>3

LEMMA SilenceReceiveConnack == LinkInv /\ receiveConnack => SilenceInv'
<1> SUFFICES ASSUME LinkInv, receiveConnack PROVE SilenceInv'
  OBVIOUS
<1>0. Elsewhere' => SilenceInv'
  BY SilenceElsewhere, PTL
<1>1. CASE AwaitType
  <2>1. pc' \in {"over", "type", "count", "length"}
    BY <1>1 DEF AwaitType
  <2> QED BY <1>0, <2>1 DEF Elsewhere
<1>2. CASE AwaitLength
  <2>1. pc' = "over" \/ (pc' = "connack" /\ need' = 2)
    <3>1. pc' = "over" \/ (pc' = "connack" /\ need' = Size("CONNACK") - HeaderLength)
      BY <1>2 DEF AwaitLength
    <3> QED BY <3>1, SizeFacts DEF HeaderLength
  <2> QED BY <1>0, <2>1 DEF Elsewhere
<1> QED BY <1>1, <1>2 DEF receiveConnack

\* The silence was broken by the CONNACK, and by the last of a packet that is
\* discarded.
LEMMA SilenceResumption == LinkInv /\ FrameInv' /\ handleSessionResumption => SilenceInv'
<1> SUFFICES ASSUME LinkInv, FrameInv', handleSessionResumption PROVE SilenceInv'
  OBVIOUS
<1>0. Elsewhere' => SilenceInv'
  BY SilenceElsewhere, PTL
<1>1. CASE pc' = "over"
  BY <1>0, <1>1 DEF Elsewhere
<1>2. CASE pc' = "resume" /\ rounds' = 0 /\ index' = 0
  <2>1. age.silent = 0 /\ UNCHANGED age
    BY DEF handleSessionResumption, LinkInv, SilenceInv
  <2>2. Past(0) \in Nat /\ Past(index)' = Past(0)
    BY <1>2, PastFacts, NumberFacts DEF Past
  <2>3. age.rx \in Nat
    BY AgesAreNat DEF LinkInv, FrameInv, TypeOK
  <2>4. ReceivedInv'
    BY <2>1, <2>2, <2>3 DEF ReceivedInv
  <2>5. 0 * SendTime \in Nat
    BY QuietFacts
  <2>6. rounds' * SendTime \in Nat /\ age'.silent = 0
    BY <1>2, <2>1, <2>5
  <2>7. ResumingInv'
    BY <1>2, <2>6, NumberFacts DEF ResumingInv
  <2> QED BY <1>2, <2>4, <2>7 DEF SilenceInv, Between
<1> QED BY <1>1, <1>2 DEF handleSessionResumption

LEMMA SilenceDiscarded == LinkInv /\ FrameInv' /\ Discarded => SilenceInv'
<1> SUFFICES ASSUME LinkInv, FrameInv', Discarded PROVE SilenceInv'
  OBVIOUS
<1>0. /\ (FrameInv /\ pc = "idle" /\ age.silent <= Past(index))' => SilenceInv'
      /\ (FrameInv /\ Buffering)' => (Past(index) \in Nat /\ Past(index) <= Past(0))'
  BY SilenceFresh, PastNow, PTL
<1>1. pc' = "idle" /\ age.silent = 0 /\ age \in [Timers -> Nat] /\ Elapse(0, {"gap"})
  BY DEF Discarded, LinkInv, SilenceInv, FrameInv, TypeOK
<1>2. age'.silent <= age.silent + 0
  BY <1>1, Aged
<1>3. Past(index)' \in Nat
  BY <1>0, <1>1 DEF Buffering
<1>4. age'.silent \in Nat
  BY TimersAre DEF FrameInv, TypeOK
<1>5. age'.silent <= Past(index)'
  BY <1>1, <1>2, <1>3, <1>4
<1> QED BY <1>0, <1>1, <1>5

\* A look at the buffer, after which either the silence is broken, or the
\* buffer has lost the packet that was in it; there is time to acknowledge it.
LEMMA SilenceLook ==
  ASSUME LinkInv, FrameInv', pc \in {"idle", "ponder"},
         NEW buffered \in Nat, buffered <= BufferSize, NEW d \in {0, 1},
         NEW restart, Discards(buffered, d, restart) \/ Handles(buffered, d, restart),
         \/ age'.silent = 0
         \/ /\ buffered = index
            /\ Complete => age'.silent + SendTime <= Past(index) + CallTime
  PROVE  SilenceInv'
<1>0. /\ Elsewhere' => SilenceInv'
      /\ (FrameInv /\ pc = "idle" /\ age.silent <= Past(index))' => SilenceInv'
  BY SilenceElsewhere, SilenceFresh, PTL
<1>1. CASE Discards(buffered, d, restart)
  <2>1. skew' = buffered /\ need' = BufferSize + 1 - buffered /\ pc' = "discard" /\ need' \in Nat
    BY <1>1 DEF Discards, FrameInv, TypeOK
  <2>2. CASE need' # 0
    BY <1>0, <2>1, <2>2 DEF Elsewhere
  <2>3. CASE need' = 0
    <3>1. skew' = 0
      BY <2>1, <2>3 DEF FrameInv, InInv
    <3> QED BY <2>1, <2>3, <3>1, NumberFacts
  <2> QED BY <2>2, <2>3
<1>2. CASE Handles(buffered, d, restart)
  <2>1. Size(Head(stream)) \in HeaderLength..buffered /\ index' = buffered - Size(Head(stream))
    BY <1>2 DEF Handles
  <2>2. index' \in Nat /\ index' + HeaderLength <= buffered /\ buffered \in 0..BufferSize
    BY <2>1, NumberFacts DEF HeaderLength
  <2>3. Past(buffered) + CallTime <= Past(index') /\ Past(buffered) \in Nat
    BY <2>2, PastFacts
  <2>4. Past(index') = Past(index)' /\ Past(index') \in Nat
    <3>1. index' \in 0..BufferSize
      <4>1. \A i, b, n \in Nat : i + HeaderLength <= b /\ b \in 0..n => i \in 0..n
        BY DEF HeaderLength
      <4> QED BY <2>2, <4>1, NumberFacts
    <3>2. Past(index') \in Nat
      BY <3>1, PastFacts
    <3> QED BY <3>2 DEF Past
  <2>5. age'.silent \in Nat
    BY TimersAre DEF FrameInv, TypeOK
  <2>6. age'.silent + SendTime <= Past(buffered) + CallTime
    <3>1. CASE age'.silent = 0
      BY <2>3, <3>1, NumberFacts
    <3>2. CASE buffered = index /\ (Complete => age'.silent + SendTime <= Past(index) + CallTime)
      <4>1. Complete
        BY <2>1, <3>2 DEF Complete, HeaderLength
      <4> QED BY <3>2, <4>1
    <3> QED BY <3>1, <3>2
  <2>7. age'.silent + SendTime <= Past(index)'
    BY <2>3, <2>4, <2>5, <2>6, NumberFacts
  <2>8. CASE pc' = "idle"
    <3>1. age'.silent <= Past(index)'
      BY <2>4, <2>5, <2>7, NumberFacts
    <3> QED BY <1>0, <2>8, <3>1
  <2>9. CASE pc' = "over"
    BY <1>0, <2>9 DEF Elsewhere
  <2>10. CASE StartSending("ACK") /\ Elapse(d, restart \cup {"call"})
    <3>1. pc' = "send" /\ sending'.what = "ACK"
      BY <2>10, Starting DEF LinkInv, Whats
    <3>2. age'.call = 0
      <4>1. age \in [Timers -> Nat]
        BY DEF LinkInv, FrameInv, TypeOK
      <4>2. PICK also : also = restart \cup {"call"}
        OBVIOUS
      <4>3. Elapse(d, also) /\ "call" \in Timers \cap also
        BY <2>10, <4>2, TimersAre
      <4> QED BY <4>1, <4>3, Elapsed
    <3>3. AckingInv'
      BY <2>4, <2>5, <2>7, <3>2, NumberFacts DEF AckingInv
    <3>4. age'.call <= SendTime /\ age'.call <= SendTimeout
      BY <3>2, NumberFacts
    <3> QED BY <3>1, <3>3, <3>4 DEF SilenceInv, Between
  <2> QED BY <1>2, <2>8, <2>9, <2>10 DEF Handles
<1> QED BY <1>1, <1>2

LEMMA SilenceAfterPing == LinkInv /\ FrameInv' /\ IterationAfterPing => SilenceInv'
<1> SUFFICES ASSUME LinkInv, FrameInv', IterationAfterPing PROVE SilenceInv'
  OBVIOUS
<1>1. /\ age \in [Timers -> Nat] /\ FrameInv /\ SilenceInv /\ Buffering
      /\ pc = "ponder" /\ FinishIteration(index, 0, {"gap"})
  BY DEF LinkInv, FrameInv, TypeOK, IterationAfterPing, Buffering
<1>2. ReceivedInv /\ PingedInv
  BY <1>1 DEF SilenceInv
<1>3. /\ index \in Nat /\ index <= Length(stream) /\ index <= BufferSize
      /\ Past(index) \in Nat
  BY <1>1, PastNow, NumberFacts DEF FrameInv, TypeOK, InInv
<1>4. /\ age.silent \in Nat /\ age.rx \in Nat /\ age.ping \in Nat
      /\ age'.silent \in Nat /\ age'.rx \in Nat /\ age'.ping \in Nat
  BY <1>1, TimersAre DEF FrameInv, TypeOK
<1>5. CASE Discards(index, 0, {"gap"}) \/ Handles(index, 0, {"gap"})
  <2>1. PICK restart \in {{"gap", "call"}, {"gap", "rx"}, {"gap"}} : Elapse(0, restart)
    <3>1. {"gap"} \cup {"call"} = {"gap", "call"} /\ {"gap"} \cup {"rx"} = {"gap", "rx"}
      OBVIOUS
    <3>2. Elapse(0, {"gap", "call"}) \/ Elapse(0, {"gap", "rx"}) \/ Elapse(0, {"gap"})
      BY <1>5, <3>1, Zenon DEF Discards, Handles
    <3> QED BY <3>2
  <2>2. age'.silent <= age.silent + 0
    BY <1>1, <2>1, Elapsed, TimersAre
  <2>3. Complete => age'.silent + SendTime <= Past(index) + CallTime
    BY <1>2, <1>3, <1>4, <2>2, NumberFacts DEF PingedInv
  <2> QED BY <1>1, <1>3, <1>5, <2>3, SilenceLook
<1>6. CASE Waits(index, 0, {"gap"})
  <2>1. /\ pc' = "idle" /\ UNCHANGED <<index, stream, waitingForPingResp>> /\ Elapse(0, {"gap"})
        /\ ~Complete /\ waitingForPingResp
    BY <1>2, <1>6 DEF Waits, PingedInv, Complete
  <2>2. /\ age'.silent <= age.silent
        /\ age'.rx < RxWait => age'.rx = age.rx
    BY <1>1, <1>4, <2>1, Aged
  <2>3. Past(index)' = Past(index) /\ ~Complete'
    BY <2>1 DEF Past, Complete
  <2>4. (age \in [Timers -> Nat])' => (Late \in Nat)'
    BY LateFacts, PTL
  <2>5. Late' \in Nat
    BY <2>4 DEF FrameInv, TypeOK
  <2>6. ReceivedInv'
    BY <1>2, <1>3, <1>4, <2>2, <2>3, NumberFacts DEF ReceivedInv
  <2>7. age'.silent <= Past(index) + QuietTime + CallTime
    BY <1>2, <1>3, <1>4, <2>2, NumberFacts, QuietFacts DEF PingedInv
  <2>8. BetweenInv'
    BY <1>3, <1>4, <2>1, <2>3, <2>5, <2>7, NumberFacts, QuietFacts DEF BetweenInv
  <2> QED BY <2>1, <2>6, <2>8 DEF SilenceInv, Between
<1> QED BY <1>1, <1>3, <1>5, <1>6, Iteration

\* An iteration that hears nothing: the keep-alive has let it pass, so the last
\* packet is not as old as that, or the answer is not overdue.
LEMMA SilenceUnheard ==
  ASSUME LinkInv, FrameInv', pc = "idle", Iterates(0, 1)
  PROVE  SilenceInv'
<1>1. /\ age \in [Timers -> Nat] /\ FrameInv /\ SilenceInv /\ Buffering
      /\ ReceivedInv /\ BetweenInv /\ Late \in Nat /\ Late <= MaxGap + SendTime
  BY LateFacts DEF LinkInv, SilenceInv, Between, FrameInv, TypeOK, Buffering
<1>2. index \in Nat /\ index <= Length(stream) /\ index <= BufferSize /\ Past(index) \in Nat
  BY <1>1, PastNow, NumberFacts DEF FrameInv, TypeOK, InInv
<1>3. handleKeepAlive(1) = "nothing" /\ FinishIteration(index, 1, {"gap"})
  <2>1. index + 0 = index /\ {"gap"} \cup Heard(0) = {"gap"}
    BY <1>2 DEF Heard
  <2>2. FinishIteration(index + 0, 1, {"gap"} \cup Heard(0))
    BY DEF Iterates
  <2>3. handleKeepAlive(1) = "nothing"
    BY DEF Iterates
  <2> QED BY <2>1, <2>2, <2>3
<1>4. /\ age.silent \in Nat /\ age.rx \in Nat /\ age.ping \in Nat
      /\ age'.silent \in Nat /\ age'.rx \in Nat /\ age'.ping \in Nat /\ age'.gap \in Nat
  BY <1>1, TimersAre DEF FrameInv, TypeOK
<1>5. CASE Discards(index, 1, {"gap"}) \/ Handles(index, 1, {"gap"})
  <2>1. PICK restart \in {{"gap", "call"}, {"gap", "rx"}, {"gap"}} : Elapse(1, restart)
    <3>1. {"gap"} \cup {"call"} = {"gap", "call"} /\ {"gap"} \cup {"rx"} = {"gap", "rx"}
      OBVIOUS
    <3>2. Elapse(1, {"gap", "call"}) \/ Elapse(1, {"gap", "rx"}) \/ Elapse(1, {"gap"})
      BY <1>5, <3>1, Zenon DEF Discards, Handles
    <3> QED BY <3>2
  <2>2. age'.silent <= age.silent + 1
    BY <1>1, <2>1, Elapsed, TimersAre
  <2>3. Complete => age'.silent + SendTime <= Past(index) + CallTime
    BY <1>1, <1>2, <1>4, <2>2, NumberFacts DEF BetweenInv
  <2> QED BY <1>2, <1>5, <2>3, SilenceLook
<1>6. CASE Waits(index, 1, {"gap"})
  <2>1. /\ pc' = "idle" /\ UNCHANGED <<index, stream, waitingForPingResp>> /\ Elapse(1, {"gap"})
        /\ ~Complete
    BY <1>6 DEF Waits, Complete
  <2>2. /\ age'.silent <= age.silent + 1 /\ age'.gap = 0
        /\ age'.rx = Older("rx", 1) /\ age'.ping = Older("ping", 1)
        /\ age'.rx < RxWait => age'.rx = age.rx + 1
        /\ age'.ping <= PingTimeout => age'.ping = age.ping + 1
    BY <1>1, <2>1, Aged
  <2>3. Past(index)' = Past(index) /\ ~Complete' /\ Late' = 0
    BY <2>1, <2>2, NumberFacts DEF Past, Complete, Late
  <2>4. ReceivedInv'
    BY <1>1, <1>2, <1>4, <2>2, <2>3, NumberFacts DEF ReceivedInv
  <2>5. CASE ~waitingForPingResp
    <3>1. ~(age'.rx # 0 /\ age'.rx >= RxTimeout)
      BY <1>3, <2>2, <2>5 DEF handleKeepAlive
    <3>2. age'.rx < RxWait
      BY <1>4, <3>1, NumberFacts
    <3>3. age'.silent <= Past(index) + age'.rx
      BY <2>3, <2>4, <3>2 DEF ReceivedInv
    <3>4. age'.silent <= Past(index) + QuietTime + 0
      BY <1>2, <1>4, <3>2, <3>3, NumberFacts, QuietFacts
    <3>5. BetweenInv'
      BY <2>1, <2>3, <2>5, <3>4 DEF BetweenInv
    <3> QED BY <2>1, <2>4, <3>5 DEF SilenceInv, Between
  <2>6. CASE waitingForPingResp
    <3>1. age'.ping <= PingTimeout
      BY <1>3, <1>4, <2>2, <2>6, NumberFacts DEF handleKeepAlive
    <3>2. age'.silent <= Past(index) + QuietTime + CallTime + age'.ping
      BY <1>1, <1>2, <1>4, <2>2, <2>6, <3>1, NumberFacts, QuietFacts DEF BetweenInv
    <3>3. age'.silent <= Past(index) + QuietTime + CallTime + PingTimeout + 0
      BY <1>2, <1>4, <3>1, <3>2, NumberFacts, QuietFacts
    <3>4. BetweenInv'
      BY <2>1, <2>3, <2>6, <3>2, <3>3 DEF BetweenInv
    <3> QED BY <2>1, <2>4, <3>4 DEF SilenceInv, Between
  <2> QED BY <2>5, <2>6
<1> QED BY <1>1, <1>2, <1>3, <1>5, <1>6, Iteration

\* One that hears something.
LEMMA SilenceHeard ==
  ASSUME LinkInv, FrameInv', pc = "idle",
         NEW n \in Nat, NEW d \in {0, 1}, Iterates(n, d), n > 0
  PROVE  SilenceInv'
<1>1. /\ age \in [Timers -> Nat] /\ FrameInv /\ Buffering /\ index \in Nat
  BY DEF LinkInv, FrameInv, TypeOK, Buffering
<1>2. index + n \in Nat /\ index + n <= Length(stream) /\ index + n <= BufferSize
  BY <1>1, ComingFacts, NumberFacts DEF Iterates
<1>3. FinishIteration(index + n, d, {"gap", "silent"})
  <2>1. {"gap"} \cup Heard(n) = {"gap", "silent"}
    BY DEF Heard
  <2>2. FinishIteration(index + n, d, {"gap"} \cup Heard(n))
    BY DEF Iterates
  <2> QED BY <2>1, <2>2
<1>4. \/ Waits(index + n, d, {"gap", "silent"})
      \/ Discards(index + n, d, {"gap", "silent"})
      \/ Handles(index + n, d, {"gap", "silent"})
  BY <1>1, <1>2, <1>3, Iteration
<1>5. PICK restart : Elapse(d, restart) /\ "silent" \in restart
  <2>1. \/ Elapse(d, {"gap", "silent"})
        \/ Elapse(d, {"gap", "silent"} \cup {"call"})
        \/ Elapse(d, {"gap", "silent"} \cup {"rx"})
    BY <1>4, Zenon DEF Waits, Discards, Handles
  <2> QED BY <2>1
<1>6. age'.silent = 0
  BY <1>1, <1>5, Elapsed, TimersAre
<1>7. CASE Waits(index + n, d, {"gap", "silent"})
  <2>1. pc' = "idle"
    BY <1>7 DEF Waits
  <2>2. /\ (FrameInv /\ pc = "idle" /\ age.silent <= Past(index))' => SilenceInv'
        /\ (FrameInv /\ Buffering)' => (Past(index) \in Nat /\ Past(index) <= Past(0))'
    BY SilenceFresh, PastNow, PTL
  <2>3. Past(index)' \in Nat
    BY <2>1, <2>2 DEF Buffering
  <2>4. age'.silent <= Past(index)'
    BY <1>6, <2>3
  <2> QED BY <2>1, <2>2, <2>4
<1>8. CASE \/ Discards(index + n, d, {"gap", "silent"})
           \/ Handles(index + n, d, {"gap", "silent"})
  BY <1>2, <1>6, <1>8, SilenceLook
<1> QED BY <1>4, <1>7, <1>8

\* The keep-alive pings in the call after the one that looked last.
LEMMA SilencePings ==
  ASSUME LinkInv, FrameInv', pc = "idle", Pings
  PROVE  SilenceInv'
<1>1. /\ age \in [Timers -> Nat] /\ FrameInv /\ SilenceInv /\ Buffering
      /\ ReceivedInv /\ BetweenInv /\ Late \in Nat /\ Late <= MaxGap + SendTime
  BY LateFacts DEF LinkInv, SilenceInv, Between, FrameInv, TypeOK, Buffering
<1>2. /\ StartSending("PINGREQ") /\ Elapse(1, {"gap", "call"}) /\ ~waitingForPingResp
      /\ UNCHANGED <<index, stream>>
  BY DEF Pings
<1>3. pc' = "send" /\ sending'.what = "PINGREQ"
  BY <1>1, <1>2, Starting DEF Whats
<1>4. /\ age'.silent <= age.silent + 1 /\ age'.call = 0
      /\ age'.rx < RxWait => age'.rx = age.rx + 1
  BY <1>1, <1>2, Aged
<1>5. /\ age.silent \in Nat /\ age.rx \in Nat /\ age'.silent \in Nat /\ age'.rx \in Nat
  BY <1>1, TimersAre DEF FrameInv, TypeOK
<1>6. Past(index) \in Nat /\ Past(index)' = Past(index) /\ Complete' = Complete
  BY <1>1, <1>2, PastNow DEF Past, Complete
<1>7. ReceivedInv'
  BY <1>1, <1>4, <1>5, <1>6, NumberFacts DEF ReceivedInv
<1>8. Spent' \in Nat /\ Late + 1 <= Spent'
  BY <1>1, <1>4, NumberFacts DEF Spent
<1>9. age'.silent <= Past(index) + QuietTime + Spent'
  BY <1>1, <1>2, <1>4, <1>5, <1>6, <1>8, NumberFacts, QuietFacts DEF BetweenInv
<1>10. Complete => age'.silent <= Past(index) + Spent'
  BY <1>1, <1>4, <1>5, <1>6, <1>8, NumberFacts DEF BetweenInv
<1>11. PingingInv'
  BY <1>6, <1>9, <1>10 DEF PingingInv
<1>12. age'.call <= SendTime /\ age'.call <= SendTimeout
  BY <1>4, NumberFacts
<1> QED BY <1>3, <1>7, <1>11, <1>12 DEF SilenceInv, Between

LEMMA SilenceSingleIteration == LinkInv /\ FrameInv' /\ receiveSingleIteration => SilenceInv'
<1> SUFFICES ASSUME LinkInv, FrameInv', receiveSingleIteration PROVE SilenceInv'
  OBVIOUS
<1>0. Elsewhere' => SilenceInv'
  BY SilenceElsewhere, PTL
<1>1. pc = "idle" /\ (IterationFails \/ (\E n \in Nat : \E d \in {0, 1} : Iterates(n, d)) \/ Pings)
  BY IterationCases DEF LinkInv
<1>2. CASE IterationFails
  BY <1>0, <1>2 DEF IterationFails, Elsewhere
<1>3. ASSUME NEW n \in Nat, NEW d \in {0, 1}, Iterates(n, d)
      PROVE  SilenceInv'
  <2>1. CASE n > 0
    BY <1>1, <1>3, <2>1, SilenceHeard
  <2>2. CASE n = 0
    <3>1. d = 1
      BY <1>3, <2>2 DEF Iterates
    <3> QED BY <1>1, <1>3, <2>2, <3>1, SilenceUnheard
  <2> QED BY <2>1, <2>2
<1>4. CASE Pings
  BY <1>1, <1>4, SilencePings
<1> QED BY <1>1, <1>2, <1>3, <1>4

LEMMA LinkNext == LinkInv /\ [Next]_vars => LinkInv'
<1> SUFFICES ASSUME LinkInv, [Next]_vars PROVE LinkInv'
  OBVIOUS
<1>1. FrameInv'
  BY FrameNext DEF LinkInv
<1>2. SilenceInv /\ FrameInv
  BY DEF LinkInv
<1>3. \A packet \in {"PUBLISH", "BIG"} : BrokerSends(packet) => SilenceInv'
  BY SilenceBrokerSends
<1>4. SilenceInv'
  BY <1>1, <1>2, <1>3, SilenceQuiet, SilenceExternal, SilenceSends, SilencePublished,
     SilencePubrelSent, SilenceAcknowledged, SilenceConnected, SilenceWait, SilenceSendChunk,
     SilencePing, SilenceRecvExact, SilenceReceiveConnack, SilenceResumption, SilenceDiscarded,
     SilenceAfterPing, SilenceSingleIteration, Zenon DEF Next, InCall, Starts
<1> QED BY <1>1, <1>4 DEF LinkInv

\* A broker from which nothing comes any more is found out within the timeouts
\* of the keep-alive and the calls on the way, a call for every packet that the
\* buffer can hold among them, with its acknowledgement, and the PUBRELs that
\* MQTT_Connect sends again: for all values of the timeouts, those that are
\* zero too, for every number of PUBRELs, and for every division of the time
\* among the calls and of the bytes among the calls of the transport.
THEOREM SilenceIsFoundOut == Spec => []DeadPeerFound
<1>1. LinkInv => DeadPeerFound
  <2> SUFFICES ASSUME LinkInv, pc = "idle" PROVE age.silent <= SilenceAllowed
    BY DEF DeadPeerFound
  <2>1. /\ age \in [Timers -> Nat] /\ FrameInv /\ Buffering
        /\ BetweenInv /\ Late \in Nat /\ Late <= MaxGap + SendTime
    BY LateFacts DEF LinkInv, SilenceInv, Between, FrameInv, TypeOK, Buffering
  <2>2. Past(index) \in Nat /\ Past(0) \in Nat /\ Past(index) <= Past(0)
    BY <2>1, PastNow, PastFacts, NumberFacts
  <2>3. SilenceAllowed = QuietTime + PingTimeout + Past(0) + 2 * CallTime
    <3> DEFINE half == BufferSize \div 2
    <3>1. half \in Nat
      BY NumberFacts
    <3>2. \A a, b \in Nat : (a + 2) * b = a * b + 2 * b
      OBVIOUS
    <3>3. (half + 2) * CallTime = half * CallTime + 2 * CallTime
      BY <3>1, <3>2, NumberFacts
    <3>4. Past(0) = half * CallTime /\ SilenceAllowed = QuietTime + PingTimeout + (half + 2) * CallTime
      BY PastFacts DEF SilenceAllowed
    <3> HIDE DEF half
    <3> QED BY <2>2, <3>3, <3>4, NumberFacts, QuietFacts
  <2>4. age.silent \in Nat
    BY <2>1, AgesAreNat
  <2>5. age.silent <= Past(index) + QuietTime + CallTime + PingTimeout + Late
    BY <2>1, <2>2, <2>4, NumberFacts, QuietFacts DEF BetweenInv
  <2>6. Late <= CallTime
    BY <2>1, NumberFacts
  <2> QED BY <2>1, <2>2, <2>3, <2>4, <2>5, <2>6, NumberFacts, QuietFacts
<1>2. Init => LinkInv
  BY FrameInit, SilenceInit DEF LinkInv
<1> QED BY <1>1, <1>2, LinkNext, PTL DEF Spec
=============================================================================
