----------------------------- MODULE CodecsProofs -----------------------------
(***************************************************************************)
(* Three of the algorithms of Codecs, for every input.  The reading of the *)
(* DHT sensor: for any pulses and any width of a byte, the critical        *)
(* section is entered and left once on every path, and a reading that is   *)
(* reported is the one the sensor sent.  The match of a topic name with a  *)
(* topic filter: for any of them, it is as their levels say.  The MQTT     *)
(* packets: any that is written is read back field by field, and nothing   *)
(* is accepted that a peer could not have meant.                           *)
(***************************************************************************)
EXTENDS DhtSensor, TopicMatch, PacketCodec, FiniteSetTheorems, SequenceTheorems, WellFoundedInduction, TLAPS

\* The handler is at one of its places: a phase that succeeds leads to another.
PlaceOK == pc \in {"idle", "B", "C", "D", "bits", "fetched", "failed"}
SectionInv == PlaceOK /\ InterruptsOff

LEMMA SectionInit == SensorInit => SectionInv
BY DEF SensorInit, SectionInv, PlaceOK, InterruptsOff

LEMMA SectionNext == SectionInv /\ [SensorNext]_sensorVars => SectionInv'
<1> SUFFICES ASSUME SectionInv, [SensorNext]_sensorVars PROVE SectionInv'
  OBVIOUS
<1> USE DEF SectionInv, PlaceOK, InterruptsOff
<1>1. CASE dht_read_data
  BY <1>1 DEF dht_read_data
<1>2. ASSUME NEW timeout, NEW next \in {"C", "D", "bits"}, pc \in {"B", "C", "D"}, Phase(timeout, next)
      PROVE  SectionInv'
  <2>1. (pc' = next /\ critical' = critical) \/ (pc' = "failed" /\ critical' = critical - 1)
    BY <1>2 DEF Phase, CHECK_LOGE
  <2> QED BY <1>2, <2>1
<1>3. CASE dht_fetch_data
  <2>1. (pc' = pc /\ critical' = critical) \/ (pc' = "failed" /\ critical' = critical - 1)
    BY <1>3 DEF dht_fetch_data, CHECK_LOGE
  <2> QED BY <1>3, <2>1 DEF dht_fetch_data
<1>4. CASE Fetched
  BY <1>4 DEF Fetched
<1>5. CASE http_server_get_dht_sensor_readings_json_handler
  BY <1>5 DEF http_server_get_dht_sensor_readings_json_handler
<1>6. CASE UNCHANGED sensorVars
  BY <1>6 DEF sensorVars
<1> QED BY <1>1, <1>2, <1>3, <1>4, <1>5, <1>6 DEF SensorNext, PhaseB, PhaseC, PhaseD

\* Interrupts are off while the pulses are timed and at no other time: no
\* pulse that fails to come leaves the section open, and none leaves it twice.
THEOREM SectionBalanced == SensorSpec => []InterruptsOff
<1>1. SectionInv => InterruptsOff
  BY DEF SectionInv
<1> QED BY <1>1, SectionInit, SectionNext, PTL DEF SensorSpec

-----------------------------------------------------------------------------
(* Powers of two, and the division by them *)

LEMMA PowerFacts ==
  ASSUME NEW n \in Nat
  PROVE  2^n \in Nat \ {0} /\ 2^(n + 1) = 2 * 2^n /\ 2^0 = 1
<1>1. \A k \in Nat : 2^k = Cardinality(SUBSET (1..k)) /\ IsFiniteSet(SUBSET (1..k))
  <2> SUFFICES ASSUME NEW k \in Nat
               PROVE  2^k = Cardinality(SUBSET (1..k)) /\ IsFiniteSet(SUBSET (1..k))
    OBVIOUS
  <2>1. IsFiniteSet(1..k) /\ Cardinality(1..k) = k
    BY FS_Interval
  <2> QED BY <2>1, FS_SUBSET
\* Each subset of 1..n is one of 1..(n + 1), without n + 1 or with it.
<1> DEFINE S == SUBSET (1..n)
           T == {s \cup {n + 1} : s \in S}
<1>2. IsFiniteSet(T) /\ Cardinality(T) = Cardinality(S)
  <2> DEFINE f == [s \in S |-> s \cup {n + 1}]
  <2>1. n + 1 \notin 1..n
    OBVIOUS
  <2>2. f \in [S -> T] /\ \A t \in T : \E s \in S : f[s] = t
    OBVIOUS
  <2>3. \A s, t \in S : f[s] = f[t] => s = t
    <3> SUFFICES ASSUME NEW s \in S, NEW t \in S, s \cup {n + 1} = t \cup {n + 1} PROVE s = t
      OBVIOUS
    <3> QED BY <2>1
  <2>4. f \in Bijection(S, T)
    BY <2>2, <2>3 DEF Bijection, Injection, Surjection, IsInjective
  <2>5. ExistsBijection(S, T)
    BY <2>4 DEF ExistsBijection
  <2> QED BY <1>1, <2>5, FS_Bijection
<1>3. SUBSET (1..(n + 1)) = S \cup T
  <2>1. ASSUME NEW u \in SUBSET (1..(n + 1)), n + 1 \in u PROVE u \in T
    <3>1. u \ {n + 1} \in S /\ (u \ {n + 1}) \cup {n + 1} = u
      BY <2>1
    <3> QED BY <3>1
  <2>2. \A u \in SUBSET (1..(n + 1)) : n + 1 \notin u => u \in S
    OBVIOUS
  <2>3. S \cup T \subseteq SUBSET (1..(n + 1))
    <3>1. 1..n \subseteq 1..(n + 1) /\ n + 1 \in 1..(n + 1)
      OBVIOUS
    <3>2. \A s \in S : s \in SUBSET (1..(n + 1)) /\ s \cup {n + 1} \in SUBSET (1..(n + 1))
      BY <3>1
    <3>3. ASSUME NEW u \in T PROVE u \in SUBSET (1..(n + 1))
      <4>1. PICK s \in S : u = s \cup {n + 1}
        OBVIOUS
      <4> QED BY <4>1, <3>2
    <3>4. S \subseteq SUBSET (1..(n + 1))
      BY <3>2
    <3> HIDE DEF S, T
    <3>5. T \subseteq SUBSET (1..(n + 1))
      BY <3>3
    <3> QED BY <3>4, <3>5
  <2> QED BY <2>1, <2>2, <2>3
<1>4. S \cap T = {}
  OBVIOUS
<1>5. Cardinality(S \cup T) = Cardinality(S) + Cardinality(T)
  <2> HIDE DEF S, T
  <2>1. IsFiniteSet(S)
    BY <1>1 DEF S
  <2>2. Cardinality(S \cup T) = Cardinality(S) + Cardinality(T) - Cardinality(S \cap T)
    BY <1>2, <2>1, FS_Union
  <2>3. Cardinality(S \cap T) = 0 /\ Cardinality(S) \in Nat /\ Cardinality(T) \in Nat
    BY <1>2, <1>4, <2>1, FS_EmptySet, FS_CardinalityType
  <2> QED BY <2>2, <2>3
<1>6. Cardinality(S) \in Nat \ {0}
  <2>1. S # {} /\ IsFiniteSet(S)
    BY <1>1
  <2> HIDE DEF S
  <2> QED BY <2>1, FS_EmptySet, FS_CardinalityType
<1>7. 2^n = Cardinality(S) /\ 2^(n + 1) = Cardinality(S \cup T)
  <2>1. 2^(n + 1) = Cardinality(SUBSET (1..(n + 1))) /\ 2^n = Cardinality(SUBSET (1..n))
    BY <1>1
  <2> QED BY <1>3, <2>1
<1>8. 2^0 = 1
  <2>1. IsFiniteSet({}) /\ Cardinality({}) = 0
    BY FS_EmptySet
  <2>2. Cardinality(SUBSET {}) = 2^0
    BY <2>1, FS_SUBSET
  <2>3. SUBSET {} = {{}}
    OBVIOUS
  <2>4. Cardinality({{}}) = 1
    BY FS_Singleton
  <2> QED BY <2>2, <2>3, <2>4
<1> HIDE DEF S, T
<1> QED BY <1>2, <1>5, <1>6, <1>7, <1>8

LEMMA DivFacts ==
  ASSUME NEW s \in Nat, NEW p \in Nat \ {0}
  PROVE  /\ s \div p \in Nat /\ s % p \in 0..(p - 1) /\ s = p * (s \div p) + (s % p)
         /\ s < p => s \div p = 0
OBVIOUS

\* The bits above weight p are those above 2 * p and the one of weight p.
LEMMA NextBit ==
  ASSUME NEW s \in Nat, NEW p \in Nat \ {0}
  PROVE  (s \div p) * p = (s \div (2 * p)) * (2 * p) + ((s \div p) % 2) * p
<1>1. PICK q : q = s \div p
  OBVIOUS
<1>2. q \in Nat /\ s \div (2 * p) = q \div 2
  BY <1>1
<1>3. PICK h : h = q \div 2
  OBVIOUS
<1>4. PICK r : r = q % 2
  OBVIOUS
<1>5. q = 2 * h + r /\ h \in Nat /\ r \in Nat
  BY <1>2, <1>3, <1>4
<1>6. q * p = h * (2 * p) + r * p
  BY <1>5
<1> QED BY <1>1, <1>2, <1>3, <1>4, <1>6

\* Two sums that agree but for one summand, less than n apart, differ modulo n.
LEMMA SameRest ==
  ASSUME NEW n \in Nat \ {0}, NEW a \in 0..(n - 1), NEW c \in 0..(n - 1), NEW rest \in Nat,
         (a + rest) % n = (c + rest) % n
  PROVE  a = c
<1>1. PICK x : x = a + rest
  OBVIOUS
<1>2. PICK y : y = c + rest
  OBVIOUS
<1>3. PICK i \in Nat : x = n * i + (x % n)
  <2>1. x \in Nat
    BY <1>1
  <2>2. x \div n \in Nat /\ x = n * (x \div n) + (x % n)
    BY <2>1, DivFacts
  <2> QED BY <2>2
<1>4. PICK j \in Nat : y = n * j + (y % n)
  <2>1. y \in Nat
    BY <1>2
  <2>2. y \div n \in Nat /\ y = n * (y \div n) + (y % n)
    BY <2>1, DivFacts
  <2> QED BY <2>2
<1>5. x \in Nat /\ y \in Nat /\ x % n \in Int /\ x - y < n /\ y - x < n
  BY <1>1, <1>2
<1>6. x - y = n * (i - j)
  BY <1>1, <1>2, <1>3, <1>4, <1>5
<1>7. i - j = 0
  <2>1. ASSUME i - j >= 1 PROVE FALSE
    <3>1. n * (i - j) >= n
      BY <2>1
    <3> QED BY <1>5, <1>6, <3>1
  <2>2. ASSUME j - i >= 1 PROVE FALSE
    <3>1. n * (j - i) >= n
      BY <2>2
    <3>2. n * (i - j) = -(n * (j - i))
      OBVIOUS
    <3> QED BY <1>5, <1>6, <3>1, <3>2
  <2> QED BY <2>1, <2>2
<1> QED BY <1>1, <1>2, <1>5, <1>6, <1>7

-----------------------------------------------------------------------------
(* A reading *)

\* Of the first n bits of a reading, those that lie in byte k.
BitsRead(n, k) == IF n <= k * ByteBits THEN 0
                  ELSE IF n >= (k + 1) * ByteBits THEN ByteBits ELSE n - k * ByteBits

\* Byte k holds the upper bits the sensor sent, as many as have been read; a
\* byte in which a pulse went wrong holds as many bits, of any value.
ByteRead(k) == LET weight == 2^(ByteBits - BitsRead(bit, k)) IN
  /\ data[k] \in 0 .. (2^ByteBits - weight)
  /\ k # garbled => data[k] = (sent[k] \div weight) * weight

SensorType == /\ sent \in Bytes /\ data \in [0 .. DHT_DATA_BYTES - 1 -> Int]
              /\ bit \in 0 .. DHT_DATA_BITS /\ garbled \in -1 .. DHT_DATA_BYTES - 1
BytesRead == \A k \in 0 .. DHT_DATA_BYTES - 1 : ByteRead(k)
ReadingInv == /\ SectionInv
              /\ SensorType
              /\ sumMatches(sent)
              /\ BytesRead
              /\ pc = "fetched" => bit = DHT_DATA_BITS
              /\ ReadingServed

LEMMA WidthOfByte == 2^ByteBits \in Nat \ {0}
BY SensorAssumption, PowerFacts

\* The next bit is bit m of byte b, and of no other.
LEMMA BitPlace ==
  ASSUME NEW n \in 0 .. (DHT_DATA_BITS - 1)
  PROVE  /\ n \div ByteBits \in 0 .. DHT_DATA_BYTES - 1
         /\ n % ByteBits \in 0 .. (ByteBits - 1)
         /\ BitsRead(n, n \div ByteBits) = n % ByteBits
         /\ BitsRead(n + 1, n \div ByteBits) = (n % ByteBits) + 1
         /\ \A k \in 0 .. DHT_DATA_BYTES - 1 :
               k # n \div ByteBits => BitsRead(n + 1, k) = BitsRead(n, k)
<1>1. ByteBits \in Nat \ {0} /\ n \in Nat /\ n < 5 * ByteBits
  BY SensorAssumption DEF DHT_DATA_BITS, DHT_DATA_BYTES
<1>2. PICK b : b = n \div ByteBits
  OBVIOUS
<1>3. PICK m : m = n % ByteBits
  OBVIOUS
<1>4. b \in Nat /\ m \in 0..(ByteBits - 1) /\ n = ByteBits * b + m
  BY <1>1, <1>2, <1>3, DivFacts
<1>5. b \in 0..4
  <2>1. ASSUME b >= 5 PROVE FALSE
    <3>1. ByteBits * b >= ByteBits * 5
      BY <1>1, <1>4, <2>1
    <3> QED BY <1>1, <1>4, <3>1
  <2> QED BY <1>4, <2>1
<1>6. BitsRead(n, b) = m /\ BitsRead(n + 1, b) = m + 1
  <2>1. b = 0 \/ b = 1 \/ b = 2 \/ b = 3 \/ b = 4
    BY <1>5
  <2> QED BY <1>1, <1>4, <2>1 DEF BitsRead
<1>7. ASSUME NEW k \in 0..4, k # b PROVE BitsRead(n + 1, k) = BitsRead(n, k)
  <2>1. k = 0 \/ k = 1 \/ k = 2 \/ k = 3 \/ k = 4
    OBVIOUS
  <2>2. CASE k + 1 <= b
    <3>1. ByteBits * (k + 1) <= ByteBits * b
      BY <1>1, <1>4, <2>2
    <3> QED BY <1>1, <1>4, <2>1, <3>1 DEF BitsRead
  <2>3. CASE b + 1 <= k
    <3>1. ByteBits * (b + 1) <= ByteBits * k
      BY <1>1, <1>4, <2>3
    <3>2. ByteBits * (b + 1) = ByteBits * b + ByteBits
      BY <1>1, <1>4
    <3> QED BY <1>1, <1>4, <2>1, <3>1, <3>2 DEF BitsRead
  <2> QED BY <1>5, <1>7, <2>2, <2>3
<1> QED BY <1>2, <1>3, <1>4, <1>5, <1>6, <1>7 DEF DHT_DATA_BYTES

\* Nothing is read of a reading whose bits are all to come.
NothingRead == SensorType /\ bit = 0 /\ data = NoData
LEMMA UnreadBytes == NothingRead => BytesRead
<1> SUFFICES ASSUME NothingRead, NEW k \in 0 .. DHT_DATA_BYTES - 1 PROVE ByteRead(k)
  BY DEF BytesRead
<1>1. BitsRead(0, k) = 0
  <2>1. k = 0 \/ k = 1 \/ k = 2 \/ k = 3 \/ k = 4
    BY DEF DHT_DATA_BYTES
  <2> QED BY <2>1, SensorAssumption DEF BitsRead
<1>2. data[k] = 0 /\ sent[k] \in 0..(2^ByteBits - 1)
  BY DEF NothingRead, NoData, SensorType, Bytes, Byte
<1>3. PICK w : w = 2^ByteBits
  OBVIOUS
<1>4. w \in Nat \ {0}
  BY <1>3, WidthOfByte
<1>5. sent[k] \div w = 0
  <2>1. PICK s : s = sent[k]
    OBVIOUS
  <2>2. s \in Nat /\ s < w
    BY <1>2, <1>3, <1>4, <2>1
  <2> QED BY <1>4, <2>1, <2>2, DivFacts
<1>6. ByteBits - BitsRead(bit, k) = ByteBits
  BY <1>1, SensorAssumption DEF NothingRead
<1> QED BY <1>2, <1>3, <1>4, <1>5, <1>6 DEF ByteRead

LEMMA ReadingInit == SensorInit => ReadingInv
<1> SUFFICES ASSUME SensorInit PROVE ReadingInv
  OBVIOUS
<1>1. SectionInv
  BY SectionInit
<1>2. SensorType
  BY WidthOfByte, SensorAssumption
  DEF SensorInit, SensorType, Bytes, Byte, NoData, DHT_DATA_BYTES, DHT_DATA_BITS
<1>3. sumMatches(sent)
  BY WidthOfByte DEF SensorInit, sumMatches, checksum, NoData, DHT_DATA_BYTES
<1>4. BytesRead
  BY UnreadBytes, <1>2 DEF NothingRead, SensorInit
<1> QED BY <1>1, <1>2, <1>3, <1>4 DEF SensorInit, ReadingInv, ReadingServed, InterruptsOff, SectionInv, Failed

\* The byte a bit goes to: wrong pulses spoil it, the right ones give the bit sent.
LEMMA BitRead ==
  ASSUME SensorType, BytesRead, dht_fetch_data, SensorType'
  PROVE  BytesRead'
<1>1. CASE UNCHANGED <<bit, data>>
  <2>1. \A k \in 0 .. DHT_DATA_BYTES - 1 : k # garbled' => k # garbled
    BY DEF dht_fetch_data, SensorType, DHT_DATA_BYTES
  <2>2. sent' = sent
    BY DEF dht_fetch_data
  <2> QED BY <1>1, <2>1, <2>2 DEF BytesRead, ByteRead
<1>2. CASE ~UNCHANGED <<bit, data>>
  <2>1. PICK low \in LowPulses \cup {-1}, high \in HighPulses[0] \cup HighPulses[1] \cup {-1} :
          LET b == bit \div ByteBits
              m == bit % ByteBits
              right == low \in LowPulses /\ high \in HighPulses[SentBit]
              value == IF Polled(high) > Polled(low) THEN 1 ELSE 0
          IN /\ right \/ garbled \in {-1, b}
             /\ garbled' = IF right THEN garbled ELSE b
             /\ data' = [data EXCEPT ![b] = (IF m = 0 THEN 0 ELSE @) + value * 2^(ByteBits - 1 - m)]
             /\ bit' = bit + 1
    BY <1>2 DEF dht_fetch_data
  <2>2. PICK b : b = bit \div ByteBits
    OBVIOUS
  <2>3. PICK m : m = bit % ByteBits
    OBVIOUS
  <2>4. PICK value : value = IF Polled(high) > Polled(low) THEN 1 ELSE 0
    OBVIOUS
  <2>5. PICK right \in BOOLEAN : right <=> low \in LowPulses /\ high \in HighPulses[SentBit]
    OBVIOUS
  <2>6. PICK p : p = 2^(ByteBits - 1 - m)
    OBVIOUS
  <2>7. /\ right \/ garbled \in {-1, b}
        /\ garbled' = IF right THEN garbled ELSE b
        /\ data' = [data EXCEPT ![b] = (IF m = 0 THEN 0 ELSE @) + value * p]
        /\ bit' = bit + 1 /\ sent' = sent
    BY <2>1, <2>2, <2>3, <2>4, <2>5, <2>6 DEF dht_fetch_data
  <2>8. bit \in 0 .. (DHT_DATA_BITS - 1)
    BY SensorAssumption DEF dht_fetch_data, SensorType, DHT_DATA_BITS, DHT_DATA_BYTES
  <2>9. /\ b \in 0 .. DHT_DATA_BYTES - 1 /\ m \in 0 .. (ByteBits - 1)
        /\ BitsRead(bit, b) = m /\ BitsRead(bit + 1, b) = m + 1
        /\ \A k \in 0 .. DHT_DATA_BYTES - 1 : k # b => BitsRead(bit + 1, k) = BitsRead(bit, k)
    BY <2>2, <2>3, <2>8, BitPlace
  <2>10. ByteRead(b)'
    <3>1. PICK s : s = sent[b]
      OBVIOUS
    <3>2. PICK d : d = data[b]
      OBVIOUS
    <3>3. PICK width : width = 2^ByteBits
      OBVIOUS
    <3>4. p \in Nat \ {0} /\ 2^(ByteBits - m) = 2 * p
      <4>1. ByteBits - 1 - m \in Nat /\ (ByteBits - 1 - m) + 1 = ByteBits - m
        BY <2>9, SensorAssumption
      <4> QED BY <2>6, <4>1, PowerFacts
    <3>5. s \in Nat /\ d \in Int /\ width \in Nat
      BY <2>9, <3>1, <3>2, <3>3, WidthOfByte DEF SensorType, Bytes, Byte
    <3>6. d \in 0 .. (width - 2 * p) /\ (b # garbled => d = (s \div (2 * p)) * (2 * p))
      BY <2>9, <3>1, <3>2, <3>3, <3>4 DEF BytesRead, ByteRead
    <3>7. m = 0 => d = 0
      <4>1. ASSUME m = 0 PROVE 2 * p = width
        BY <3>3, <3>4, <4>1, SensorAssumption
      <4> QED BY <3>4, <3>5, <3>6, <4>1
    <3>8. data'[b] = d + value * p /\ sent'[b] = s
      BY <2>7, <2>9, <3>1, <3>2, <3>7 DEF SensorType
    <3>9. value \in 0..1
      BY <2>4
    <3>10. data'[b] \in 0 .. (width - p)
      <4>1. value * p = 0 \/ value * p = p
        BY <3>4, <3>9
      <4> QED BY <3>4, <3>5, <3>6, <3>8, <4>1
    <3>11. ASSUME b # garbled' PROVE data'[b] = (s \div p) * p
      <4>1. right /\ b # garbled
        BY <2>7, <3>11
      <4>2. PICK sb : sb = (s \div p) % 2
        OBVIOUS
      <4>3. sb = SentBit /\ sb \in 0..1
        BY <2>2, <2>3, <2>6, <3>1, <3>4, <3>5, <4>2 DEF SentBit
      <4>4. value = sb
        <5>1. low \in LowPulses /\ high \in HighPulses[sb]
          BY <2>5, <4>1, <4>3
        <5>2. Polled(high) > Polled(low) <=> sb = 1
          BY <4>3, <5>1, PulsesAssumption
        <5> QED BY <2>4, <4>3, <5>2
      <4>5. (s \div p) * p = (s \div (2 * p)) * (2 * p) + sb * p
        BY <3>4, <3>5, <4>2, NextBit
      <4> QED BY <3>6, <3>8, <4>1, <4>4, <4>5
    <3>12. 2^(ByteBits - BitsRead(bit', b)) = p
      <4>1. ByteBits - BitsRead(bit', b) = ByteBits - 1 - m
        BY <2>7, <2>9, SensorAssumption
      <4> QED BY <2>6, <4>1
    <3> QED BY <3>3, <3>8, <3>10, <3>11, <3>12 DEF ByteRead
  <2>11. ASSUME NEW k \in 0 .. DHT_DATA_BYTES - 1, k # b PROVE ByteRead(k)'
    <3>1. data'[k] = data[k] /\ sent'[k] = sent[k] /\ BitsRead(bit', k) = BitsRead(bit, k)
      BY <2>7, <2>9, <2>11 DEF SensorType
    <3>2. k # garbled' => k # garbled
      BY <2>7, <2>11 DEF DHT_DATA_BYTES
    <3>3. ByteRead(k)
      BY DEF BytesRead
    <3> QED BY <3>1, <3>2, <3>3 DEF ByteRead
  <2> QED BY <2>9, <2>10, <2>11 DEF BytesRead
<1> QED BY <1>1, <1>2

\* A full reading has every byte as it was sent, but for the garbled one.
LEMMA FullReading ==
  ASSUME SensorType, BytesRead, bit = DHT_DATA_BITS
  PROVE  \A k \in 0 .. DHT_DATA_BYTES - 1 : data[k] \in Byte /\ (k # garbled => data[k] = sent[k])
<1> SUFFICES ASSUME NEW k \in 0 .. DHT_DATA_BYTES - 1
             PROVE  data[k] \in Byte /\ (k # garbled => data[k] = sent[k])
  OBVIOUS
<1>1. BitsRead(bit, k) = ByteBits
  <2>1. k = 0 \/ k = 1 \/ k = 2 \/ k = 3 \/ k = 4
    BY DEF DHT_DATA_BYTES
  <2> QED BY <2>1, SensorAssumption DEF BitsRead, DHT_DATA_BITS, DHT_DATA_BYTES
<1>2. 2^(ByteBits - BitsRead(bit, k)) = 1
  <2>1. ByteBits - BitsRead(bit, k) = 0
    BY <1>1, SensorAssumption
  <2> QED BY <2>1, PowerFacts
<1>3. PICK s \in Nat : s = sent[k]
  BY WidthOfByte DEF SensorType, Bytes, Byte
<1>4. (s \div 1) * 1 = s
  BY <1>3
<1> QED BY <1>2, <1>3, <1>4 DEF BytesRead, ByteRead, Byte

\* One garbled byte cannot pass the check of the sum.
LEMMA SumTells ==
  ASSUME NEW d \in Bytes, NEW r \in Bytes, NEW g \in Int, sumMatches(d), sumMatches(r),
         \A k \in 0 .. DHT_DATA_BYTES - 1 : k # g => d[k] = r[k]
  PROVE  d[0] = r[0] /\ d[2] = r[2]
<1>1. PICK n \in Nat \ {0} : n = 2^ByteBits
  BY WidthOfByte
<1>2. /\ d[0] \in 0..(n - 1) /\ d[1] \in 0..(n - 1) /\ d[2] \in 0..(n - 1) /\ d[3] \in 0..(n - 1)
      /\ r[0] \in 0..(n - 1) /\ r[1] \in 0..(n - 1) /\ r[2] \in 0..(n - 1) /\ r[3] \in 0..(n - 1)
  BY <1>1 DEF Bytes, Byte, DHT_DATA_BYTES
<1>3. d[4] = (d[0] + d[1] + d[2] + d[3]) % n /\ r[4] = (r[0] + r[1] + r[2] + r[3]) % n
  BY <1>1 DEF sumMatches, checksum
<1>4. CASE g = 0
  <2>1. d[1] = r[1] /\ d[2] = r[2] /\ d[3] = r[3] /\ d[4] = r[4]
    BY <1>4 DEF DHT_DATA_BYTES
  <2>2. PICK rest \in Nat : rest = r[1] + r[2] + r[3]
    BY <1>2
  <2>3. d[0] + d[1] + d[2] + d[3] = d[0] + rest /\ r[0] + r[1] + r[2] + r[3] = r[0] + rest
    BY <1>2, <2>1, <2>2
  <2>4. (d[0] + rest) % n = (r[0] + rest) % n
    BY <1>3, <2>1, <2>3
  <2> QED BY <1>2, <2>1, <2>4, SameRest
<1>5. CASE g = 2
  <2>1. d[0] = r[0] /\ d[1] = r[1] /\ d[3] = r[3] /\ d[4] = r[4]
    BY <1>5 DEF DHT_DATA_BYTES
  <2>2. PICK rest \in Nat : rest = r[0] + r[1] + r[3]
    BY <1>2
  <2>3. d[0] + d[1] + d[2] + d[3] = d[2] + rest /\ r[0] + r[1] + r[2] + r[3] = r[2] + rest
    BY <1>2, <2>1, <2>2
  <2>4. (d[2] + rest) % n = (r[2] + rest) % n
    BY <1>3, <2>1, <2>3
  <2> QED BY <1>2, <2>1, <2>4, SameRest
<1>6. CASE g # 0 /\ g # 2
  BY <1>6 DEF DHT_DATA_BYTES
<1> QED BY <1>4, <1>5, <1>6

LEMMA ReadingNext == ReadingInv /\ [SensorNext]_sensorVars => ReadingInv'
<1> SUFFICES ASSUME ReadingInv, [SensorNext]_sensorVars PROVE ReadingInv'
  OBVIOUS
<1>1. SectionInv'
  BY SectionNext DEF ReadingInv
<1>2. CASE dht_read_data
  <2>1. PICK reading \in [0..3 -> Byte] :
          sent' = [b \in 0 .. DHT_DATA_BYTES - 1 |-> IF b = 4 THEN checksum(reading) ELSE reading[b]]
    BY <1>2 DEF dht_read_data
  <2>2. checksum(reading) \in Byte
    <3>1. PICK n \in Nat \ {0} : n = 2^ByteBits
      BY WidthOfByte
    <3>2. PICK sum \in Nat : sum = reading[0] + reading[1] + reading[2] + reading[3]
      BY <3>1 DEF Byte
    <3> QED BY <3>1, <3>2, DivFacts DEF checksum, Byte
  <2>3. sent' \in Bytes
    BY <2>1, <2>2 DEF Bytes, DHT_DATA_BYTES
  <2>4. sumMatches(sent')
    <3>1. sent'[0] = reading[0] /\ sent'[1] = reading[1] /\ sent'[2] = reading[2]
          /\ sent'[3] = reading[3] /\ sent'[4] = checksum(reading)
      BY <2>1 DEF DHT_DATA_BYTES
    <3> QED BY <3>1 DEF sumMatches, checksum
  <2>5. SensorType'
    BY <1>2, <2>3, SensorAssumption
    DEF SensorType, dht_read_data, NoData, DHT_DATA_BYTES, DHT_DATA_BITS
  <2>6. BytesRead'
    <3>1. NothingRead'
      BY <1>2, <2>5 DEF dht_read_data, NothingRead, NoData
    <3> QED BY <3>1, UnreadBytes, PTL
  <2> QED BY <1>1, <1>2, <2>4, <2>5, <2>6 DEF ReadingInv, dht_read_data, ReadingServed, sumMatches, checksum
<1>3. CASE PhaseB \/ PhaseC \/ PhaseD
  <2>1. UNCHANGED <<bit, data, response, sent, garbled>>
        /\ pc' \in {"C", "D", "bits", "failed"}
    BY <1>3 DEF PhaseB, PhaseC, PhaseD, Phase, CHECK_LOGE
  <2> QED BY <1>1, <2>1
    DEF ReadingInv, SensorType, BytesRead, ByteRead, ReadingServed, sumMatches, checksum
<1>4. CASE dht_fetch_data
  <2>1. sent' = sent /\ pc' \in {"bits", "failed"}
    BY <1>4 DEF dht_fetch_data, CHECK_LOGE
  <2>2. SensorType'
    <3>1. bit \in 0 .. (DHT_DATA_BITS - 1) /\ bit + 1 \in 0 .. DHT_DATA_BITS
      BY <1>4, SensorAssumption
      DEF dht_fetch_data, ReadingInv, SensorType, DHT_DATA_BITS, DHT_DATA_BYTES
    <3>2. bit' \in 0 .. DHT_DATA_BITS
      BY <1>4, <3>1 DEF dht_fetch_data, ReadingInv, SensorType
    <3>3. bit \div ByteBits \in 0 .. DHT_DATA_BYTES - 1 /\ bit % ByteBits \in 0 .. (ByteBits - 1)
      BY <3>1, BitPlace
    <3>4. garbled' \in -1 .. DHT_DATA_BYTES - 1
      BY <1>4, <3>3 DEF dht_fetch_data, ReadingInv, SensorType, DHT_DATA_BYTES
    <3>5. data' \in [0 .. DHT_DATA_BYTES - 1 -> Int]
      <4>1. data \in [0 .. DHT_DATA_BYTES - 1 -> Int]
        BY DEF ReadingInv, SensorType
      <4>2. data' = data \/ \E value \in 0..1 :
              data' = [data EXCEPT ![bit \div ByteBits] =
                         (IF bit % ByteBits = 0 THEN 0 ELSE @) + value * 2^(ByteBits - 1 - (bit % ByteBits))]
        BY <1>4 DEF dht_fetch_data
      <4>3. ByteBits - 1 - (bit % ByteBits) \in Nat
        BY <3>3, SensorAssumption
      <4>4. PICK p \in Nat : p = 2^(ByteBits - 1 - (bit % ByteBits))
        BY <4>3, PowerFacts
      <4> QED BY <3>3, <4>1, <4>2, <4>4
    <3> QED BY <2>1, <3>2, <3>4, <3>5 DEF ReadingInv, SensorType
  <2>3. BytesRead'
    BY <1>4, <2>2, BitRead DEF ReadingInv
  <2> QED BY <1>1, <2>1, <2>2, <2>3 DEF ReadingInv, ReadingServed, sumMatches, checksum
<1>5. CASE Fetched
  BY <1>1, <1>5
  DEF Fetched, ReadingInv, SensorType, BytesRead, ByteRead, ReadingServed, sumMatches, checksum
<1>6. CASE http_server_get_dht_sensor_readings_json_handler
  <2>1. bit' = 0 /\ data' = NoData /\ sent' = sent /\ garbled' = garbled /\ pc' = "idle"
    BY <1>6 DEF http_server_get_dht_sensor_readings_json_handler
  <2>2. SensorType'
    BY <2>1, SensorAssumption DEF ReadingInv, SensorType, NoData, DHT_DATA_BYTES, DHT_DATA_BITS
  <2>3. BytesRead'
    <3>1. NothingRead'
      BY <2>1, <2>2 DEF NothingRead, NoData
    <3> QED BY <3>1, UnreadBytes, PTL
  <2>4. ReadingServed'
    <3>1. critical' = 0
      BY <1>1, <2>1 DEF SectionInv, InterruptsOff
    <3>2. ASSUME ~response'.error
          PROVE  response'.humidity = dht_convert_data(sent[0]) /\ response'.temperature = dht_convert_data(sent[2])
      <4>1. pc = "fetched" /\ sumMatches(data)
            /\ response' = [error |-> FALSE, humidity |-> dht_convert_data(data[0]),
                            temperature |-> dht_convert_data(data[2])]
        BY <1>6, <3>2 DEF http_server_get_dht_sensor_readings_json_handler, Failed
      <4>2. \A k \in 0 .. DHT_DATA_BYTES - 1 : data[k] \in Byte /\ (k # garbled => data[k] = sent[k])
        BY <4>1, FullReading DEF ReadingInv
      <4>3. data \in Bytes /\ sent \in Bytes /\ garbled \in Int /\ sumMatches(sent)
        BY <4>2 DEF ReadingInv, SensorType, Bytes
      <4>4. data[0] = sent[0] /\ data[2] = sent[2]
        BY <4>1, <4>2, <4>3, SumTells
      <4> QED BY <4>1, <4>4
    <3> QED BY <2>1, <3>1, <3>2 DEF ReadingServed, dht_convert_data
  <2> QED BY <1>1, <2>1, <2>2, <2>3, <2>4 DEF ReadingInv, sumMatches, checksum
<1>7. CASE UNCHANGED sensorVars
  BY <1>1, <1>7
  DEF sensorVars, ReadingInv, SensorType, BytesRead, ByteRead, ReadingServed, sumMatches, checksum
<1> QED BY <1>2, <1>3, <1>4, <1>5, <1>6, <1>7 DEF SensorNext

\* A reading that /dhtSensor.json reports is the one the sensor sent, whatever
\* the width of a byte, whichever byte the wire spoils and whichever pulse does
\* not come: the sum of the reading tells every single spoilt byte, and the
\* critical section is left before the response.
THEOREM ReadingIsTheOneSent == SensorSpec => []ReadingServed
<1>1. ReadingInv => ReadingServed
  BY DEF ReadingInv
<1> QED BY <1>1, ReadingInit, ReadingNext, PTL DEF SensorSpec

-----------------------------------------------------------------------------
(* The levels of a text *)

Less == {p \in Nat \X Nat : p[1] < p[2]}
LEMMA LeastMember ==
  ASSUME NEW T \in SUBSET Nat, T # {}
  PROVE  \E n \in T : \A k \in T : n <= k
<1>1. IsWellFoundedOn(Less, Nat)
  BY NatLessThanWellFounded DEF OpToRel, Less
<1>2. PICK n \in T : \A k \in T : ~ <<k, n>> \in Less
  BY <1>1, WFMin
<1>3. \A k \in T : n \in Nat /\ k \in Nat /\ ~ k < n
  BY <1>2 DEF Less
<1> QED BY <1>3

\* From i to e - 1 there is no separator, and there the level ends.
Ends(s, i, e) == /\ e \in i .. Len(s) + 1
                 /\ e = Len(s) + 1 \/ s[e] = "/"
                 /\ \A j \in i .. e - 1 : s[j] # "/"

LEMMA LevelEndIs ==
  ASSUME NEW C, NEW s \in Seq(C), NEW i \in 1 .. Len(s) + 1
  PROVE  /\ Ends(s, i, LevelEnd(s, i))
         /\ \A e : Ends(s, i, e) => e = LevelEnd(s, i)
<1> DEFINE T == {e \in i .. Len(s) + 1 : e = Len(s) + 1 \/ s[e] = "/"}
<1>1. PICK e \in T : \A k \in T : e <= k
  <2>1. T \in SUBSET Nat /\ Len(s) + 1 \in T
    OBVIOUS
  <2> HIDE DEF T
  <2> QED BY <2>1, LeastMember
<1>2. Ends(s, i, e)
  BY <1>1 DEF Ends
<1>3. Ends(s, i, LevelEnd(s, i))
  BY <1>2 DEF Ends, LevelEnd
<1>4. ASSUME NEW d, NEW c, Ends(s, i, d), Ends(s, i, c) PROVE d = c
  BY <1>4 DEF Ends
<1> QED BY <1>3, <1>4

LEMMA StartsFacts ==
  ASSUME NEW C, NEW s \in Seq(C)
  PROVE  /\ IsFiniteSet(Starts(s)) /\ Starts(s) \subseteq 1 .. Len(s) + 1 /\ 1 \in Starts(s)
         /\ Depth(s) \in Nat
         /\ \A i \in Starts(s) : /\ IsFiniteSet({j \in Starts(s) : j <= i})
                                 /\ Number(s, i) \in 1 .. Depth(s)
<1>1. Starts(s) \subseteq 1 .. Len(s) + 1 /\ 1 \in Starts(s)
  BY DEF Starts
<1>2. IsFiniteSet(1 .. Len(s) + 1)
  BY FS_Interval
<1>3. IsFiniteSet(Starts(s)) /\ Depth(s) \in Nat
  BY <1>1, <1>2, FS_Subset, FS_CardinalityType DEF Depth
<1>4. ASSUME NEW i \in Starts(s)
      PROVE  IsFiniteSet({j \in Starts(s) : j <= i}) /\ Number(s, i) \in 1 .. Depth(s)
  <2> DEFINE N == {j \in Starts(s) : j <= i}
  <2>1. N \subseteq Starts(s) /\ i \in N
    BY <1>1
  <2> HIDE DEF N
  <2>2. IsFiniteSet(N) /\ Cardinality(N) \in Nat /\ Cardinality(N) <= Cardinality(Starts(s)) /\ Cardinality(N) # 0
    BY <2>1, <1>3, FS_Subset, FS_CardinalityType, FS_EmptySet
  <2>3. Number(s, i) = Cardinality(N)
    BY DEF Number, N
  <2> QED BY <1>3, <2>2, <2>3 DEF Depth, N
<1> QED BY <1>1, <1>3, <1>4

LEMMA FirstStart ==
  ASSUME NEW C, NEW s \in Seq(C)
  PROVE  Number(s, 1) = 1
<1>1. {j \in Starts(s) : j <= 1} = {1}
  BY DEF Starts
<1> QED BY <1>1, FS_Singleton DEF Number

\* A later start has a larger number.
LEMMA NumberGrows ==
  ASSUME NEW C, NEW s \in Seq(C), NEW i \in Starts(s), NEW j \in Starts(s), i < j
  PROVE  Number(s, i) < Number(s, j)
<1> DEFINE N(k) == {x \in Starts(s) : x <= k}
<1>1. N(i) \subseteq N(j) /\ N(i) # N(j)
  <2>1. Starts(s) \subseteq Int
    BY StartsFacts
  <2>2. j \in N(j) /\ j \notin N(i)
    BY <2>1
  <2> QED BY <2>1, <2>2
<1>2. IsFiniteSet(N(i)) /\ IsFiniteSet(N(j))
  BY StartsFacts
<1>3. Number(s, i) = Cardinality(N(i)) /\ Number(s, j) = Cardinality(N(j))
  BY DEF Number
<1> HIDE DEF N
<1>4. Cardinality(N(i)) <= Cardinality(N(j)) /\ Cardinality(N(i)) # Cardinality(N(j))
  BY <1>1, <1>2, FS_Subset
<1>5. Cardinality(N(i)) \in Nat /\ Cardinality(N(j)) \in Nat
  BY <1>2, FS_CardinalityType
<1> QED BY <1>3, <1>4, <1>5

\* What there is to know of a level from where it starts and ends: its number,
\* its characters, and which level comes after it.
LEMMA LevelFacts ==
  ASSUME NEW C, NEW s \in Seq(C), NEW i \in Starts(s), NEW e, Ends(s, i, e)
  PROVE  /\ i \in 1 .. Len(s) + 1 /\ e \in i .. Len(s) + 1
         /\ Number(s, i) \in 1 .. Depth(s) /\ Depth(s) \in Nat
         /\ Level(s, Number(s, i)) = SubSeq(s, i, e - 1)
         /\ e = Len(s) + 1 => Number(s, i) = Depth(s)
         /\ e <= Len(s) => /\ e + 1 \in Starts(s) /\ Number(s, e + 1) = Number(s, i) + 1
                           /\ Number(s, i) < Depth(s)
<1>1. i \in 1 .. Len(s) + 1 /\ e \in i .. Len(s) + 1 /\ Number(s, i) \in 1 .. Depth(s) /\ Depth(s) \in Nat
  BY StartsFacts DEF Ends
<1>2. Level(s, Number(s, i)) = SubSeq(s, i, e - 1)
  <2> DEFINE first == CHOOSE j \in Starts(s) : Number(s, j) = Number(s, i)
  <2>1. first \in Starts(s) /\ Number(s, first) = Number(s, i)
    OBVIOUS
  <2> HIDE DEF first
  <2>2. first \in Int /\ i \in Int /\ Number(s, i) \in Int
    BY <1>1, <2>1, StartsFacts
  <2>3. first = i
    BY <2>1, <2>2, NumberGrows
  <2>4. LevelEnd(s, i) = e
    BY <1>1, LevelEndIs
  <2> QED BY <2>3, <2>4 DEF Level, first
<1>3. ASSUME e = Len(s) + 1 PROVE Number(s, i) = Depth(s)
  <2>1. {j \in Starts(s) : j <= i} = Starts(s)
    BY <1>1, <1>3 DEF Starts, Ends
  <2> QED BY <2>1 DEF Number, Depth
<1>4. ASSUME e <= Len(s)
      PROVE  e + 1 \in Starts(s) /\ Number(s, e + 1) = Number(s, i) + 1 /\ Number(s, i) < Depth(s)
  <2>1. s[e] = "/" /\ e + 1 \in Starts(s)
    BY <1>1, <1>4 DEF Ends, Starts
  <2> DEFINE N == {j \in Starts(s) : j <= i}
  <2>2. {j \in Starts(s) : j <= e + 1} = N \cup {e + 1} /\ e + 1 \notin N
    BY <1>1, <1>4, <2>1 DEF Starts, Ends
  <2>3. IsFiniteSet(N) /\ Number(s, i) = Cardinality(N)
    BY StartsFacts DEF Number
  <2> HIDE DEF N
  <2>4. Cardinality(N \cup {e + 1}) = Cardinality(N) + 1
    BY <2>2, <2>3, FS_AddElement
  <2>5. Number(s, e + 1) = Number(s, i) + 1
    BY <2>2, <2>3, <2>4 DEF Number
  <2>6. Number(s, e + 1) \in 1 .. Depth(s)
    BY <2>1, StartsFacts
  <2> QED BY <1>1, <2>1, <2>5, <2>6
<1> QED BY <1>1, <1>2, <1>3, <1>4

LEMMA CharactersOf ==
  ASSUME NEW C, NEW s \in Seq(C), NEW i \in 1 .. Len(s) + 1, NEW e \in i .. Len(s) + 1
  PROVE  /\ Len(SubSeq(s, i, e - 1)) = e - i /\ DOMAIN SubSeq(s, i, e - 1) = 1 .. e - i
         /\ \A x \in 1 .. e - i : SubSeq(s, i, e - 1)[x] = s[i + x - 1]
         /\ SubSeq(s, i, e - 1) \in Seq(C)
OBVIOUS

-----------------------------------------------------------------------------
(* The name and the filter, level by level *)

Plain(text) == \A x \in DOMAIN text : text[x] \notin {"+", "#"}
LevelAgrees(a, b, k) == \/ Level(b, k) = <<"+">>
                        \/ Level(b, k) = Level(a, k) /\ Plain(Level(a, k))
\* The same levels start at i and j, and those before them agree.
Reached(a, b, i, j) == /\ i \in Starts(a) /\ j \in Starts(b) /\ Number(a, i) = Number(b, j)
                       /\ \A k \in 1 .. Number(a, i) - 1 : LevelAgrees(a, b, k)
\* So do the characters before n and f, in these levels.
Agree(a, b, i, j, n, f) == /\ i <= n /\ j <= f /\ n - i = f - j
                           /\ \A d \in 0 .. n - i - 1 : a[i + d] = b[j + d] /\ a[i + d] # "/"
Asked(a, b) == /\ a \in Names /\ b \in Filters /\ a # b /\ ~(a[1] = "$" /\ b[1] \in {"+", "#"})
\* A name that is used up: its last character has not made the filter match,
\* or a '+' has taken the level before its last '/'.
UsedUp(a, b, n, f, i, j) ==
  n = Len(a) + 1 => \/ a[n - 1] = b[f - 1] /\ ~matchEndWildcardsSpecialCases(b, f - 1)
                    \/ i = n /\ Level(b, Number(b, j) - 1) = <<"+">>
InLevel(a, b, n, f, i, j) == Agree(a, b, i, j, n, f) /\ UsedUp(a, b, n, f, i, j)
\* A '+' has taken the end of the name.
AfterPlus(a, b, n, f, i, j) ==
  /\ n = Len(a) + 1 /\ i <= Len(a) /\ Ends(a, i, n)
  /\ b[j] = "+" /\ f = j + 1
At(a, b, n, f, i, j) == /\ Asked(a, b) /\ n \in 1 .. Len(a) + 1 /\ f \in 1 .. Len(b) + 1
                        /\ Reached(a, b, i, j)
Placed(a, b, n, f) == \E i, j : At(a, b, n, f, i, j) /\ (InLevel(a, b, n, f, i, j) \/ AfterPlus(a, b, n, f, i, j))
Right(a, b) == a = b \/ (Matches(a, b) /\ ~EndsInPlus(a, b))

MatchInv == /\ matchPc \in {"idle", "loop", "returned"}
            /\ matchPc = "idle" => nameIndex = 1 /\ filterIndex = 1
            /\ matchPc = "loop" => Placed(topicName, topicFilter, nameIndex, filterIndex)
            /\ TopicFaithful

LEMMA TextsAre ==
  ASSUME NEW a, NEW b, Asked(a, b)
  PROVE  /\ a \in Seq(Characters) /\ b \in Seq(Characters) /\ Len(a) \in Nat \ {0} /\ Len(b) \in Nat \ {0}
         /\ \A x \in 1 .. Len(a) : a[x] \notin {"+", "#"}
<1>1. a \in Seq(Characters) /\ b \in Seq(Characters) /\ a # <<>> /\ b # <<>>
  BY TopicsAssumption DEF Asked
<1>2. \A x \in 1 .. Len(a) : a[x] \notin {"+", "#"}
  BY <1>1, TopicsAssumption DEF Asked
<1> QED BY <1>1, <1>2

LEMMA PlacesAre ==
  ASSUME NEW a, NEW b, NEW n, NEW f, NEW i, NEW j, At(a, b, n, f, i, j)
  PROVE  /\ a \in Seq(Characters) /\ b \in Seq(Characters) /\ Len(a) \in Nat \ {0} /\ Len(b) \in Nat \ {0}
         /\ n \in 1 .. Len(a) + 1 /\ f \in 1 .. Len(b) + 1
         /\ i \in Starts(a) /\ j \in Starts(b) /\ i \in 1 .. Len(a) + 1 /\ j \in 1 .. Len(b) + 1
         /\ Number(a, i) = Number(b, j)
         /\ Number(a, i) \in 1 .. Depth(a) /\ Number(a, i) \in 1 .. Depth(b)
         /\ Depth(a) \in Nat /\ Depth(b) \in Nat
<1>1. a \in Seq(Characters) /\ b \in Seq(Characters) /\ Len(a) \in Nat \ {0} /\ Len(b) \in Nat \ {0}
  BY TextsAre DEF At
<1>2. n \in 1 .. Len(a) + 1 /\ f \in 1 .. Len(b) + 1 /\ i \in Starts(a) /\ j \in Starts(b)
      /\ Number(a, i) = Number(b, j)
  BY DEF At, Reached
<1>3. i \in 1 .. Len(a) + 1 /\ Number(a, i) \in 1 .. Depth(a) /\ Depth(a) \in Nat
  BY <1>1, <1>2, StartsFacts
<1>4. j \in 1 .. Len(b) + 1 /\ Number(b, j) \in 1 .. Depth(b) /\ Depth(b) \in Nat
  BY <1>1, <1>2, StartsFacts
<1> QED BY <1>1, <1>2, <1>3, <1>4

\* Levels that agree to their ends are the same, and without wildcards.
LEMMA SameLevel ==
  ASSUME NEW a, NEW b, NEW n, NEW f, NEW i, NEW j, At(a, b, n, f, i, j),
         Agree(a, b, i, j, n, f), Ends(a, i, n), Ends(b, j, f)
  PROVE  Level(b, Number(a, i)) = Level(a, Number(a, i)) /\ Plain(Level(a, Number(a, i)))
<1>0. /\ a \in Seq(Characters) /\ b \in Seq(Characters) /\ i \in Starts(a) /\ j \in Starts(b)
      /\ Len(a) \in Nat /\ Len(b) \in Nat /\ i \in 1 .. Len(a) + 1 /\ j \in 1 .. Len(b) + 1
      /\ Number(a, i) = Number(b, j) /\ Number(a, i) \in Nat /\ n \in Nat /\ f \in Nat
  BY PlacesAre
<1>1. Level(a, Number(a, i)) = SubSeq(a, i, n - 1) /\ Level(b, Number(a, i)) = SubSeq(b, j, f - 1)
  BY <1>0, LevelFacts
<1>2. /\ Len(SubSeq(a, i, n - 1)) = n - i /\ Len(SubSeq(b, j, f - 1)) = f - j
      /\ \A x \in 1 .. n - i : SubSeq(a, i, n - 1)[x] = a[i + x - 1]
      /\ \A x \in 1 .. f - j : SubSeq(b, j, f - 1)[x] = b[j + x - 1]
      /\ SubSeq(a, i, n - 1) \in Seq(Characters) /\ SubSeq(b, j, f - 1) \in Seq(Characters)
      /\ DOMAIN SubSeq(a, i, n - 1) = 1 .. n - i
  <2>1. n \in i .. Len(a) + 1 /\ f \in j .. Len(b) + 1
    BY DEF Ends
  <2>2. /\ Len(SubSeq(a, i, n - 1)) = n - i /\ DOMAIN SubSeq(a, i, n - 1) = 1 .. n - i
        /\ \A x \in 1 .. n - i : SubSeq(a, i, n - 1)[x] = a[i + x - 1]
        /\ SubSeq(a, i, n - 1) \in Seq(Characters)
    BY <1>0, <2>1
  <2>3. /\ Len(SubSeq(b, j, f - 1)) = f - j
        /\ \A x \in 1 .. f - j : SubSeq(b, j, f - 1)[x] = b[j + x - 1]
        /\ SubSeq(b, j, f - 1) \in Seq(Characters)
    BY <1>0, <2>1
  <2> QED BY <2>2, <2>3
<1>3. n - i = f - j /\ n - i \in Nat /\ \A x \in 1 .. n - i : a[i + x - 1] = b[j + x - 1]
  <2>1. n - i = f - j /\ n - i \in Nat
    BY PlacesAre DEF Agree
  <2>2. ASSUME NEW x \in 1 .. n - i PROVE a[i + x - 1] = b[j + x - 1]
    <3>1. x - 1 \in 0 .. n - i - 1 /\ i + (x - 1) = i + x - 1 /\ j + (x - 1) = j + x - 1
      BY PlacesAre, <2>1
    <3> QED BY <3>1 DEF Agree
  <2> QED BY <2>1, <2>2
<1>4. SubSeq(b, j, f - 1) = SubSeq(a, i, n - 1)
  <2> DEFINE l == SubSeq(a, i, n - 1)
             m == SubSeq(b, j, f - 1)
  <2>1. l \in Seq(Characters) /\ m \in Seq(Characters) /\ Len(l) = n - i /\ Len(m) = n - i
    BY <1>2, <1>3
  <2>2. \A x \in 1 .. n - i : m[x] = l[x]
    BY <1>2, <1>3
  <2> HIDE DEF l, m
  <2>3. m = l
    BY <2>1, <2>2
  <2> QED BY <2>3 DEF l, m
<1>5. Plain(SubSeq(a, i, n - 1))
  <2> SUFFICES ASSUME NEW x \in 1 .. n - i PROVE SubSeq(a, i, n - 1)[x] \notin {"+", "#"}
    BY <1>2 DEF Plain
  <2>1. i + x - 1 \in 1 .. Len(a)
    BY PlacesAre, <1>3
  <2> QED BY <1>2, <2>1, TextsAre DEF At
<1> QED BY <1>1, <1>4, <1>5

\* The next levels are reached when these agree.
LEMMA ReachedNext ==
  ASSUME NEW a, NEW b, NEW n, NEW f, NEW i, NEW j, At(a, b, n, f, i, j),
         NEW e, NEW c, Ends(a, i, e), Ends(b, j, c), e <= Len(a), c <= Len(b),
         LevelAgrees(a, b, Number(a, i))
  PROVE  Reached(a, b, e + 1, c + 1) /\ Number(a, e + 1) = Number(a, i) + 1
<1>0. /\ a \in Seq(Characters) /\ b \in Seq(Characters) /\ i \in Starts(a) /\ j \in Starts(b)
      /\ Len(a) \in Nat /\ Len(b) \in Nat /\ i \in 1 .. Len(a) + 1 /\ j \in 1 .. Len(b) + 1
      /\ Number(a, i) = Number(b, j) /\ Number(a, i) \in Nat /\ n \in Nat /\ f \in Nat
  BY PlacesAre
<1>1. /\ e + 1 \in Starts(a) /\ Number(a, e + 1) = Number(a, i) + 1
      /\ c + 1 \in Starts(b) /\ Number(b, c + 1) = Number(b, j) + 1
  BY <1>0, LevelFacts
<1>2. Number(a, i) \in Nat /\ Number(a, i) = Number(b, j) /\ \A k \in 1 .. Number(a, i) - 1 : LevelAgrees(a, b, k)
  BY <1>0 DEF At, Reached
<1>3. \A k \in 1 .. Number(a, e + 1) - 1 : LevelAgrees(a, b, k)
  <2> SUFFICES ASSUME NEW k \in 1 .. Number(a, i) + 1 - 1 PROVE LevelAgrees(a, b, k)
    BY <1>1, <1>2
  <2>1. k \in 1 .. Number(a, i) - 1 \/ k = Number(a, i)
    BY <1>2
  <2> QED BY <1>2, <2>1
<1> QED BY <1>1, <1>2, <1>3 DEF Reached

\* When the levels of a filter agree, but for a last '#', it matches.
LEMMA MatchesWhen ==
  ASSUME NEW a, NEW b, NEW K \in Nat, \A k \in 1 .. K : LevelAgrees(a, b, k), Asked(a, b),
         Depth(a) \in Nat,
         \/ Depth(b) = K /\ Depth(a) = K /\ K > 0
         \/ Depth(b) = K + 1 /\ Level(b, K + 1) = <<"#">> /\ Depth(a) >= K
  PROVE  Matches(a, b)
<1>1. \A k \in 1 .. K : Level(b, k) = <<"+">> \/ Plain(Level(b, k))
  BY DEF LevelAgrees
<1>2. ValidFilter(b)
  <2> SUFFICES ASSUME NEW k \in 1 .. Depth(b), NEW x \in DOMAIN Level(b, k)
               PROVE  /\ Level(b, k)[x] \in {"+", "#"} => Len(Level(b, k)) = 1
                      /\ Level(b, k)[x] = "#" => k = Depth(b)
    BY DEF ValidFilter
  <2>1. CASE Level(b, k) = <<"+">>
    BY <2>1
  <2>2. CASE Level(b, k) = <<"#">> /\ k = Depth(b)
    BY <2>2
  <2>3. CASE Plain(Level(b, k))
    BY <2>3 DEF Plain
  <2>4. k \in 1 .. K \/ (k = K + 1 /\ Depth(b) = K + 1 /\ Level(b, K + 1) = <<"#">>)
    OBVIOUS
  <2> QED BY <1>1, <2>1, <2>2, <2>3, <2>4
<1>3. Depth(b) = K /\ K > 0 => Level(b, Depth(b)) # <<"#">>
  <2> SUFFICES ASSUME Depth(b) = K, K > 0, Level(b, K) = <<"#">> PROVE FALSE
    OBVIOUS
  <2>1. Plain(<<"#">>)
    BY <1>1
  <2> QED BY <2>1 DEF Plain
<1>4. LevelsMatch(a, b)
  BY <1>3 DEF LevelsMatch, LevelAgrees
<1> QED BY <1>2, <1>4 DEF Matches, Asked

\* What a filter that matches says of one of its levels, and of the depths.
LEMMA MatchMeans ==
  ASSUME NEW a, NEW b, Matches(a, b), NEW k \in 1 .. Depth(b), Depth(a) \in Nat, Depth(b) \in Nat
  PROVE  /\ \/ Level(b, k) = <<"+">> \/ Level(b, k) = Level(a, k)
            \/ Level(b, k) = <<"#">> /\ k = Depth(b)
         /\ Level(b, Depth(b)) # <<"#">> => Depth(a) = Depth(b)
         /\ Level(b, Depth(b)) = <<"#">> => Depth(a) >= Depth(b) - 1
         /\ \A x \in DOMAIN Level(b, k) : /\ Level(b, k)[x] \in {"+", "#"} => Len(Level(b, k)) = 1
                                          /\ Level(b, k)[x] = "#" => k = Depth(b)
<1>1. LevelsMatch(a, b) /\ ValidFilter(b)
  BY DEF Matches
<1>2. \A x \in DOMAIN Level(b, k) : /\ Level(b, k)[x] \in {"+", "#"} => Len(Level(b, k)) = 1
                                    /\ Level(b, k)[x] = "#" => k = Depth(b)
  BY <1>1 DEF ValidFilter
<1>3. CASE Level(b, Depth(b)) = <<"#">>
  <2>1. Depth(a) >= Depth(b) - 1 /\ \A m \in 1 .. Depth(b) - 1 : Level(b, m) \in {<<"+">>, Level(a, m)}
    BY <1>1, <1>3 DEF LevelsMatch
  <2>2. k = Depth(b) \/ k \in 1 .. Depth(b) - 1
    OBVIOUS
  <2> QED BY <1>2, <1>3, <2>1, <2>2
<1>4. CASE Level(b, Depth(b)) # <<"#">>
  <2>1. Depth(a) = Depth(b) /\ \A m \in 1 .. Depth(b) : Level(b, m) \in {<<"+">>, Level(a, m)}
    BY <1>1, <1>4 DEF LevelsMatch
  <2> QED BY <1>2, <1>4, <2>1
<1> QED BY <1>3, <1>4

\* The levels of two places that agree go on at least to these places.
LEMMA AgreeFacts ==
  ASSUME NEW a, NEW b, NEW n, NEW f, NEW i, NEW j, At(a, b, n, f, i, j), Agree(a, b, i, j, n, f)
  PROVE  /\ n - i = f - j /\ n - i \in Nat
         /\ \A e : Ends(a, i, e) => e >= n
         /\ \A c : Ends(b, j, c) => c >= f
         /\ \A x \in 1 .. n - i : a[i + x - 1] = b[j + x - 1] /\ b[j + x - 1] \notin {"+", "#", "/"}
         /\ f > 1 /\ b[f - 1] = "/" => f = j /\ n = i
<1>0. /\ n \in 1 .. Len(a) + 1 /\ f \in 1 .. Len(b) + 1 /\ i \in 1 .. Len(a) + 1 /\ j \in 1 .. Len(b) + 1
      /\ Len(a) \in Nat /\ Len(b) \in Nat
  BY PlacesAre
<1>1. n - i = f - j /\ n - i \in Nat
  BY <1>0 DEF Agree
<1>2. ASSUME NEW x \in 1 .. n - i
      PROVE  /\ a[i + x - 1] = b[j + x - 1] /\ b[j + x - 1] \notin {"+", "#", "/"}
             /\ a[i + x - 1] # "/"
  <2>1. x - 1 \in 0 .. n - i - 1 /\ i + (x - 1) = i + x - 1 /\ j + (x - 1) = j + x - 1 /\ i + x - 1 \in 1 .. Len(a)
    BY <1>0, <1>1
  <2>2. a[i + x - 1] \notin {"+", "#"}
    BY <2>1, TextsAre DEF At
  <2> QED BY <2>1, <2>2 DEF Agree
<1>3. ASSUME NEW e, Ends(a, i, e) PROVE e >= n
  <2> SUFFICES ASSUME e < n PROVE FALSE
    BY <1>0, <1>3 DEF Ends
  <2>1. e \in Int /\ e >= i /\ a[e] = "/"
    BY <1>0, <1>3 DEF Ends
  <2>2. e - i + 1 \in 1 .. n - i /\ i + (e - i + 1) - 1 = e
    BY <1>0, <2>1
  <2> QED BY <1>2, <2>1, <2>2
<1>4. ASSUME NEW c, Ends(b, j, c) PROVE c >= f
  <2> SUFFICES ASSUME c < f PROVE FALSE
    BY <1>0, <1>4 DEF Ends
  <2>1. c \in Int /\ c >= j /\ b[c] = "/"
    BY <1>0, <1>4 DEF Ends
  <2>2. c - j + 1 \in 1 .. n - i /\ j + (c - j + 1) - 1 = c
    BY <1>0, <1>1, <2>1
  <2> QED BY <1>2, <2>1, <2>2
<1>5. ASSUME f > 1, b[f - 1] = "/" PROVE f = j /\ n = i
  <2> SUFFICES ASSUME f > j PROVE FALSE
    BY <1>0, <1>1 DEF Agree
  <2>1. f - j \in 1 .. n - i /\ j + (f - j) - 1 = f - 1
    BY <1>0, <1>1
  <2> QED BY <1>2, <1>5, <2>1
<1> QED BY <1>1, <1>2, <1>3, <1>4, <1>5
-----------------------------------------------------------------------------
(* Places and the levels around them *)

\* A level of one character, and one of none.
LEMMA SingleLevel ==
  ASSUME NEW C, NEW s \in Seq(C), NEW g \in Starts(s), g <= Len(s), s[g] # "/",
         g = Len(s) \/ s[g + 1] = "/"
  PROVE  Ends(s, g, g + 1) /\ Level(s, Number(s, g)) = <<s[g]>>
<1>0. g \in 1 .. Len(s) /\ Len(s) \in Nat
  BY StartsFacts
<1>1. Ends(s, g, g + 1)
  BY <1>0 DEF Ends
<1>2. PICK e : e = g + 1
  OBVIOUS
<1>3. Level(s, Number(s, g)) = SubSeq(s, g, e - 1)
  BY <1>1, <1>2, LevelFacts
<1>4. PICK t : t = SubSeq(s, g, e - 1)
  OBVIOUS
<1>5. t \in Seq(C) /\ Len(t) = 1 /\ t[1] = s[g]
  BY <1>0, <1>2, <1>4
<1>6. t = <<t[1]>>
  BY <1>5
<1> QED BY <1>1, <1>3, <1>4, <1>5, <1>6

LEMMA EmptyLevel ==
  ASSUME NEW C, NEW s \in Seq(C), NEW g \in Starts(s), g = Len(s) + 1 \/ s[g] = "/"
  PROVE  Ends(s, g, g) /\ Level(s, Number(s, g)) = <<>>
<1>0. g \in 1 .. Len(s) + 1 /\ Len(s) \in Nat
  BY StartsFacts
<1>1. Ends(s, g, g)
  BY <1>0 DEF Ends
<1>2. Level(s, Number(s, g)) = SubSeq(s, g, g - 1)
  BY <1>1, LevelFacts
<1>3. SubSeq(s, g, g - 1) = <<>>
  BY <1>0
<1> QED BY <1>1, <1>2, <1>3

\* The number of the level after this one.
LEMMA NextLevel ==
  ASSUME NEW C, NEW s \in Seq(C), NEW i \in Starts(s), NEW e, Ends(s, i, e), e <= Len(s), NEW g, g = e + 1
  PROVE  g \in Starts(s) /\ Number(s, g) = Number(s, i) + 1 /\ Number(s, i) < Depth(s)
BY LevelFacts

LEMMA LastLevel ==
  ASSUME NEW C, NEW s \in Seq(C), NEW i \in Starts(s), NEW e, Ends(s, i, e), e = Len(s) + 1
  PROVE  Depth(s) = Number(s, i)
BY LevelFacts

LEMMA LevelLength ==
  ASSUME NEW C, NEW s \in Seq(C), NEW i \in Starts(s), NEW e, Ends(s, i, e)
  PROVE  Len(Level(s, Number(s, i))) = e - i
<1>1. Level(s, Number(s, i)) = SubSeq(s, i, e - 1)
  BY LevelFacts
<1>2. i \in 1 .. Len(s) + 1 /\ e \in i .. Len(s) + 1
  BY StartsFacts DEF Ends
<1> QED BY <1>1, <1>2, CharactersOf

LEMMA LevelCharacters ==
  ASSUME NEW C, NEW s \in Seq(C), NEW i \in Starts(s), NEW e, Ends(s, i, e)
  PROVE  \A x \in 1 .. e - i : Level(s, Number(s, i))[x] = s[i + x - 1]
<1>1. Level(s, Number(s, i)) = SubSeq(s, i, e - 1)
  BY LevelFacts
<1>2. i \in 1 .. Len(s) + 1 /\ e \in i .. Len(s) + 1
  BY StartsFacts DEF Ends
<1> QED BY <1>1, <1>2, CharactersOf

\* Texts that agree up to a separator, or their end, end a level there.
LEMMA AgreeEnds ==
  ASSUME NEW a, NEW b, NEW n, NEW f, NEW i, NEW j, At(a, b, n, f, i, j), Agree(a, b, i, j, n, f)
  PROVE  /\ n = Len(a) + 1 \/ a[n] = "/" => Ends(a, i, n)
         /\ f = Len(b) + 1 \/ b[f] = "/" => Ends(b, j, f)
<1>0. /\ n \in 1 .. Len(a) + 1 /\ f \in 1 .. Len(b) + 1 /\ i \in 1 .. Len(a) + 1 /\ j \in 1 .. Len(b) + 1
      /\ Len(a) \in Nat /\ Len(b) \in Nat
  BY PlacesAre
<1>1. n - i = f - j /\ n - i \in Nat /\ \A x \in 1 .. n - i : a[i + x - 1] = b[j + x - 1] /\ b[j + x - 1] # "/"
  BY AgreeFacts
<1>2. ASSUME NEW d \in i .. n - 1 PROVE a[d] # "/"
  <2>1. d - i + 1 \in 1 .. n - i /\ i + (d - i + 1) - 1 = d
    BY <1>0
  <2> QED BY <1>1, <2>1
<1>3. ASSUME NEW d \in j .. f - 1 PROVE b[d] # "/"
  <2>1. d - j + 1 \in 1 .. n - i /\ j + (d - j + 1) - 1 = d
    BY <1>0, <1>1
  <2> QED BY <1>1, <2>1
<1> QED BY <1>0, <1>1, <1>2, <1>3 DEF Ends

\* A character more.
LEMMA AgreeOn ==
  ASSUME NEW a, NEW b, NEW n, NEW f, NEW i, NEW j, At(a, b, n, f, i, j), Agree(a, b, i, j, n, f),
         n <= Len(a), f <= Len(b), a[n] = b[f], a[n] # "/", NEW m, m = n + 1, NEW g, g = f + 1
  PROVE  At(a, b, m, g, i, j) /\ Agree(a, b, i, j, m, g)
<1>0. /\ n \in 1 .. Len(a) + 1 /\ f \in 1 .. Len(b) + 1 /\ i \in 1 .. Len(a) + 1 /\ j \in 1 .. Len(b) + 1
      /\ Len(a) \in Nat /\ Len(b) \in Nat
  BY PlacesAre
<1>1. At(a, b, m, g, i, j)
  BY <1>0 DEF At
<1>2. n - i = f - j /\ n - i \in Nat
  BY <1>0 DEF Agree
<1>3. ASSUME NEW d \in 0 .. m - i - 1 PROVE a[i + d] = b[j + d] /\ a[i + d] # "/"
  <2>1. d \in 0 .. n - i - 1 \/ (i + d = n /\ j + d = f)
    BY <1>0, <1>2
  <2> QED BY <2>1 DEF Agree
<1> QED BY <1>0, <1>1, <1>2, <1>3 DEF Agree

\* The levels agree up to and including this one.
LEMMA AgreeThrough ==
  ASSUME NEW a, NEW b, NEW n, NEW f, NEW i, NEW j, At(a, b, n, f, i, j), LevelAgrees(a, b, Number(a, i))
  PROVE  \A m \in 1 .. Number(a, i) : LevelAgrees(a, b, m)
<1>1. Number(a, i) \in Nat
  BY PlacesAre
<1>2. \A m \in 1 .. Number(a, i) - 1 : LevelAgrees(a, b, m)
  BY DEF At, Reached
<1>3. \A m \in 1 .. Number(a, i) : m = Number(a, i) \/ m \in 1 .. Number(a, i) - 1
  BY <1>1
<1> QED BY <1>2, <1>3

-----------------------------------------------------------------------------
(* What the loop returns *)

LEMMA NoWildcard ==
  ASSUME NEW l, Plain(l)
  PROVE  l # <<"+">> /\ l # <<"#">>
BY DEF Plain

\* TRUE for "/#" after the end of the name.
LEMMA HashAfterEnd ==
  ASSUME NEW a, NEW b, NEW n, NEW f, NEW i, NEW j, At(a, b, n, f, i, j), Agree(a, b, i, j, n, f),
         n = Len(a) + 1, f + 1 = Len(b), b[f] = "/", b[f + 1] = "#", i < n
  PROVE  Right(a, b)
<1>0. /\ a \in Seq(Characters) /\ b \in Seq(Characters) /\ i \in Starts(a) /\ j \in Starts(b)
      /\ Len(a) \in Nat /\ Len(b) \in Nat /\ i \in 1 .. Len(a) + 1 /\ f \in 1 .. Len(b)
      /\ Number(a, i) = Number(b, j) /\ Depth(a) \in Nat /\ Depth(b) \in Nat
  BY PlacesAre
<1>1. Ends(a, i, n) /\ Ends(b, j, f)
  BY AgreeEnds
<1>2. PICK k : k = Number(a, i)
  OBVIOUS
<1>3. k \in Nat \ {0} /\ Number(b, j) = k /\ Depth(a) = k
  BY <1>0, <1>1, <1>2, LastLevel, PlacesAre
<1>4. Level(b, k) = Level(a, k) /\ Plain(Level(a, k))
  BY <1>1, <1>2, SameLevel
<1>5. \A m \in 1 .. k : LevelAgrees(a, b, m)
  BY <1>2, <1>4, AgreeThrough DEF LevelAgrees
<1>6. PICK g : g = f + 1
  OBVIOUS
<1>7. g \in Starts(b) /\ Number(b, g) = k + 1 /\ g = Len(b)
  BY <1>0, <1>1, <1>3, <1>6, NextLevel
<1>8. Level(b, k + 1) = <<"#">> /\ Depth(b) = k + 1
  <2>1. b[g] = "#"
    BY <1>6
  <2>2. Ends(b, g, g + 1) /\ Level(b, Number(b, g)) = <<b[g]>>
    BY <1>0, <1>7, <2>1, SingleLevel
  <2>3. Depth(b) = Number(b, g)
    BY <1>0, <1>7, <2>2, LastLevel
  <2> QED BY <1>7, <2>1, <2>2, <2>3
<1>9. Matches(a, b)
  <2>1. Asked(a, b) /\ Depth(a) >= k
    BY <1>0, <1>3 DEF At
  <2> QED BY <1>0, <1>3, <1>5, <1>8, <2>1, MatchesWhen
<1>10. Level(a, k) # <<>>
  <2>1. Len(Level(a, Number(a, i))) = n - i
    BY <1>0, <1>1, LevelLength
  <2>2. n - i # 0
    BY <1>0
  <2> QED BY <1>2, <2>1, <2>2
<1>11. ~EndsInPlus(a, b)
  BY <1>3, <1>4, <1>10, NoWildcard DEF EndsInPlus
<1> QED BY <1>9, <1>11 DEF Right

\* TRUE for a wildcard after the last '/' of the name, or "/#" there.
LEMMA WildcardAfterSlash ==
  ASSUME NEW a, NEW b, NEW n, NEW f, NEW i, NEW j, At(a, b, n, f, i, j), Agree(a, b, i, j, n, f),
         n = Len(a), a[n] = "/", f < Len(b), b[f] = "/",
         \/ f = Len(b) - 1 /\ b[f + 1] \in {"+", "#"}
         \/ f = Len(b) - 2 /\ b[f + 1] = "/" /\ b[f + 2] = "#"
  PROVE  Right(a, b)
<1>0. /\ a \in Seq(Characters) /\ b \in Seq(Characters) /\ i \in Starts(a) /\ j \in Starts(b)
      /\ Len(a) \in Nat /\ Len(b) \in Nat /\ i \in 1 .. Len(a) + 1 /\ f \in 1 .. Len(b) /\ n \in 1 .. Len(a)
      /\ Number(a, i) = Number(b, j) /\ Depth(a) \in Nat /\ Depth(b) \in Nat /\ Asked(a, b)
  <2>1. Asked(a, b)
    BY DEF At
  <2> QED BY <2>1, PlacesAre
<1>1. Ends(a, i, n) /\ Ends(b, j, f)
  BY AgreeEnds
<1>2. PICK k : k = Number(a, i)
  OBVIOUS
<1>3. k \in Nat \ {0} /\ Number(b, j) = k
  BY <1>2, PlacesAre
<1>4. Level(b, k) = Level(a, k) /\ Plain(Level(a, k))
  BY <1>1, <1>2, SameLevel
<1>5. \A m \in 1 .. k : LevelAgrees(a, b, m)
  BY <1>2, <1>4, AgreeThrough DEF LevelAgrees
<1>6. PICK g, h : g = f + 1 /\ h = n + 1
  OBVIOUS
<1>7. g \in Starts(b) /\ Number(b, g) = k + 1
  BY <1>0, <1>1, <1>3, <1>6, NextLevel
<1>8. h \in Starts(a) /\ Number(a, h) = k + 1
  BY <1>0, <1>1, <1>2, <1>6, NextLevel
<1>9. Level(a, k + 1) = <<>> /\ Depth(a) = k + 1
  <2>1. Ends(a, h, h) /\ Level(a, Number(a, h)) = <<>>
    BY <1>0, <1>6, <1>8, EmptyLevel
  <2>2. Depth(a) = Number(a, h)
    BY <1>0, <1>6, <1>8, <2>1, LastLevel
  <2> QED BY <1>8, <2>1, <2>2
<1>10. Level(b, k) # <<"+">>
  BY <1>4, NoWildcard
<1>11. CASE f = Len(b) - 1 /\ b[f + 1] \in {"+", "#"}
  <2>1. g = Len(b) /\ b[g] \in {"+", "#"} /\ b[g] # "/"
    BY <1>0, <1>6, <1>11
  <2>2. Level(b, k + 1) = <<b[g]>> /\ Depth(b) = k + 1
    <3>1. Ends(b, g, g + 1) /\ Level(b, Number(b, g)) = <<b[g]>>
      BY <1>0, <1>7, <2>1, SingleLevel
    <3>2. Depth(b) = Number(b, g)
      BY <1>0, <1>7, <2>1, <3>1, LastLevel
    <3> QED BY <1>7, <3>1, <3>2
  <2>3. Matches(a, b)
    <3>1. CASE b[g] = "#"
      <4>1. Level(b, k + 1) = <<"#">> /\ Depth(a) >= k /\ k \in Nat
        BY <1>3, <1>9, <2>2, <3>1
      <4> QED BY <1>0, <1>5, <2>2, <4>1, MatchesWhen
    <3>2. CASE b[g] = "+"
      <4>1. LevelAgrees(a, b, k + 1)
        BY <2>2, <3>2 DEF LevelAgrees
      <4>2. \A m \in 1 .. k + 1 : m = k + 1 \/ m \in 1 .. k
        BY <1>3
      <4>3. \A m \in 1 .. k + 1 : LevelAgrees(a, b, m)
        BY <1>5, <4>1, <4>2
      <4>4. k + 1 \in Nat /\ k + 1 > 0
        BY <1>3
      <4> QED BY <1>0, <1>9, <2>2, <4>3, <4>4, MatchesWhen
    <3> QED BY <2>1, <3>1, <3>2
  <2>4. ~EndsInPlus(a, b)
    BY <1>3, <1>9, <1>10, <2>2 DEF EndsInPlus
  <2> QED BY <2>3, <2>4 DEF Right
<1>12. CASE f = Len(b) - 2 /\ b[f + 1] = "/" /\ b[f + 2] = "#"
  <2>1. PICK e : e = g + 1
    OBVIOUS
  <2>2. g + 1 = Len(b) /\ e = Len(b) /\ b[g] = "/" /\ b[e] = "#"
    BY <1>0, <1>6, <1>12, <2>1
  <2>3. Ends(b, g, g) /\ Level(b, k + 1) = <<>>
    BY <1>0, <1>7, <2>2, EmptyLevel
  <2>4. e \in Starts(b) /\ Number(b, e) = k + 2
    <3>1. g <= Len(b)
      BY <1>0, <2>1, <2>2, <1>6
    <3>2. e \in Starts(b) /\ Number(b, e) = Number(b, g) + 1
      BY <1>0, <1>7, <2>1, <2>3, <3>1, NextLevel
    <3> QED BY <1>3, <1>7, <3>2
  <2>5. Level(b, k + 2) = <<"#">> /\ Depth(b) = k + 2
    <3>1. Ends(b, e, e + 1) /\ Level(b, Number(b, e)) = <<b[e]>>
      BY <1>0, <2>2, <2>4, SingleLevel
    <3>2. Depth(b) = Number(b, e)
      BY <1>0, <2>2, <2>4, <3>1, LastLevel
    <3> QED BY <2>2, <2>4, <3>1, <3>2
  <2>6. \A m \in 1 .. k + 1 : LevelAgrees(a, b, m)
    <3>1. LevelAgrees(a, b, k + 1)
      BY <1>9, <2>3 DEF LevelAgrees, Plain
    <3>2. \A m \in 1 .. k + 1 : m = k + 1 \/ m \in 1 .. k
      BY <1>3
    <3> QED BY <1>5, <3>1, <3>2
  <2>7. Matches(a, b)
    <3>1. PICK K : K = k + 1
      OBVIOUS
    <3>2. K \in Nat /\ K + 1 = k + 2 /\ Depth(a) >= K /\ \A m \in 1 .. K : LevelAgrees(a, b, m)
      BY <1>3, <1>9, <2>6, <3>1
    <3> QED BY <1>0, <2>5, <3>2, MatchesWhen
  <2>8. ~EndsInPlus(a, b)
    <3>1. Level(b, k + 1) # <<"+">>
      BY <2>3
    <3> QED BY <1>3, <1>9, <1>10, <3>1 DEF EndsInPlus
  <2> QED BY <2>7, <2>8 DEF Right
<1> QED BY <1>11, <1>12

LEMMA SpecialIsRight ==
  ASSUME NEW a, NEW b, NEW n, NEW f, NEW i, NEW j, At(a, b, n, f, i, j), Agree(a, b, i, j, n, f),
         n = Len(a), f <= Len(b), a[n] = b[f], matchEndWildcardsSpecialCases(b, f)
  PROVE  Right(a, b)
<1>0. /\ n \in 1 .. Len(a) /\ f \in 1 .. Len(b) /\ i \in 1 .. Len(a) + 1 /\ Len(a) \in Nat /\ Len(b) \in Nat
      /\ i <= n
  BY PlacesAre DEF Agree
<1>1. CASE a[n] # "/"
  <2>1. PICK m, g : m = n + 1 /\ g = f + 1
    OBVIOUS
  <2>2. At(a, b, m, g, i, j) /\ Agree(a, b, i, j, m, g)
    BY <1>0, <1>1, <2>1, AgreeOn
  <2>3. g + 1 = Len(b) /\ b[g] = "/" /\ b[g + 1] = "#" /\ m = Len(a) + 1 /\ i < m
    BY <1>0, <1>1, <2>1 DEF matchEndWildcardsSpecialCases
  <2> QED BY <2>2, <2>3, HashAfterEnd
<1>2. CASE a[n] = "/"
  <2>1. /\ b[f] = "/" /\ f < Len(b)
        /\ \/ f = Len(b) - 1 /\ b[f + 1] \in {"+", "#"}
           \/ f = Len(b) - 2 /\ b[f + 1] = "/" /\ b[f + 2] = "#"
    BY <1>0, <1>2 DEF matchEndWildcardsSpecialCases
  <2> QED BY <1>2, <2>1, WildcardAfterSlash
<1> QED BY <1>1, <1>2

\* TRUE for a '#' that is all that is left of the filter.
LEMMA HashIsRight ==
  ASSUME NEW a, NEW b, NEW n, NEW f, NEW i, NEW j, At(a, b, n, f, i, j), Agree(a, b, i, j, n, f),
         n <= Len(a), f = Len(b), b[f] = "#", f > 1 => b[f - 1] = "/"
  PROVE  Right(a, b)
<1>0. /\ a \in Seq(Characters) /\ b \in Seq(Characters) /\ i \in Starts(a) /\ j \in Starts(b)
      /\ Len(a) \in Nat /\ Len(b) \in Nat /\ i \in 1 .. Len(a) + 1 /\ j \in 1 .. Len(b) + 1
      /\ f \in 1 .. Len(b) /\ n \in 1 .. Len(a)
      /\ Number(a, i) = Number(b, j) /\ Depth(a) \in Nat /\ Depth(b) \in Nat
  BY PlacesAre
<1>1. f = j /\ n = i
  <2>1. CASE f = 1
    BY <1>0, <2>1 DEF Agree
  <2>2. CASE f > 1
    BY <2>2, AgreeFacts
  <2> QED BY <1>0, <2>1, <2>2
<1>2. PICK k : k = Number(a, i)
  OBVIOUS
<1>3. k \in Nat \ {0} /\ Number(b, j) = k /\ k <= Depth(a)
  BY <1>2, PlacesAre
<1>4. Level(b, k) = <<"#">> /\ Depth(b) = k
  <2>1. b[j] # "/" /\ b[j] = "#" /\ j = Len(b)
    BY <1>1
  <2>2. Ends(b, j, j + 1) /\ Level(b, Number(b, j)) = <<b[j]>>
    BY <1>0, <2>1, SingleLevel
  <2>3. Depth(b) = Number(b, j)
    BY <1>0, <2>1, <2>2, LastLevel
  <2> QED BY <1>3, <2>1, <2>2, <2>3
<1>5. Matches(a, b)
  <2>1. PICK K : K = k - 1
    OBVIOUS
  <2>2. K \in Nat /\ K + 1 = k /\ Depth(a) >= K
    BY <1>0, <1>3, <2>1
  <2>3. Asked(a, b) /\ \A m \in 1 .. K : LevelAgrees(a, b, m)
    BY <1>2, <2>1 DEF At, Reached
  <2> QED BY <1>0, <1>4, <2>2, <2>3, MatchesWhen
<1>6. Depth(a) = k => Level(a, k) # <<>>
  <2>1. PICK e : Ends(a, i, e)
    BY <1>0, LevelEndIs
  <2>2. e \in Int /\ e >= i
    BY <1>0, <2>1 DEF Ends
  <2>3. e <= Len(a) => k < Depth(a)
    BY <1>0, <1>2, <2>1, NextLevel
  <2>4. Len(Level(a, k)) = e - i
    BY <1>0, <1>2, <2>1, LevelLength
  <2>5. Len(<<>>) = 0
    OBVIOUS
  <2> QED BY <1>0, <1>1, <1>3, <2>2, <2>3, <2>4, <2>5
<1>7. ~EndsInPlus(a, b)
  BY <1>0, <1>3, <1>4, <1>6 DEF EndsInPlus
<1> QED BY <1>5, <1>7 DEF Right

\* TRUE when both are used up.
LEMMA EndIsRight ==
  ASSUME NEW a, NEW b, NEW n, NEW f, NEW i, NEW j, At(a, b, n, f, i, j),
         Agree(a, b, i, j, n, f) \/ AfterPlus(a, b, n, f, i, j),
         n = Len(a) + 1, f = Len(b) + 1
  PROVE  Right(a, b)
<1>0. /\ a \in Seq(Characters) /\ b \in Seq(Characters) /\ i \in Starts(a) /\ j \in Starts(b)
      /\ Len(a) \in Nat /\ Len(b) \in Nat /\ i \in 1 .. Len(a) + 1 /\ j \in 1 .. Len(b) + 1
      /\ Number(a, i) = Number(b, j) /\ Depth(a) \in Nat /\ Depth(b) \in Nat
  BY PlacesAre
<1>1. PICK k : k = Number(a, i)
  OBVIOUS
<1>2. k \in Nat \ {0} /\ Number(b, j) = k
  BY <1>1, PlacesAre
<1>3. CASE Agree(a, b, i, j, n, f)
  <2>1. Ends(a, i, n) /\ Ends(b, j, f)
    BY <1>3, AgreeEnds
  <2>2. Level(b, k) = Level(a, k) /\ Plain(Level(a, k))
    BY <1>1, <1>3, <2>1, SameLevel
  <2>3. Depth(a) = k /\ Depth(b) = k
    BY <1>0, <1>1, <1>2, <2>1, LastLevel
  <2>4. \A m \in 1 .. k : LevelAgrees(a, b, m)
    BY <1>1, <2>2, AgreeThrough DEF LevelAgrees
  <2>5. Matches(a, b)
    <3>1. Asked(a, b) /\ k > 0
      BY <1>2 DEF At
    <3> QED BY <1>2, <2>3, <2>4, <3>1, MatchesWhen
  <2>6. ~EndsInPlus(a, b)
    BY <1>2, <2>2, <2>3, NoWildcard DEF EndsInPlus
  <2> QED BY <2>5, <2>6 DEF Right
<1>4. CASE AfterPlus(a, b, n, f, i, j)
  <2>1. Ends(a, i, n) /\ b[j] = "+" /\ b[j] # "/" /\ j = Len(b) /\ i <= Len(a)
    BY <1>0, <1>4 DEF AfterPlus
  <2>2. Ends(b, j, j + 1) /\ Level(b, Number(b, j)) = <<b[j]>>
    BY <1>0, <2>1, SingleLevel
  <2>3. Depth(b) = Number(b, j)
    BY <1>0, <2>1, <2>2, LastLevel
  <2>4. Depth(a) = k
    BY <1>0, <1>1, <2>1, LastLevel
  <2>5. Level(b, k) = <<"+">> /\ Depth(b) = k
    BY <1>2, <2>1, <2>2, <2>3
  <2>6. \A m \in 1 .. k : LevelAgrees(a, b, m)
    BY <1>1, <2>5, AgreeThrough DEF LevelAgrees
  <2>7. Matches(a, b)
    <3>1. Asked(a, b) /\ k > 0
      BY <1>2 DEF At
    <3> QED BY <1>2, <2>4, <2>5, <2>6, <3>1, MatchesWhen
  <2>8. Level(a, k) # <<>>
    <3>1. Len(Level(a, k)) = n - i
      BY <1>0, <1>1, <2>1, LevelLength
    <3>2. n - i # 0 /\ Len(<<>>) = 0
      BY <1>0, <2>1
    <3> QED BY <3>1, <3>2
  <2>9. ~EndsInPlus(a, b)
    BY <1>2, <2>4, <2>5, <2>8 DEF EndsInPlus
  <2> QED BY <2>7, <2>9 DEF Right
<1> QED BY <1>3, <1>4

\* How a level of the name that ends at e can be read by a level of the filter
\* that ends at c.
ReadBy(a, b, n, f, i, j, e, c) ==
  /\ e \in n .. Len(a) + 1 /\ c \in f .. Len(b) + 1
  /\ \/ /\ Level(b, Number(a, i)) = <<"+">>
        /\ f = j /\ n = i /\ c = j + 1 /\ b[j] = "+"
     \/ /\ Level(b, Number(a, i)) = <<"#">> /\ Number(a, i) = Depth(b)
        /\ f = j /\ n = i /\ c = j + 1 /\ j = Len(b) /\ b[j] = "#"
     \/ /\ Level(b, Number(a, i)) = Level(a, Number(a, i)) /\ e - i = c - j
        /\ \A x \in 1 .. e - i : a[i + x - 1] = b[j + x - 1]

\* The levels of a place, when the filter does match.
LEMMA MatchAt ==
  ASSUME NEW a, NEW b, NEW n, NEW f, NEW i, NEW j, At(a, b, n, f, i, j), Agree(a, b, i, j, n, f),
         NEW e, NEW c, Ends(a, i, e), Ends(b, j, c), Matches(a, b)
  PROVE  ReadBy(a, b, n, f, i, j, e, c)
<1>k. PICK k : k = Number(a, i)
  OBVIOUS
<1>0. /\ a \in Seq(Characters) /\ b \in Seq(Characters) /\ i \in Starts(a) /\ j \in Starts(b)
      /\ Len(a) \in Nat /\ Len(b) \in Nat /\ i \in 1 .. Len(a) + 1 /\ j \in 1 .. Len(b) + 1
      /\ n \in 1 .. Len(a) + 1 /\ f \in 1 .. Len(b) + 1
      /\ Number(b, j) = k /\ k \in 1 .. Depth(b) /\ Depth(a) \in Nat /\ Depth(b) \in Nat
  BY <1>k, PlacesAre
<1>1. n - i = f - j /\ n - i \in Nat /\ \A x \in 1 .. n - i : b[j + x - 1] \notin {"+", "#", "/"}
  BY AgreeFacts
<1>2. e \in n .. Len(a) + 1 /\ c \in f .. Len(b) + 1
  <2>1. e \in Int /\ e <= Len(a) + 1 /\ c \in Int /\ c <= Len(b) + 1
    BY <1>0 DEF Ends
  <2>2. e >= n /\ c >= f
    BY AgreeFacts
  <2> QED BY <1>0, <2>1, <2>2
<1>3. /\ Len(Level(a, k)) = e - i /\ Len(Level(b, k)) = c - j
      /\ \A x \in 1 .. e - i : Level(a, k)[x] = a[i + x - 1]
      /\ \A x \in 1 .. c - j : Level(b, k)[x] = b[j + x - 1]
  <2>1. Len(Level(a, k)) = e - i /\ \A x \in 1 .. e - i : Level(a, k)[x] = a[i + x - 1]
    BY <1>0, <1>k, LevelLength, LevelCharacters
  <2>2. Len(Level(b, k)) = c - j /\ \A x \in 1 .. c - j : Level(b, k)[x] = b[j + x - 1]
    BY <1>0, LevelLength, LevelCharacters
  <2> QED BY <2>1, <2>2
<1>4. ASSUME NEW w \in {"+", "#"}, Level(b, k) = <<w>>
      PROVE  c = j + 1 /\ f = j /\ n = i /\ b[j] = w
  <2>1. c - j = 1 /\ c = j + 1
    BY <1>0, <1>2, <1>3, <1>4
  <2>2. b[j + 1 - 1] = w
    <3>1. 1 \in 1 .. c - j
      BY <2>1
    <3>2. Level(b, k)[1] = b[j + 1 - 1]
      BY <1>3, <3>1
    <3> QED BY <1>4, <3>2
  <2>3. ~ f > j
    <3> SUFFICES ASSUME f > j PROVE FALSE
      OBVIOUS
    <3>1. 1 \in 1 .. n - i
      BY <1>0, <1>1
    <3> QED BY <1>1, <2>2, <3>1
  <2>4. j + 1 - 1 = j
    BY <1>0
  <2> QED BY <1>0, <1>1, <2>1, <2>2, <2>3, <2>4
<1>5. \/ Level(b, k) = <<"+">> \/ Level(b, k) = Level(a, k)
      \/ Level(b, k) = <<"#">> /\ k = Depth(b)
  BY <1>0, MatchMeans
<1>6. CASE Level(b, k) = <<"+">>
  BY <1>2, <1>4, <1>6, <1>k DEF ReadBy
<1>7. CASE Level(b, k) = <<"#">> /\ k = Depth(b)
  <2>1. c = j + 1 /\ f = j /\ n = i /\ b[j] = "#"
    BY <1>4, <1>7
  <2>2. c <= Len(b) => Number(b, j) < Depth(b)
    BY <1>0, NextLevel
  <2>3. j = Len(b)
    BY <1>0, <1>2, <1>7, <2>1, <2>2
  <2> QED BY <1>2, <1>7, <2>1, <2>3, <1>k DEF ReadBy
<1>8. CASE Level(b, k) = Level(a, k)
  BY <1>2, <1>3, <1>8, <1>k DEF ReadBy
<1> QED BY <1>5, <1>6, <1>7, <1>8

\* FALSE for characters that differ, where no wildcard of the filter goes on.
LEMMA MismatchFails ==
  ASSUME NEW a, NEW b, NEW n, NEW f, NEW i, NEW j, At(a, b, n, f, i, j), Agree(a, b, i, j, n, f),
         NEW e, Ends(a, i, e), n <= Len(a), f <= Len(b), a[n] # b[f],
         f = j => /\ ~(b[f] = "#" /\ f = Len(b))
                  /\ b[f] = "+" => e <= Len(a) /\ (f = Len(b) \/ b[f + 1] # "/")
  PROVE  ~Right(a, b)
<1> SUFFICES ASSUME Matches(a, b) PROVE FALSE
  BY DEF Right, At, Asked
<1>0. /\ a \in Seq(Characters) /\ b \in Seq(Characters) /\ i \in Starts(a) /\ j \in Starts(b)
      /\ Len(a) \in Nat /\ Len(b) \in Nat /\ i \in 1 .. Len(a) + 1 /\ j \in 1 .. Len(b) + 1
      /\ n \in 1 .. Len(a) /\ f \in 1 .. Len(b)
      /\ Number(a, i) = Number(b, j) /\ Depth(a) \in Nat /\ Depth(b) \in Nat
  BY PlacesAre
<1>1. PICK k : k = Number(a, i)
  OBVIOUS
<1>2. k \in 1 .. Depth(b) /\ Number(b, j) = k
  BY <1>1, PlacesAre
<1>3. PICK c : Ends(b, j, c)
  BY <1>0, LevelEndIs
<1>4. /\ e \in n .. Len(a) + 1 /\ c \in f .. Len(b) + 1
      /\ \/ Level(b, k) = <<"+">> /\ f = j /\ n = i /\ c = j + 1 /\ b[j] = "+"
         \/ Level(b, k) = <<"#">> /\ k = Depth(b) /\ f = j /\ n = i /\ c = j + 1 /\ j = Len(b) /\ b[j] = "#"
         \/ /\ Level(b, k) = Level(a, k) /\ e - i = c - j
            /\ \A x \in 1 .. e - i : a[i + x - 1] = b[j + x - 1]
  <2>1. ReadBy(a, b, n, f, i, j, e, c)
    BY <1>3, MatchAt
  <2> QED BY <1>1, <2>1 DEF ReadBy
<1>5. CASE Level(b, k) = <<"+">> /\ f = j /\ n = i /\ c = j + 1 /\ b[j] = "+"
  <2>1. e <= Len(a) /\ (f = Len(b) \/ b[f + 1] # "/")
    BY <1>5
  <2>2. c = Len(b) + 1
    BY <1>0, <1>3, <1>5, <2>1 DEF Ends
  <2>3. Depth(b) = k
    BY <1>0, <1>2, <1>3, <2>2, LastLevel
  <2>4. Depth(a) = Depth(b)
    <3>1. Level(b, Depth(b)) # <<"#">>
      BY <1>5, <2>3
    <3> QED BY <1>0, <1>2, <3>1, MatchMeans
  <2>5. Number(a, i) < Depth(a)
    BY <1>0, <2>1, NextLevel
  <2> QED BY <1>0, <1>1, <1>2, <2>3, <2>4, <2>5
<1>6. CASE f = j /\ j = Len(b) /\ b[j] = "#"
  BY <1>6
<1>7. CASE e - i = c - j /\ \A x \in 1 .. e - i : a[i + x - 1] = b[j + x - 1]
  <2>1. n - i = f - j /\ n - i \in Nat
    BY AgreeFacts
  <2>2. CASE e = n
    <3>1. c = f
      BY <1>0, <1>4, <1>7, <2>1, <2>2
    <3>2. a[n] = "/" /\ b[f] = "/"
      BY <1>0, <1>3, <2>2, <3>1 DEF Ends
    <3> QED BY <3>2
  <2>3. CASE e > n
    <3>1. n - i + 1 \in 1 .. e - i /\ i + (n - i + 1) - 1 = n /\ j + (n - i + 1) - 1 = f
      BY <1>0, <1>4, <2>1, <2>3
    <3> QED BY <1>7, <3>1
  <2> QED BY <1>0, <1>4, <2>2, <2>3
<1> QED BY <1>4, <1>5, <1>6, <1>7

\* FALSE when the filter is used up and the name is not.
LEMMA NameGoesOn ==
  ASSUME NEW a, NEW b, NEW n, NEW f, NEW i, NEW j, At(a, b, n, f, i, j), Agree(a, b, i, j, n, f),
         n <= Len(a), f = Len(b) + 1
  PROVE  ~Right(a, b)
<1> SUFFICES ASSUME Matches(a, b) PROVE FALSE
  BY DEF Right, At, Asked
<1>0. /\ a \in Seq(Characters) /\ b \in Seq(Characters) /\ i \in Starts(a) /\ j \in Starts(b)
      /\ Len(a) \in Nat /\ Len(b) \in Nat /\ i \in 1 .. Len(a) + 1 /\ j \in 1 .. Len(b) + 1
      /\ n \in 1 .. Len(a)
      /\ Number(a, i) = Number(b, j) /\ Depth(a) \in Nat /\ Depth(b) \in Nat
  BY PlacesAre
<1>1. PICK k : k = Number(a, i)
  OBVIOUS
<1>2. k \in 1 .. Depth(b) /\ Number(b, j) = k
  BY <1>1, PlacesAre
<1>3. PICK e : Ends(a, i, e)
  BY <1>0, LevelEndIs
<1>4. Ends(b, j, f)
  BY AgreeEnds
<1>5. Depth(b) = k
  BY <1>0, <1>2, <1>4, LastLevel
<1>6. /\ e \in n .. Len(a) + 1
      /\ \/ Level(b, k) = <<"+">> /\ f = j /\ f = j + 1
         \/ Level(b, k) = <<"#">> /\ f = j /\ f = j + 1
         \/ Level(b, k) = Level(a, k) /\ e - i = f - j
  <2>1. ReadBy(a, b, n, f, i, j, e, f)
    BY <1>3, <1>4, MatchAt
  <2> QED BY <1>1, <2>1 DEF ReadBy
<1>7. Level(b, k) = Level(a, k) /\ e - i = f - j
  BY <1>0, <1>6
<1>8. n - i = f - j
  BY AgreeFacts
<1>9. e = n
  BY <1>0, <1>6, <1>7, <1>8
<1>10. k < Depth(a)
  BY <1>0, <1>1, <1>3, <1>9, NextLevel
<1>11. Level(b, k) # <<"#">>
  <2>1. Plain(Level(a, k))
    <3>1. Ends(a, i, n) /\ Ends(b, j, f)
      BY <1>3, <1>4, <1>9
    <3> QED BY <1>1, <3>1, SameLevel
  <2> QED BY <1>7, <2>1, NoWildcard
<1>12. Depth(a) = Depth(b)
  BY <1>0, <1>2, <1>5, <1>11, MatchMeans
<1> QED BY <1>0, <1>5, <1>10, <1>12

\* FALSE when the name is used up and the filter is not: no level is left to
\* read, or only the one a wildcard at the end would have read.
LEMMA FilterGoesOn ==
  ASSUME NEW a, NEW b, NEW n, NEW f, NEW i, NEW j, At(a, b, n, f, i, j), InLevel(a, b, n, f, i, j),
         n = Len(a) + 1, f <= Len(b)
  PROVE  ~Right(a, b)
<1> SUFFICES ASSUME Matches(a, b), ~EndsInPlus(a, b) PROVE FALSE
  BY DEF Right, At, Asked
<1>0. /\ a \in Seq(Characters) /\ b \in Seq(Characters) /\ i \in Starts(a) /\ j \in Starts(b)
      /\ Len(a) \in Nat \ {0} /\ Len(b) \in Nat /\ i \in 1 .. Len(a) + 1 /\ j \in 1 .. Len(b) + 1
      /\ f \in 1 .. Len(b)
      /\ Number(a, i) = Number(b, j) /\ Depth(a) \in Nat /\ Depth(b) \in Nat
  BY PlacesAre
<1>1. PICK k : k = Number(a, i)
  OBVIOUS
<1>2. k \in 1 .. Depth(b) /\ Number(b, j) = k
  BY <1>1, PlacesAre
<1>a. Agree(a, b, i, j, n, f)
  BY DEF InLevel
<1>3. Ends(a, i, n)
  BY <1>a, AgreeEnds
<1>4. Depth(a) = k
  BY <1>0, <1>1, <1>3, LastLevel
<1>5. PICK c : Ends(b, j, c)
  BY <1>0, LevelEndIs
<1>6. ReadBy(a, b, n, f, i, j, n, c)
  BY <1>3, <1>5, <1>a, MatchAt
<1>7. UsedUp(a, b, n, f, i, j)
  BY DEF InLevel
\* Nothing of the name is in the level after its last '/'.
<1>8. ASSUME n = i
      PROVE  /\ k > 1 /\ Level(a, k) = <<>> /\ f = j /\ f > 1 /\ b[f - 1] = "/"
             /\ Level(b, k - 1) = <<"+">> \/ ~matchEndWildcardsSpecialCases(b, f - 1)
  <2>1. a[n - 1] = "/"
    BY <1>0, <1>8 DEF Starts
  <2>2. k > 1
    <3>1. 1 \in Starts(a) /\ Number(a, 1) = 1 /\ 1 < i
      BY <1>0, <1>8, StartsFacts, FirstStart
    <3>2. Number(a, 1) < Number(a, i)
      BY <1>0, <3>1, NumberGrows
    <3> QED BY <1>1, <3>1, <3>2
  <2>3. Level(a, k) = <<>>
    BY <1>0, <1>1, <1>8, EmptyLevel
  <2>4. f = j
    <3>1. n - i = f - j
      BY <1>a, AgreeFacts
    <3> QED BY <1>0, <1>8, <3>1
  <2>5. f > 1 /\ b[f - 1] = "/"
    <3>1. 1 \in Starts(b) /\ Number(b, 1) = 1 /\ Number(b, j) # 1
      BY <1>0, <1>2, <2>2, FirstStart, StartsFacts
    <3>2. j # 1
      BY <3>1
    <3> QED BY <1>0, <2>4, <3>2 DEF Starts
  <2>6. Level(b, k - 1) = <<"+">> \/ ~matchEndWildcardsSpecialCases(b, f - 1)
    BY <1>2, <1>7 DEF UsedUp
  <2> QED BY <2>2, <2>3, <2>4, <2>5, <2>6
<1>9. ~ (Depth(b) > k /\ Level(b, k) = <<"+">>)
  BY <1>0, <1>2, <1>4 DEF EndsInPlus
<1>10. ASSUME n = i, Level(b, Depth(b)) \in {<<"+">>, <<"#">>}
       PROVE  ~matchEndWildcardsSpecialCases(b, f - 1)
  <2>1. k > 1 /\ Level(a, k) = <<>>
    BY <1>8, <1>10
  <2>2. Level(b, k - 1) # <<"+">>
    BY <1>2, <1>4, <1>10, <2>1 DEF EndsInPlus
  <2> QED BY <1>8, <1>10, <2>2
<1>11. CASE Level(b, k) = <<"+">> /\ f = j /\ n = i /\ c = j + 1 /\ b[j] = "+"
  <2>1. k = Depth(b)
    BY <1>0, <1>2, <1>9, <1>11
  <2>2. c = Len(b) + 1
    <3>1. c <= Len(b) => Number(b, j) < Depth(b)
      BY <1>0, <1>5, NextLevel
    <3>2. c <= Len(b) + 1 /\ c \in Int
      BY <1>0, <1>5 DEF Ends
    <3> QED BY <1>0, <1>2, <2>1, <3>1, <3>2
  <2>3. Level(b, Depth(b)) \in {<<"+">>, <<"#">>}
    BY <1>11, <2>1
  <2>4. ~matchEndWildcardsSpecialCases(b, f - 1)
    BY <1>10, <1>11, <2>3
  <2>5. f - 1 = Len(b) - 1 /\ b[f - 1] = "/" /\ b[f - 1 + 1] = "+"
    BY <1>0, <1>8, <1>11, <2>2
  <2> QED BY <2>4, <2>5 DEF matchEndWildcardsSpecialCases
<1>12. CASE Level(b, k) = <<"#">> /\ k = Depth(b) /\ f = j /\ n = i /\ j = Len(b) /\ b[j] = "#"
  <2>1. Level(b, Depth(b)) \in {<<"+">>, <<"#">>}
    BY <1>12
  <2>2. ~matchEndWildcardsSpecialCases(b, f - 1)
    BY <1>10, <1>12, <2>1
  <2>3. f - 1 = Len(b) - 1 /\ b[f - 1] = "/" /\ b[f - 1 + 1] = "#"
    BY <1>0, <1>8, <1>12
  <2> QED BY <2>2, <2>3 DEF matchEndWildcardsSpecialCases
<1>13. CASE Level(b, k) = Level(a, k) /\ n - i = c - j
  <2>1. n - i = f - j
    BY <1>a, AgreeFacts
  <2>2. c = f
    <3>1. c \in Int
      BY <1>0, <1>5 DEF Ends
    <3> QED BY <1>0, <1>13, <2>1, <3>1
  <2>3. b[f] = "/"
    BY <1>0, <1>5, <2>2 DEF Ends
  <2>4. PICK g : g = f + 1
    OBVIOUS
  <2>5. g \in Starts(b) /\ Number(b, g) = k + 1 /\ k < Depth(b)
    BY <1>0, <1>2, <1>5, <2>2, <2>4, NextLevel
  <2>6. Level(b, Depth(b)) = <<"#">> /\ Depth(b) = k + 1
    BY <1>0, <1>2, <1>4, <2>5, MatchMeans
  <2>7. PICK d : Ends(b, g, d)
    BY <1>0, <2>5, StartsFacts, LevelEndIs
  <2>8. d - g = 1 /\ b[g] = "#"
    <3>1. Len(Level(b, Number(b, g))) = d - g /\ \A x \in 1 .. d - g : Level(b, Number(b, g))[x] = b[g + x - 1]
      BY <1>0, <2>5, <2>7, LevelLength, LevelCharacters
    <3>2. d - g = 1
      BY <2>5, <2>6, <3>1
    <3>3. 1 \in 1 .. d - g /\ g + 1 - 1 = g
      BY <1>0, <2>4, <3>2
    <3>4. Level(b, Number(b, g))[1] = b[g]
      BY <3>1, <3>3
    <3> QED BY <2>5, <2>6, <3>2, <3>4
  <2>9. g = Len(b)
    <3>1. d <= Len(b) => Number(b, g) < Depth(b)
      BY <1>0, <2>5, <2>7, NextLevel
    <3>2. d \in Int /\ d <= Len(b) + 1
      BY <1>0, <2>4, <2>7 DEF Ends
    <3> QED BY <1>0, <1>2, <2>4, <2>5, <2>6, <2>8, <3>1, <3>2
  <2>10. f - 1 = Len(b) - 2 /\ b[f - 1 + 1] = "/" /\ b[f - 1 + 2] = "#"
    BY <1>0, <2>3, <2>4, <2>8, <2>9
  <2>11. matchEndWildcardsSpecialCases(b, f - 1)
    BY <2>10 DEF matchEndWildcardsSpecialCases
  <2>12. i = n
    BY <1>7, <2>11 DEF UsedUp
  <2> QED BY <1>10, <2>6, <2>11, <2>12
<1> QED BY <1>1, <1>6, <1>11, <1>12, <1>13 DEF ReadBy

\* FALSE when the rest of the name was read by a '+' and the filter goes on.
LEMMA FilterGoesOnAfterPlus ==
  ASSUME NEW a, NEW b, NEW n, NEW f, NEW i, NEW j, At(a, b, n, f, i, j), AfterPlus(a, b, n, f, i, j),
         f <= Len(b)
  PROVE  ~Right(a, b)
<1> SUFFICES ASSUME Matches(a, b), ~EndsInPlus(a, b) PROVE FALSE
  BY DEF Right, At, Asked
<1>0. /\ a \in Seq(Characters) /\ b \in Seq(Characters) /\ i \in Starts(a) /\ j \in Starts(b)
      /\ Len(a) \in Nat \ {0} /\ Len(b) \in Nat /\ i \in 1 .. Len(a) + 1 /\ j \in 1 .. Len(b) + 1
      /\ f \in 1 .. Len(b)
      /\ Number(a, i) = Number(b, j) /\ Depth(a) \in Nat /\ Depth(b) \in Nat
  BY PlacesAre
<1>1. PICK k : k = Number(a, i)
  OBVIOUS
<1>2. k \in 1 .. Depth(b) /\ Number(b, j) = k
  BY <1>1, PlacesAre
<1>3. Ends(a, i, n) /\ n = Len(a) + 1 /\ i <= Len(a) /\ b[j] = "+" /\ f = j + 1
  BY DEF AfterPlus
<1>4. Depth(a) = k
  BY <1>0, <1>1, <1>3, LastLevel
<1>5. PICK p, q : p = i /\ q = j
  OBVIOUS
<1>6. At(a, b, p, q, i, j) /\ Agree(a, b, i, j, p, q)
  BY <1>0, <1>5 DEF At, Agree
<1>7. PICK c : Ends(b, j, c)
  BY <1>0, LevelEndIs
<1>8. ReadBy(a, b, p, q, i, j, n, c)
  BY <1>3, <1>6, <1>7, MatchAt
<1>9. CASE Level(b, k) = <<"+">> /\ c = j + 1
  <2>1. Number(b, j) < Depth(b)
    BY <1>0, <1>3, <1>7, <1>9, NextLevel
  <2>2. EndsInPlus(a, b)
    BY <1>0, <1>2, <1>4, <1>9, <2>1 DEF EndsInPlus
  <2> QED BY <2>2
<1>10. CASE b[j] = "#"
  BY <1>3, <1>10
<1>11. CASE \A x \in 1 .. n - i : a[i + x - 1] = b[j + x - 1]
  <2>1. 1 \in 1 .. n - i /\ i + 1 - 1 = i /\ j + 1 - 1 = j /\ i \in 1 .. Len(a)
    BY <1>0, <1>3
  <2>2. a[i] = "+"
    BY <1>3, <1>11, <2>1
  <2> QED BY <2>1, <2>2, TextsAre DEF At
<1> QED BY <1>1, <1>8, <1>9, <1>10, <1>11 DEF ReadBy

-----------------------------------------------------------------------------
(* How the loop goes on *)

LEMMA PlacedAtTheStart ==
  ASSUME NEW a, NEW b, Asked(a, b)
  PROVE  Placed(a, b, 1, 1)
<1>1. a \in Seq(Characters) /\ b \in Seq(Characters) /\ Len(a) \in Nat \ {0} /\ Len(b) \in Nat \ {0}
  BY TextsAre
<1>2. 1 \in Starts(a) /\ 1 \in Starts(b) /\ Number(a, 1) = 1 /\ Number(b, 1) = 1
  BY <1>1, StartsFacts, FirstStart
<1>3. At(a, b, 1, 1, 1, 1)
  BY <1>1, <1>2 DEF At, Reached
<1>4. InLevel(a, b, 1, 1, 1, 1)
  BY <1>1 DEF InLevel, Agree, UsedUp
<1> QED BY <1>3, <1>4 DEF Placed

LEMMA PlacedAfterCharacter ==
  ASSUME NEW a, NEW b, NEW n, NEW f, NEW i, NEW j, At(a, b, n, f, i, j), Agree(a, b, i, j, n, f),
         n <= Len(a), f <= Len(b), a[n] = b[f], ~(n = Len(a) /\ matchEndWildcardsSpecialCases(b, f))
  PROVE  Placed(a, b, n + 1, f + 1)
<1>0. /\ n \in 1 .. Len(a) /\ f \in 1 .. Len(b) /\ Len(a) \in Nat /\ Len(b) \in Nat
  BY PlacesAre
<1>1. PICK m, g : m = n + 1 /\ g = f + 1
  OBVIOUS
<1>2. \A x, y : UsedUp(a, b, m, g, x, y)
  <2>1. m - 1 = n /\ g - 1 = f
    BY <1>0, <1>1
  <2>2. m = Len(a) + 1 => ~matchEndWildcardsSpecialCases(b, g - 1)
    BY <1>0, <1>1, <2>1
  <2>3. a[m - 1] = b[g - 1]
    BY <2>1
  <2> QED BY <2>2, <2>3 DEF UsedUp
<1>3. CASE a[n] # "/"
  <2>1. At(a, b, m, g, i, j) /\ Agree(a, b, i, j, m, g)
    BY <1>1, <1>3, AgreeOn
  <2> QED BY <1>1, <1>2, <2>1 DEF Placed, InLevel
<1>4. CASE a[n] = "/"
  <2>1. Ends(a, i, n) /\ Ends(b, j, f)
    BY <1>4, AgreeEnds
  <2>2. LevelAgrees(a, b, Number(a, i))
    BY <2>1, SameLevel DEF LevelAgrees
  <2>3. Reached(a, b, m, g)
    BY <1>1, <2>1, <2>2, ReachedNext
  <2>4. At(a, b, m, g, m, g)
    BY <1>0, <1>1, <2>3 DEF At
  <2>5. Agree(a, b, m, g, m, g)
    BY <1>0, <1>1 DEF Agree
  <2> QED BY <1>1, <1>2, <2>4, <2>5 DEF Placed, InLevel
<1> QED BY <1>3, <1>4

LEMMA PlacedAfterPlus ==
  ASSUME NEW a, NEW b, NEW n, NEW f, NEW i, NEW j, At(a, b, n, f, i, j), n = i, f = j,
         NEW e, Ends(a, i, e), n <= Len(a), f <= Len(b), b[f] = "+"
  PROVE  /\ e > Len(a) => Placed(a, b, e, f + 1)
         /\ e <= Len(a) /\ f < Len(b) /\ b[f + 1] = "/" => Placed(a, b, e + 1, f + 2)
<1>0. /\ a \in Seq(Characters) /\ b \in Seq(Characters) /\ i \in Starts(a) /\ j \in Starts(b)
      /\ n \in 1 .. Len(a) /\ f \in 1 .. Len(b) /\ Len(a) \in Nat /\ Len(b) \in Nat
      /\ Number(b, j) = Number(a, i) /\ Number(a, i) \in Nat
  BY PlacesAre
<1>1. e \in n .. Len(a) + 1
  BY <1>0 DEF Ends
<1>2. CASE e > Len(a)
  <2>1. PICK g : g = f + 1
    OBVIOUS
  <2>2. At(a, b, e, g, i, j)
    BY <1>0, <1>1, <2>1 DEF At
  <2>3. AfterPlus(a, b, e, g, i, j)
    BY <1>0, <1>1, <1>2, <2>1 DEF AfterPlus
  <2> QED BY <1>0, <1>1, <1>2, <2>1, <2>2, <2>3 DEF Placed
<1>3. CASE e <= Len(a) /\ f < Len(b) /\ b[f + 1] = "/"
  <2>1. PICK c : c = j + 1
    OBVIOUS
  <2>2. Ends(b, j, c) /\ Level(b, Number(b, j)) = <<"+">> /\ c <= Len(b)
    <3>1. b[j] = "+" /\ b[j] # "/" /\ j <= Len(b) /\ b[j + 1] = "/"
      BY <1>3
    <3>2. Ends(b, j, j + 1) /\ Level(b, Number(b, j)) = <<b[j]>>
      BY <1>0, <3>1, SingleLevel
    <3> QED BY <1>0, <1>3, <2>1, <3>1, <3>2
  <2>3. PICK m, g : m = e + 1 /\ g = c + 1
    OBVIOUS
  <2>4. Reached(a, b, m, g)
    <3>1. LevelAgrees(a, b, Number(a, i))
      BY <1>0, <2>2 DEF LevelAgrees
    <3> QED BY <1>3, <2>2, <2>3, <3>1, ReachedNext
  <2>5. Level(b, Number(b, g) - 1) = <<"+">>
    <3>1. Number(b, g) = Number(b, j) + 1
      BY <1>0, <2>2, <2>3, NextLevel
    <3>2. Number(b, g) - 1 = Number(b, j)
      BY <1>0, <3>1
    <3> QED BY <2>2, <3>2
  <2>6. At(a, b, m, g, m, g)
    BY <1>0, <1>1, <1>3, <2>1, <2>3, <2>4 DEF At
  <2>7. InLevel(a, b, m, g, m, g)
    BY <1>0, <1>1, <2>1, <2>3, <2>5 DEF InLevel, Agree, UsedUp
  <2>8. m = e + 1 /\ g = f + 2
    BY <1>0, <2>1, <2>3
  <2> QED BY <1>1, <1>0, <1>3, <2>6, <2>7, <2>8 DEF Placed
<1> QED BY <1>2, <1>3

-----------------------------------------------------------------------------
(* The call *)

LEMMA MatchInvStart == TopicInit => MatchInv
BY DEF TopicInit, MatchInv, TopicFaithful

\* A result of the loop that is as the levels say keeps the invariant.
LEMMA ReturnIsRight ==
  ASSUME MatchInv, matchPc = "loop", UNCHANGED <<topicName, topicFilter>>,
         NEW found, Return(found), found <=> Right(topicName, topicFilter)
  PROVE  MatchInv'
BY DEF MatchInv, Return, TopicFaithful, Right

LEMMA AdvanceIsPlaced ==
  ASSUME MatchInv, matchPc = "loop", UNCHANGED <<topicName, topicFilter>>,
         NEW n, NEW f, Advance(n, f), Placed(topicName, topicFilter, n, f)
  PROVE  MatchInv'
<1>1. matchPc' = "loop" /\ nameIndex' = n /\ filterIndex' = f /\ topicName' = topicName /\ topicFilter' = topicFilter
  BY DEF Advance
<1>2. Placed(topicName, topicFilter, nameIndex, filterIndex)'
  BY <1>1
<1> QED BY <1>1, <1>2 DEF MatchInv, TopicFaithful

LEMMA CallKeepsInv ==
  ASSUME MatchInv, MQTT_MatchTopic
  PROVE  MatchInv'
<1>1. PICK name \in Names, filter \in Filters :
        /\ topicName' = name /\ topicFilter' = filter
        /\ IF name = filter THEN Return(TRUE)
           ELSE IF name[1] = "$" /\ filter[1] \in {"+", "#"} THEN Return(FALSE)
           ELSE matchPc' = "loop" /\ UNCHANGED <<nameIndex, filterIndex, matchFound>>
  BY DEF MQTT_MatchTopic
<1>2. CASE name = filter
  BY <1>1, <1>2 DEF Return, MatchInv, TopicFaithful
<1>3. CASE name # filter /\ name[1] = "$" /\ filter[1] \in {"+", "#"}
  BY <1>1, <1>3 DEF Return, MatchInv, TopicFaithful, Matches
<1>4. CASE name # filter /\ ~(name[1] = "$" /\ filter[1] \in {"+", "#"})
  <2>1. Asked(name, filter)
    BY <1>4 DEF Asked
  <2>2. Placed(name, filter, 1, 1)
    BY <2>1, PlacedAtTheStart
  <2>3. matchPc' = "loop" /\ nameIndex' = 1 /\ filterIndex' = 1
    BY <1>1, <1>4 DEF MatchInv, MQTT_MatchTopic
  <2> QED BY <1>1, <2>2, <2>3 DEF MatchInv, TopicFaithful
<1> QED BY <1>2, <1>3, <1>4

LEMMA LoopKeepsInv ==
  ASSUME MatchInv, matchTopicFilter
  PROVE  MatchInv'
<1> DEFINE a == topicName
           b == topicFilter
           n == nameIndex
           f == filterIndex
<1>1. Placed(a, b, n, f) /\ matchPc = "loop" /\ UNCHANGED <<topicName, topicFilter>>
  BY DEF MatchInv, matchTopicFilter
<1>2. PICK i, j : At(a, b, n, f, i, j) /\ (InLevel(a, b, n, f, i, j) \/ AfterPlus(a, b, n, f, i, j))
  BY <1>1 DEF Placed
<1>3. /\ a \in Seq(Characters) /\ i \in Starts(a) /\ j \in Starts(b)
      /\ n \in 1 .. Len(a) + 1 /\ f \in 1 .. Len(b) + 1 /\ i \in 1 .. Len(a) + 1 /\ j \in 1 .. Len(b) + 1
      /\ Len(a) \in Nat /\ Len(b) \in Nat
  BY <1>2, PlacesAre
<1>4. Remaining <=> n <= Len(a) /\ f <= Len(b)
  BY DEF Remaining
<1>5. n <= Len(a) => Agree(a, b, i, j, n, f)
  BY <1>2, <1>3 DEF InLevel, AfterPlus
<1>6. CASE SameCharacter
  <2>1. n <= Len(a) /\ f <= Len(b) /\ a[n] = b[f]
    BY <1>4, <1>6 DEF SameCharacter
  <2>2. CASE n = Len(a) /\ matchEndWildcardsSpecialCases(b, f)
    <3>1. Return(TRUE)
      BY <1>6, <2>2 DEF SameCharacter
    <3>2. Right(a, b)
      BY <1>2, <1>5, <2>1, <2>2, SpecialIsRight
    <3> QED BY <1>1, <3>1, <3>2, ReturnIsRight
  <2>3. CASE ~(n = Len(a) /\ matchEndWildcardsSpecialCases(b, f))
    <3>1. Advance(n + 1, f + 1)
      BY <1>6, <2>3 DEF SameCharacter
    <3>2. Placed(a, b, n + 1, f + 1)
      BY <1>2, <1>5, <2>1, <2>3, PlacedAfterCharacter
    <3> QED BY <1>1, <3>1, <3>2, AdvanceIsPlaced
  <2> QED BY <2>2, <2>3
<1>7. CASE matchWildcards
  <2>1. n <= Len(a) /\ f <= Len(b) /\ a[n] # b[f] /\ Agree(a, b, i, j, n, f)
    BY <1>4, <1>5, <1>7 DEF matchWildcards
  <2> DEFINE wild == locationIsValidForWildcard(b, f)
             end == LevelEnd(a, n)
             another == f < Len(b) /\ b[f + 1] = "/"
  <2>2. /\ wild => n = i /\ f = j
        /\ f = j => wild
    <3>1. f > 1 /\ b[f - 1] = "/" => f = j /\ n = i
      BY <1>2, <2>1, AgreeFacts
    <3>2. f = 1 => f = j /\ n = i
      BY <1>3, <2>1 DEF Agree
    <3>3. f = j => f = 1 \/ b[f - 1] = "/"
      BY <1>3 DEF Starts
    <3> QED BY <1>3, <3>1, <3>2, <3>3 DEF locationIsValidForWildcard
  <2>3. wild => Ends(a, i, end)
    BY <1>3, <2>2, LevelEndIs
  <2>4. end \in Int
    <3>1. Ends(a, n, end)
      BY <1>3, LevelEndIs
    <3> QED BY <1>3, <3>1 DEF Ends
  <2>5. \/ b[f] = "+" /\ wild /\ end > Len(a) /\ Advance(end, f + 1)
        \/ b[f] = "+" /\ wild /\ end <= Len(a) /\ another /\ Advance(end + 1, f + 2)
        \/ b[f] = "+" /\ wild /\ end <= Len(a) /\ ~another /\ Return(FALSE)
        \/ ~(b[f] = "+" /\ wild) /\ Return(b[f] = "#" /\ f = Len(b) /\ wild)
    BY <1>7 DEF matchWildcards
  <2> HIDE DEF wild, end
  <2>6. CASE b[f] = "+" /\ wild /\ end > Len(a) /\ Advance(end, f + 1)
    <3>1. Placed(a, b, end, f + 1)
      BY <1>2, <2>1, <2>2, <2>3, <2>6, PlacedAfterPlus
    <3> QED BY <1>1, <2>6, <3>1, AdvanceIsPlaced
  <2>7. CASE b[f] = "+" /\ wild /\ end <= Len(a) /\ another /\ Advance(end + 1, f + 2)
    <3>1. Placed(a, b, end + 1, f + 2)
      BY <1>2, <2>1, <2>2, <2>3, <2>7, PlacedAfterPlus
    <3> QED BY <1>1, <2>7, <3>1, AdvanceIsPlaced
  <2>8. CASE b[f] = "+" /\ wild /\ end <= Len(a) /\ ~another /\ Return(FALSE)
    <3>1. f = Len(b) \/ b[f + 1] # "/"
      BY <1>3, <2>1, <2>8
    <3>2. ~Right(a, b)
      BY <1>2, <2>1, <2>3, <2>8, <3>1, MismatchFails
    <3> QED BY <1>1, <2>8, <3>2, ReturnIsRight
  <2>9. CASE ~(b[f] = "+" /\ wild) /\ Return(b[f] = "#" /\ f = Len(b) /\ wild)
    <3>1. CASE b[f] = "#" /\ f = Len(b) /\ wild
      <4>1. f > 1 => b[f - 1] = "/"
        BY <3>1 DEF wild, locationIsValidForWildcard
      <4>2. Right(a, b)
        BY <1>2, <2>1, <3>1, <4>1, HashIsRight
      <4> QED BY <1>1, <2>9, <3>1, <4>2, ReturnIsRight
    <3>2. CASE ~(b[f] = "#" /\ f = Len(b) /\ wild)
      <4>1. PICK e : Ends(a, i, e)
        BY <1>3, LevelEndIs
      <4>2. f = j => ~(b[f] = "#" /\ f = Len(b)) /\ b[f] # "+"
        BY <2>2, <2>9, <3>2
      <4>3. ~Right(a, b)
        BY <1>2, <2>1, <4>1, <4>2, MismatchFails
      <4> QED BY <1>1, <2>9, <3>2, <4>3, ReturnIsRight
    <3> QED BY <3>1, <3>2
  <2> QED BY <2>5, <2>6, <2>7, <2>8, <2>9
<1>8. CASE EndOfLoop
  <2>1. Return(n = Len(a) + 1 /\ f = Len(b) + 1) /\ ~(n <= Len(a) /\ f <= Len(b))
    BY <1>4, <1>8 DEF EndOfLoop
  <2>2. CASE n = Len(a) + 1 /\ f = Len(b) + 1
    <3>1. Right(a, b)
      BY <1>2, <2>2, EndIsRight DEF InLevel
    <3> QED BY <1>1, <2>1, <2>2, <3>1, ReturnIsRight
  <2>3. CASE n <= Len(a) /\ f = Len(b) + 1
    <3>1. ~Right(a, b)
      BY <1>2, <1>5, <2>3, NameGoesOn
    <3>2. ~(n = Len(a) + 1)
      BY <1>3, <2>3
    <3> QED BY <1>1, <2>1, <3>1, <3>2, ReturnIsRight
  <2>4. CASE n = Len(a) + 1 /\ f <= Len(b)
    <3>1. ~Right(a, b)
      BY <1>2, <2>4, FilterGoesOn, FilterGoesOnAfterPlus
    <3>2. ~(f = Len(b) + 1)
      BY <1>3, <2>4
    <3> QED BY <1>1, <2>1, <3>1, <3>2, ReturnIsRight
  <2> QED BY <1>3, <2>1, <2>2, <2>3, <2>4
<1> QED BY <1>6, <1>7, <1>8 DEF matchTopicFilter

\* Of whatever name and filter MQTT_MatchTopic is asked, it finds what their
\* levels say, but for the names that end where a '+' before a last wildcard does.
THEOREM MatchesByLevels == TopicSpec => []TopicFaithful
<1>1. TopicInit => MatchInv
  BY MatchInvStart
<1>2. MatchInv /\ [TopicNext]_topicVars => MatchInv'
  <2> SUFFICES ASSUME MatchInv, [TopicNext]_topicVars PROVE MatchInv'
    OBVIOUS
  <2>1. CASE MQTT_MatchTopic
    BY <2>1, CallKeepsInv
  <2>2. CASE matchTopicFilter
    BY <2>2, LoopKeepsInv
  <2>3. CASE UNCHANGED topicVars
    BY <2>3 DEF topicVars, MatchInv, TopicFaithful
  <2> QED BY <2>1, <2>2, <2>3 DEF TopicNext
<1>3. MatchInv => TopicFaithful
  BY DEF MatchInv
<1> QED BY <1>1, <1>2, <1>3, PTL DEF TopicSpec

-----------------------------------------------------------------------------
(* Joined lists of bytes *)

\* What holds of 0 and passes from each number to the next holds up to n.
LEMMA InductionTo ==
  ASSUME NEW n \in Nat, NEW T, 0 \in T, \A k \in 0 .. n - 1 : k \in T => k + 1 \in T
  PROVE  \A k \in 0..n : k \in T
<1> DEFINE U == {k \in 0..n : k \notin T}
<1> SUFFICES ASSUME U # {} PROVE FALSE
  OBVIOUS
<1>1. PICK m \in U : \A k \in U : m <= k
  <2>1. U \in SUBSET Nat
    OBVIOUS
  <2> HIDE DEF U
  <2> QED BY <2>1, LeastMember
<1>2. m # 0
  OBVIOUS
<1>3. m - 1 \in 0 .. n - 1 /\ m - 1 \in T
  BY <1>1, <1>2
<1>4. m - 1 + 1 \in T
  BY <1>3
<1> QED BY <1>1, <1>4

\* A function that iterates over 1..n exists: f[k] is step[k] of f[k - 1].
Iterated(f, v, n, step) == f[0] = v /\ \A k \in 1..n : f[k] = step[k][f[k - 1]]
LEMMA Iterates ==
  ASSUME NEW V, NEW v \in V, NEW n \in Nat, NEW step \in [1..n -> [V -> V]]
  PROVE  \E f \in [0..n -> V] : Iterated(f, v, n, step)
<1> DEFINE T == {m \in Nat : \E f \in [0..m -> V] : Iterated(f, v, m, step)}
<1>1. 0 \in T
  <2>1. [k \in 0..0 |-> v] \in [0..0 -> V] /\ Iterated([k \in 0..0 |-> v], v, 0, step)
    BY DEF Iterated
  <2> QED BY <2>1
<1>2. ASSUME NEW m \in 0 .. n - 1, m \in T PROVE m + 1 \in T
  <2>1. PICK f \in [0..m -> V] : Iterated(f, v, m, step)
    BY <1>2
  <2>2. PICK w \in V : w = step[m + 1][f[m]]
    OBVIOUS
  <2>3. PICK g : g = [k \in 0..(m + 1) |-> IF k = m + 1 THEN w ELSE f[k]]
    OBVIOUS
  <2>4. g \in [0..(m + 1) -> V]
    BY <2>3
  <2>5. Iterated(g, v, m + 1, step)
    BY <2>1, <2>2, <2>3 DEF Iterated
  <2>6. m + 1 \in Nat
    OBVIOUS
  <2> QED BY <2>4, <2>5, <2>6
<1>3. n \in T
  <2> HIDE DEF T
  <2>1. \A k \in 0..n : k \in T
    BY <1>1, <1>2, InductionTo
  <2> QED BY <2>1
<1> QED BY <1>3

\* f[k] is what the first k parts make together.
Together(f, parts) == f[0] = <<>> /\ \A k \in 1..Len(parts) : f[k] = f[k - 1] \o parts[k]
\* The loops over lists compute what their rounds say.
LEMMA ConcatIs ==
  ASSUME NEW S, NEW parts \in Seq(Seq(S))
  PROVE \E f \in [0..Len(parts) -> Seq(S)] : Concat(parts) = f[Len(parts)] /\ Together(f, parts)
<1> DEFINE cat(s, t) == s \o t
<1>1. PICK n \in Nat : n = Len(parts)
  OBVIOUS
<1>2. PICK step : step = [k \in 1..n |-> [s \in Seq(S) |-> cat(s, parts[k])]]
  OBVIOUS
<1>3. \A k \in 1..n : \A s \in Seq(S) : cat(s, parts[k]) \in Seq(S)
  <2>1. \A k \in 1..n : parts[k] \in Seq(S)
    BY <1>1
  <2> QED BY <2>1, ConcatProperties
<1>4. <<>> \in Seq(S)
  BY EmptySeq
<1> DEFINE Is(g) == g = [k \in 0..n |-> IF k = 0 THEN <<>> ELSE cat(g[k - 1], parts[k])]
<1>5. PICK g : g = CHOOSE h : Is(h)
  OBVIOUS
<1>6. Concat(parts) = g[n]
  BY <1>1, <1>5 DEF Concat
<1>7. \E f \in [0..n -> Seq(S)] : g[n] = f[n] /\ f[0] = <<>> /\ \A k \in 1..n : f[k] = cat(f[k - 1], parts[k])
  <2> HIDE DEF cat
  <2>1. step \in [1..n -> [Seq(S) -> Seq(S)]]
    BY <1>2, <1>3
  <2>2. PICK f \in [0..n -> Seq(S)] : Iterated(f, <<>>, n, step)
    BY <1>4, <2>1, Iterates
  <2>3. \A k \in 1..n : f[k - 1] \in Seq(S)
    OBVIOUS
  <2>4. f[0] = <<>> /\ \A k \in 1..n : f[k] = cat(f[k - 1], parts[k])
    BY <1>2, <2>2, <2>3 DEF Iterated
  <2>5. f = [k \in 0..n |-> IF k = 0 THEN <<>> ELSE cat(f[k - 1], parts[k])]
    BY <2>4
  <2>6. Is(g)
    <3>1. Is(f)
      BY <2>5
    <3> HIDE DEF Is
    <3> QED BY <1>5, <3>1
  <2>7. PICK T : T = {k \in 0..n : g[k] = f[k]}
    OBVIOUS
  <2>8. 0 \in T
    BY <2>4, <2>6, <2>7
  <2>9. ASSUME NEW k \in 0..n - 1, k \in T PROVE k + 1 \in T
    <3>1. k + 1 \in 0..n /\ k + 1 # 0 /\ k + 1 \in 1..n /\ k + 1 - 1 = k
      OBVIOUS
    <3>2. g[k + 1] = cat(g[k], parts[k + 1])
      BY <2>6, <3>1
    <3>3. f[k + 1] = cat(f[k], parts[k + 1])
      BY <2>4, <3>1
    <3> QED BY <2>7, <2>9, <3>1, <3>2, <3>3
  <2>10. \A k \in 0..n : k \in T
    BY <2>8, <2>9, InductionTo
  <2>11. g[n] = f[n]
    BY <2>7, <2>10
  <2> QED BY <2>4, <2>11
<1> QED BY <1>1, <1>6, <1>7 DEF Together

Summed(f, numbers) == f[0] = 0 /\ \A k \in 1..Len(numbers) : f[k] = f[k - 1] + numbers[k]
LEMMA TotalIs ==
  ASSUME NEW numbers \in Seq(Int)
  PROVE \E f \in [0..Len(numbers) -> Int] : Total(numbers) = f[Len(numbers)] /\ Summed(f, numbers)
<1>1. PICK n \in Nat : n = Len(numbers)
  OBVIOUS
<1>2. PICK step : step = [k \in 1..n |-> [s \in Int |-> s + numbers[k]]]
  OBVIOUS
<1>3. step \in [1..n -> [Int -> Int]] /\ \A k \in 1..n : numbers[k] \in Int
  BY <1>1, <1>2
<1>4. PICK f \in [0..n -> Int] : Iterated(f, 0, n, step)
  <2>1. 0 \in Int
    OBVIOUS
  <2> QED BY <1>3, <2>1, Iterates
<1>5. f[0] = 0 /\ \A k \in 1..n : f[k] = f[k - 1] + numbers[k]
  <2>1. \A k \in 1..n : f[k - 1] \in Int
    OBVIOUS
  <2> QED BY <1>2, <1>4, <2>1 DEF Iterated
<1> DEFINE Is(g) == g = [k \in 0..n |-> IF k = 0 THEN 0 ELSE g[k - 1] + numbers[k]]
<1>6. Is(f)
  BY <1>5
<1>7. PICK g : g = CHOOSE h : Is(h)
  OBVIOUS
<1>8. Is(g)
  <2> HIDE DEF Is
  <2> QED BY <1>6, <1>7
<1>9. Total(numbers) = g[n]
  BY <1>1, <1>7 DEF Total
<1>10. \A k \in 0..n : g[k] = f[k]
  <2>1. PICK T : T = {k \in 0..n : g[k] = f[k]}
    OBVIOUS
  <2>2. 0 \in T
    BY <1>5, <1>8, <2>1
  <2>3. ASSUME NEW k \in 0..n - 1, k \in T PROVE k + 1 \in T
    <3>1. k + 1 \in 0..n /\ k + 1 # 0 /\ k + 1 \in 1..n /\ k + 1 - 1 = k
      OBVIOUS
    <3>2. g[k + 1] = g[k] + numbers[k + 1]
      BY <1>8, <3>1
    <3>3. f[k + 1] = f[k] + numbers[k + 1]
      BY <1>5, <3>1
    <3> QED BY <2>1, <2>3, <3>1, <3>2, <3>3
  <2>4. \A k \in 0..n : k \in T
    BY <2>2, <2>3, InductionTo
  <2> QED BY <2>1, <2>4
<1>11. g[n] = f[n]
  BY <1>10
<1> QED BY <1>1, <1>5, <1>9, <1>11 DEF Summed

\* Two lists that begin alike have made the same as far as they do.
LEMMA ConcatAppend ==
  ASSUME NEW S, NEW parts \in Seq(Seq(S)), NEW e \in Seq(S)
  PROVE  Concat(parts) \in Seq(S) /\ Concat(Append(parts, e)) = Concat(parts) \o e
<1>1. PICK longer : longer = Append(parts, e)
  OBVIOUS
<1>2. PICK n \in Nat : n = Len(parts)
  OBVIOUS
<1>3. longer \in Seq(Seq(S)) /\ Len(longer) = n + 1 /\ longer[n + 1] = e /\ \A k \in 1..n : longer[k] = parts[k]
  BY <1>1, <1>2, AppendProperties
<1>4. PICK f \in [0..n -> Seq(S)] : Concat(parts) = f[n] /\ Together(f, parts)
  BY <1>2, ConcatIs
<1>5. PICK g \in [0..(n + 1) -> Seq(S)] : Concat(longer) = g[n + 1] /\ Together(g, longer)
  BY <1>3, ConcatIs
<1> DEFINE cat(s, t) == s \o t
<1>6. f[0] = <<>> /\ \A k \in 1..n : f[k] = cat(f[k - 1], parts[k])
  BY <1>2, <1>4 DEF Together
<1>7. g[0] = <<>> /\ \A k \in 1..(n + 1) : g[k] = cat(g[k - 1], longer[k])
  BY <1>3, <1>5 DEF Together
<1> HIDE DEF cat
<1>8. \A k \in 0..n : g[k] = f[k]
  <2>1. PICK T : T = {k \in 0..n : g[k] = f[k]}
    OBVIOUS
  <2>2. 0 \in T
    BY <1>6, <1>7, <2>1
  <2>3. ASSUME NEW k \in 0..n - 1, k \in T PROVE k + 1 \in T
    <3>1. k + 1 \in 1..n /\ k + 1 \in 1..(n + 1) /\ k + 1 - 1 = k /\ k + 1 \in 0..n
      OBVIOUS
    <3>2. g[k + 1] = cat(g[k], parts[k + 1])
      BY <1>7, <1>3, <3>1
    <3>3. f[k + 1] = cat(f[k], parts[k + 1])
      BY <1>6, <3>1
    <3> QED BY <2>1, <2>3, <3>1, <3>2, <3>3
  <2>4. \A k \in 0..n : k \in T
    BY <2>2, <2>3, InductionTo
  <2> QED BY <2>1, <2>4
<1>9. g[n + 1] = cat(g[n], e)
  BY <1>3, <1>7
<1>10. g[n] = f[n]
  BY <1>8
<1>11. f[n] \in Seq(S)
  OBVIOUS
<1> QED BY <1>1, <1>4, <1>5, <1>9, <1>10, <1>11 DEF cat

LEMMA ConcatNone == Concat(<<>>) = <<>>
<1>1. <<>> \in Seq(Seq({})) /\ Len(<<>>) = 0
  BY EmptySeq
<1>2. PICK f \in [0..Len(<<>>) -> Seq({})] : Concat(<<>>) = f[Len(<<>>)] /\ Together(f, <<>>)
  BY <1>1, ConcatIs
<1> QED BY <1>1, <1>2 DEF Together

LEMMA TotalAppend ==
  ASSUME NEW numbers \in Seq(Int), NEW e \in Int
  PROVE  Total(numbers) \in Int /\ Total(Append(numbers, e)) = Total(numbers) + e
<1>1. PICK longer : longer = Append(numbers, e)
  OBVIOUS
<1>2. PICK n \in Nat : n = Len(numbers)
  OBVIOUS
<1>3. longer \in Seq(Int) /\ Len(longer) = n + 1 /\ longer[n + 1] = e /\ \A k \in 1..n : longer[k] = numbers[k]
  BY <1>1, <1>2, AppendProperties
<1>4. PICK f \in [0..n -> Int] : Total(numbers) = f[n] /\ Summed(f, numbers)
  BY <1>2, TotalIs
<1>5. PICK g \in [0..(n + 1) -> Int] : Total(longer) = g[n + 1] /\ Summed(g, longer)
  BY <1>3, TotalIs
<1>10. f[0] = 0 /\ \A k \in 1..n : f[k] = f[k - 1] + numbers[k]
  BY <1>2, <1>4 DEF Summed
<1>11. g[0] = 0 /\ \A k \in 1..(n + 1) : g[k] = g[k - 1] + longer[k]
  BY <1>3, <1>5 DEF Summed
<1>6. \A k \in 0..n : g[k] = f[k]
  <2>1. PICK T : T = {k \in 0..n : g[k] = f[k]}
    OBVIOUS
  <2>2. 0 \in T
    BY <1>10, <1>11, <2>1
  <2>3. ASSUME NEW k \in 0..n - 1, k \in T PROVE k + 1 \in T
    <3>1. k + 1 \in 1..n /\ k + 1 \in 1..(n + 1) /\ k + 1 - 1 = k /\ k + 1 \in 0..n
      OBVIOUS
    <3>2. g[k + 1] = g[k] + numbers[k + 1]
      BY <1>11, <1>3, <3>1
    <3>3. f[k + 1] = f[k] + numbers[k + 1]
      BY <1>10, <3>1
    <3> QED BY <2>1, <2>3, <3>1, <3>2, <3>3
  <2>4. \A k \in 0..n : k \in T
    BY <2>2, <2>3, InductionTo
  <2> QED BY <2>1, <2>4
<1>7. g[n + 1] = g[n] + e
  <2>1. n + 1 \in 1..(n + 1) /\ n + 1 - 1 = n
    OBVIOUS
  <2> QED BY <1>3, <1>11, <2>1
<1>8. g[n] = f[n] /\ f[n] \in Int
  BY <1>6
<1> QED BY <1>1, <1>4, <1>5, <1>7, <1>8

LEMMA TotalNone == Total(<<>>) = 0
<1>1. <<>> \in Seq(Int) /\ Len(<<>>) = 0
  BY EmptySeq
<1>2. PICK f \in [0..Len(<<>>) -> Int] : Total(<<>>) = f[Len(<<>>)] /\ Summed(f, <<>>)
  BY <1>1, TotalIs
<1> QED BY <1>1, <1>2 DEF Summed

LEMMA SeqOf ==
  ASSUME NEW S, NEW n \in Nat, NEW f \in [1..n -> S]
  PROVE  f \in Seq(S) /\ Len(f) = n
OBVIOUS
LEMMA Single ==
  ASSUME NEW S, NEW a \in S, NEW b \in S
  PROVE  <<a>> \in Seq(S) /\ Append(<<a>>, b) = <<a, b>> /\ <<a, b>> \in Seq(S)
<1>1. <<a>> \in Seq(S) /\ Len(<<a>>) = 1 /\ <<a>>[1] = a
  OBVIOUS
<1>2. <<a, b>> \in Seq(S) /\ Len(<<a, b>>) = 2 /\ <<a, b>>[1] = a /\ <<a, b>>[2] = b
  OBVIOUS
<1>3. Append(<<a>>, b) \in Seq(S) /\ Len(Append(<<a>>, b)) = 2 /\ Append(<<a>>, b)[1] = a /\ Append(<<a>>, b)[2] = b
  <2>1. /\ Append(<<a>>, b) \in Seq(S) /\ Len(Append(<<a>>, b)) = Len(<<a>>) + 1
        /\ \A i \in 1..Len(<<a>>) : Append(<<a>>, b)[i] = <<a>>[i]
        /\ Append(<<a>>, b)[Len(<<a>>) + 1] = b
    BY <1>1, AppendProperties
  <2> QED BY <1>1, <2>1
<1>4. \A i \in 1..2 : i = 1 \/ i = 2
  OBVIOUS
<1>5. Append(<<a>>, b) = <<a, b>>
  <2>1. \A i \in 1..Len(<<a, b>>) : Append(<<a>>, b)[i] = <<a, b>>[i]
    BY <1>2, <1>3, <1>4
  <2> QED BY <1>2, <1>3, <2>1, SeqEqual
<1> QED BY <1>1, <1>2, <1>5

\* The first k of a list.
Prefix(s, k) == [i \in 1..k |-> s[i]]
LEMMA PrefixFacts ==
  ASSUME NEW S, NEW s \in Seq(S), NEW k \in 0..Len(s)
  PROVE  Prefix(s, k) \in Seq(S) /\ Len(Prefix(s, k)) = k /\ \A i \in 1..k : Prefix(s, k)[i] = s[i]
<1>1. \A i \in 1..k : s[i] \in S
  OBVIOUS
<1> QED BY <1>1 DEF Prefix
LEMMA PrefixNone ==
  ASSUME NEW s
  PROVE  Prefix(s, 0) = <<>>
BY DEF Prefix
LEMMA PrefixAll ==
  ASSUME NEW S, NEW s \in Seq(S)
  PROVE  Prefix(s, Len(s)) = s
<1>1. Len(s) \in 0..Len(s)
  OBVIOUS
<1>2. Prefix(s, Len(s)) \in Seq(S) /\ Len(Prefix(s, Len(s))) = Len(s) /\ \A i \in 1..Len(s) : Prefix(s, Len(s))[i] = s[i]
  BY <1>1, PrefixFacts
<1> QED BY <1>2, SeqEqual
LEMMA PrefixNext ==
  ASSUME NEW S, NEW s \in Seq(S), NEW k \in 0..(Len(s) - 1)
  PROVE  s[k + 1] \in S /\ Prefix(s, k + 1) = Append(Prefix(s, k), s[k + 1])
<1>1. k \in 0..Len(s) /\ k + 1 \in 0..Len(s) /\ s[k + 1] \in S
  OBVIOUS
<1>2. PICK p : p = Prefix(s, k)
  OBVIOUS
<1>3. PICK q : q = Prefix(s, k + 1)
  OBVIOUS
<1>4. p \in Seq(S) /\ Len(p) = k /\ \A i \in 1..k : p[i] = s[i]
  BY <1>1, <1>2, PrefixFacts
<1>5. q \in Seq(S) /\ Len(q) = k + 1 /\ \A i \in 1..(k + 1) : q[i] = s[i]
  BY <1>1, <1>3, PrefixFacts
<1>6. Append(p, s[k + 1]) \in Seq(S) /\ Len(Append(p, s[k + 1])) = k + 1
  BY <1>1, <1>4, AppendProperties
<1>7. \A i \in 1..(k + 1) : Append(p, s[k + 1])[i] = q[i]
  BY <1>1, <1>4, <1>5, AppendProperties
<1>8. Append(p, s[k + 1]) = q
  BY <1>5, <1>6, <1>7, SeqEqual
<1> QED BY <1>1, <1>2, <1>3, <1>8

LEMMA ConcatType ==
  ASSUME NEW S, NEW parts \in Seq(Seq(S))
  PROVE  Concat(parts) \in Seq(S)
<1>1. <<>> \in Seq(S)
  BY EmptySeq
<1> QED BY <1>1, ConcatAppend

LEMMA ConcatOne ==
  ASSUME NEW S, NEW a \in Seq(S)
  PROVE  Concat(<<a>>) = a
<1>1. <<>> \in Seq(Seq(S)) /\ Append(<<>>, a) = <<a>> /\ <<>> \o a = a
  BY EmptySeq, ConcatEmptySeq
<1>2. Concat(Append(<<>>, a)) = Concat(<<>>) \o a
  BY <1>1, ConcatAppend
<1> QED BY <1>1, <1>2, ConcatNone

LEMMA ConcatTwo ==
  ASSUME NEW S, NEW a \in Seq(S), NEW b \in Seq(S)
  PROVE  Concat(<<a, b>>) = a \o b
<1>1. <<a>> \in Seq(Seq(S)) /\ Append(<<a>>, b) = <<a, b>>
  BY Single
<1>2. Concat(Append(<<a>>, b)) = Concat(<<a>>) \o b
  BY <1>1, ConcatAppend
<1> QED BY <1>1, <1>2, ConcatOne

\* Appending to what comes after.
LEMMA AppendAfter ==
  ASSUME NEW S, NEW s \in Seq(S), NEW t \in Seq(S), NEW e \in S
  PROVE  s \o Append(t, e) = Append(s \o t, e)
<1>1. <<e>> \in Seq(S) /\ s \o t \in Seq(S)
  BY ConcatProperties
<1>2. Append(t, e) = t \o <<e>> /\ Append(s \o t, e) = (s \o t) \o <<e>>
  BY <1>1, AppendIsConcat
<1>3. (s \o t) \o <<e>> = s \o (t \o <<e>>)
  BY <1>1, ConcatAssociative
<1> QED BY <1>2, <1>3

LEMMA ConcatConcat ==
  ASSUME NEW S, NEW p \in Seq(Seq(S)), NEW q \in Seq(Seq(S))
  PROVE  Concat(p \o q) = Concat(p) \o Concat(q)
<1>1. PICK T : T = {k \in 0..Len(q) : Concat(p \o Prefix(q, k)) = Concat(p) \o Concat(Prefix(q, k))}
  OBVIOUS
<1>2. 0 \in T
  <2>1. Prefix(q, 0) = <<>> /\ p \o <<>> = p
    BY PrefixNone, ConcatEmptySeq
  <2>2. Concat(p) \o <<>> = Concat(p)
    BY ConcatType, ConcatEmptySeq
  <2>3. Concat(p \o Prefix(q, 0)) = Concat(p) \o Concat(Prefix(q, 0))
    BY <2>1, <2>2, ConcatNone
  <2>4. 0 \in 0..Len(q)
    OBVIOUS
  <2> QED BY <1>1, <2>3, <2>4
<1>3. ASSUME NEW k \in 0..Len(q) - 1, k \in T PROVE k + 1 \in T
  <2>1. PICK r : r = Prefix(q, k)
    OBVIOUS
  <2>2. PICK e : e = q[k + 1]
    OBVIOUS
  <2>3. e \in Seq(S) /\ Prefix(q, k + 1) = Append(r, e)
    BY <2>1, <2>2, PrefixNext
  <2>4. r \in Seq(Seq(S)) /\ p \o r \in Seq(Seq(S))
    <3>1. k \in 0..Len(q)
      OBVIOUS
    <3>2. r \in Seq(Seq(S))
      BY <2>1, <3>1, PrefixFacts
    <3> QED BY <3>2, ConcatProperties
  <2>5. p \o Append(r, e) = Append(p \o r, e)
    BY <2>3, <2>4, AppendAfter
  <2>6. Concat(Append(p \o r, e)) = Concat(p \o r) \o e /\ Concat(Append(r, e)) = Concat(r) \o e
    BY <2>3, <2>4, ConcatAppend
  <2>7. Concat(p \o r) = Concat(p) \o Concat(r)
    BY <1>1, <1>3, <2>1
  <2>8. (Concat(p) \o Concat(r)) \o e = Concat(p) \o (Concat(r) \o e)
    <3>1. PICK a \in Seq(S) : a = Concat(p)
      BY ConcatType
    <3>2. PICK b \in Seq(S) : b = Concat(r)
      BY <2>4, ConcatType
    <3>3. e \in Seq(S)
      BY <2>3
    <3>4. (a \o b) \o e = a \o (b \o e)
      BY <3>3, ConcatAssociative
    <3> QED BY <3>1, <3>2, <3>4
  <2>9. Concat(p \o Prefix(q, k + 1)) = Concat(p) \o Concat(Prefix(q, k + 1))
    BY <2>3, <2>5, <2>6, <2>7, <2>8
  <2>10. k + 1 \in 0..Len(q)
    OBVIOUS
  <2> QED BY <1>1, <2>9, <2>10
<1>4. Len(q) \in Nat
  OBVIOUS
<1>5. Len(q) \in T
  <2>1. \A k \in 0..Len(q) : k \in T
    BY <1>2, <1>3, <1>4, InductionTo
  <2> QED BY <1>4, <2>1
<1>6. Prefix(q, Len(q)) = q
  BY PrefixAll
<1> QED BY <1>1, <1>5, <1>6

\* A list of lists may be joined at either level first.
LEMMA ConcatFlat ==
  ASSUME NEW S, NEW groups \in Seq(Seq(Seq(S)))
  PROVE  Concat(Concat(groups)) = Concat([i \in DOMAIN groups |-> Concat(groups[i])])
<1>1. PICK joined : joined = [i \in DOMAIN groups |-> Concat(groups[i])]
  OBVIOUS
<1>2. joined \in Seq(Seq(S)) /\ Len(joined) = Len(groups)
  <2>1. \A i \in 1..Len(groups) : groups[i] \in Seq(Seq(S))
    OBVIOUS
  <2>2. \A i \in 1..Len(groups) : Concat(groups[i]) \in Seq(S)
    BY <2>1, ConcatType
  <2>3. DOMAIN groups = 1..Len(groups) /\ Len(groups) \in Nat
    OBVIOUS
  <2>4. joined \in [1..Len(groups) -> Seq(S)]
    BY <1>1, <2>2, <2>3
  <2> QED BY <2>3, <2>4, SeqOf
<1>3. PICK T : T = {k \in 0..Len(groups) : Concat(Concat(Prefix(groups, k))) = Concat(Prefix(joined, k))}
  OBVIOUS
<1>4. 0 \in T
  <2>1. Prefix(groups, 0) = <<>> /\ Prefix(joined, 0) = <<>> /\ 0 \in 0..Len(groups)
    BY PrefixNone
  <2> QED BY <1>3, <2>1, ConcatNone
<1>5. ASSUME NEW k \in 0..Len(groups) - 1, k \in T PROVE k + 1 \in T
  <2>1. PICK r : r = Prefix(groups, k)
    OBVIOUS
  <2>2. PICK e : e = groups[k + 1]
    OBVIOUS
  <2>3. e \in Seq(Seq(S)) /\ Prefix(groups, k + 1) = Append(r, e)
    BY <2>1, <2>2, PrefixNext
  <2>4. PICK u : u = Prefix(joined, k)
    OBVIOUS
  <2>5. Concat(e) \in Seq(S) /\ Prefix(joined, k + 1) = Append(u, Concat(e))
    <3>1. joined[k + 1] = Concat(e)
      BY <1>1, <2>2
    <3>2. k \in 0..(Len(joined) - 1)
      BY <1>2
    <3> QED BY <1>2, <2>4, <3>1, <3>2, PrefixNext
  <2>6. r \in Seq(Seq(Seq(S))) /\ u \in Seq(Seq(S))
    <3>1. k \in 0..Len(groups) /\ k \in 0..Len(joined)
      BY <1>2
    <3> QED BY <1>2, <2>1, <2>4, <3>1, PrefixFacts
  <2>7. Concat(Append(r, e)) = Concat(r) \o e /\ Concat(r) \in Seq(Seq(S))
    BY <2>3, <2>6, ConcatAppend
  <2>8. Concat(Concat(r) \o e) = Concat(Concat(r)) \o Concat(e)
    BY <2>3, <2>7, ConcatConcat
  <2>9. Concat(Append(u, Concat(e))) = Concat(u) \o Concat(e)
    BY <2>5, <2>6, ConcatAppend
  <2>10. Concat(Concat(r)) = Concat(u)
    BY <1>3, <1>5, <2>1, <2>4
  <2>11. Concat(Concat(Prefix(groups, k + 1))) = Concat(Prefix(joined, k + 1))
    BY <2>3, <2>5, <2>7, <2>8, <2>9, <2>10
  <2>12. k + 1 \in 0..Len(groups)
    OBVIOUS
  <2> QED BY <1>3, <2>11, <2>12
<1>6. Len(groups) \in Nat
  OBVIOUS
<1>7. Len(groups) \in T
  <2>1. \A k \in 0..Len(groups) : k \in T
    BY <1>4, <1>5, <1>6, InductionTo
  <2> QED BY <1>6, <2>1
<1>8. Prefix(groups, Len(groups)) = groups /\ Prefix(joined, Len(groups)) = joined
  BY <1>2, PrefixAll
<1> QED BY <1>1, <1>3, <1>7, <1>8

LEMMA LenConcat ==
  ASSUME NEW S, NEW parts \in Seq(Seq(S))
  PROVE  /\ Len(Concat(parts)) = Total([i \in DOMAIN parts |-> Len(parts[i])])
         /\ Total([i \in DOMAIN parts |-> Len(parts[i])]) \in Nat
<1>1. PICK lens : lens = [i \in DOMAIN parts |-> Len(parts[i])]
  OBVIOUS
<1>2. lens \in Seq(Int) /\ Len(lens) = Len(parts)
  <2>1. DOMAIN parts = 1..Len(parts) /\ Len(parts) \in Nat
    OBVIOUS
  <2>2. \A i \in 1..Len(parts) : parts[i] \in Seq(S)
    OBVIOUS
  <2>3. \A i \in 1..Len(parts) : Len(parts[i]) \in Int
    BY <2>2, LenProperties
  <2>4. lens \in [1..Len(parts) -> Int]
    BY <1>1, <2>1, <2>3
  <2> QED BY <2>1, <2>4, SeqOf
<1>3. PICK T : T = {k \in 0..Len(parts) : Len(Concat(Prefix(parts, k))) = Total(Prefix(lens, k))}
  OBVIOUS
<1>4. 0 \in T
  <2>1. Prefix(parts, 0) = <<>> /\ Prefix(lens, 0) = <<>> /\ 0 \in 0..Len(parts)
    BY PrefixNone
  <2>2. Len(<<>>) = 0
    OBVIOUS
  <2> QED BY <1>3, <2>1, <2>2, ConcatNone, TotalNone
<1>5. ASSUME NEW k \in 0..Len(parts) - 1, k \in T PROVE k + 1 \in T
  <2>1. PICK r : r = Prefix(parts, k)
    OBVIOUS
  <2>2. PICK e : e = parts[k + 1]
    OBVIOUS
  <2>3. Prefix(parts, k + 1) = Append(r, e)
    BY <2>1, <2>2, PrefixNext
  <2>4. e \in Seq(S)
    BY <2>2, PrefixNext
  <2>5. PICK u : u = Prefix(lens, k)
    OBVIOUS
  <2>6. Prefix(lens, k + 1) = Append(u, Len(e))
    <3>1. lens[k + 1] = Len(e)
      BY <1>1, <2>2
    <3>2. k \in 0..(Len(lens) - 1)
      BY <1>2
    <3> QED BY <1>2, <2>5, <3>1, <3>2, PrefixNext
  <2>7. r \in Seq(Seq(S)) /\ u \in Seq(Int)
    <3>1. k \in 0..Len(parts) /\ k \in 0..Len(lens)
      BY <1>2
    <3> QED BY <1>2, <2>1, <2>5, <3>1, PrefixFacts
  <2>8. Concat(Append(r, e)) = Concat(r) \o e
    BY <2>4, <2>7, ConcatAppend
  <2>9. Total(Append(u, Len(e))) = Total(u) + Len(e)
    <3>1. Len(e) \in Int
      BY <2>4, LenProperties
    <3> QED BY <2>7, <3>1, TotalAppend
  <2>10. Len(Concat(r)) = Total(u)
    BY <1>3, <1>5, <2>1, <2>5
  <2>11. Len(Concat(r) \o e) = Len(Concat(r)) + Len(e)
    <3>1. Concat(r) \in Seq(S)
      BY <2>7, ConcatType
    <3> QED BY <2>4, <3>1, ConcatProperties
  <2>12. Len(Concat(Prefix(parts, k + 1))) = Total(Prefix(lens, k + 1))
    BY <2>3, <2>6, <2>8, <2>9, <2>10, <2>11
  <2>13. k + 1 \in 0..Len(parts)
    OBVIOUS
  <2> QED BY <1>3, <2>12, <2>13
<1>6. Len(parts) \in Nat
  OBVIOUS
<1>7. Len(parts) \in T
  <2>1. \A k \in 0..Len(parts) : k \in T
    BY <1>4, <1>5, <1>6, InductionTo
  <2> QED BY <1>6, <2>1
<1>8. Prefix(parts, Len(parts)) = parts /\ Prefix(lens, Len(parts)) = lens
  BY <1>2, PrefixAll
<1>9. Len(Concat(parts)) \in Nat
  BY ConcatType, LenProperties
<1> QED BY <1>1, <1>3, <1>7, <1>8, <1>9

-----------------------------------------------------------------------------
\* Places in what is joined.

LEMMA JoinedAt ==
  ASSUME NEW S, NEW a \in Seq(S), NEW b \in Seq(S)
  PROVE  /\ \A i \in 1..Len(a) : (a \o b)[i] = a[i]
         /\ \A i \in 1..Len(b) : (a \o b)[Len(a) + i] = b[i]
<1>1. Len(a) \in Nat /\ Len(b) \in Nat
  OBVIOUS
<1>2. \A i \in 1 .. Len(a) + Len(b) : (a \o b)[i] = IF i <= Len(a) THEN a[i] ELSE b[i - Len(a)]
  BY ConcatProperties
<1>3. PICK c : c = a \o b
  OBVIOUS
<1>4. \A i \in 1 .. Len(a) + Len(b) : c[i] = IF i <= Len(a) THEN a[i] ELSE b[i - Len(a)]
  BY <1>2, <1>3
<1>5. \A i \in 1..Len(a) : c[i] = a[i]
  BY <1>1, <1>4
<1>6. \A i \in 1..Len(b) : c[Len(a) + i] = b[i]
  BY <1>1, <1>4
<1> QED BY <1>3, <1>5, <1>6

LEMMA SubSeqIs ==
  ASSUME NEW S, NEW s \in Seq(S), NEW t \in Seq(S), NEW m \in Nat, m + Len(t) <= Len(s),
         \A i \in 1..Len(t) : s[m + i] = t[i]
  PROVE  SubSeq(s, m + 1, m + Len(t)) = t
<1>1. Len(t) \in Nat /\ Len(s) \in Nat
  OBVIOUS
<1>2. PICK u : u = SubSeq(s, m + 1, m + Len(t))
  OBVIOUS
<1>3. \A i \in (m + 1)..(m + Len(t)) : s[i] \in S
  <2>1. \A i \in 1..Len(s) : s[i] \in S
    OBVIOUS
  <2> QED BY <1>1, <2>1
<1>4. m + 1 \in Int /\ m + Len(t) \in Int
  BY <1>1
<1>5. /\ u \in Seq(S)
      /\ Len(u) = IF m + 1 <= m + Len(t) THEN m + Len(t) - (m + 1) + 1 ELSE 0
      /\ \A i \in 1 .. m + Len(t) - (m + 1) + 1 : u[i] = s[m + 1 + i - 1]
  BY <1>2, <1>3, <1>4, SubSeqProperties
<1>6. Len(u) = Len(t)
  BY <1>1, <1>5
<1>7. \A i \in 1..Len(t) : u[i] = t[i]
  <2>1. m + Len(t) - (m + 1) + 1 = Len(t) /\ \A i \in 1..Len(t) : m + 1 + i - 1 = m + i
    BY <1>1
  <2> QED BY <1>5, <2>1
<1>8. u = t
  BY <1>5, <1>6, <1>7, SeqEqual
<1> QED BY <1>2, <1>8

LEMMA FromJoined ==
  ASSUME NEW S, NEW a \in Seq(S), NEW b \in Seq(S)
  PROVE  From(a \o b, Len(a) + 1) = b
<1>1. PICK c : c = a \o b
  OBVIOUS
<1>2. c \in Seq(S) /\ Len(c) = Len(a) + Len(b) /\ Len(a) \in Nat /\ Len(b) \in Nat
  BY <1>1, ConcatProperties
<1>3. \A i \in 1..Len(b) : c[Len(a) + i] = b[i]
  BY <1>1, JoinedAt
<1>4. SubSeq(c, Len(a) + 1, Len(a) + Len(b)) = b
  BY <1>2, <1>3, SubSeqIs
<1> QED BY <1>1, <1>2, <1>4 DEF From

\* The bytes from a place on, one by one.
LEMMA FromAt ==
  ASSUME NEW S, NEW s \in Seq(S), NEW m \in 1..Len(s) + 1
  PROVE  /\ From(s, m) \in Seq(S) /\ Len(From(s, m)) = Len(s) - m + 1
         /\ \A i \in 1 .. Len(s) - m + 1 : From(s, m)[i] = s[m + i - 1]
<1>1. Len(s) \in Nat /\ m \in Int /\ Len(s) \in Int
  OBVIOUS
<1>2. \A i \in m..Len(s) : s[i] \in S
  OBVIOUS
<1>3. /\ SubSeq(s, m, Len(s)) \in Seq(S)
      /\ Len(SubSeq(s, m, Len(s))) = IF m <= Len(s) THEN Len(s) - m + 1 ELSE 0
      /\ \A i \in 1 .. Len(s) - m + 1 : SubSeq(s, m, Len(s))[i] = s[m + i - 1]
  BY <1>1, <1>2, SubSeqProperties
<1>4. PICK u : u = SubSeq(s, m, Len(s))
  OBVIOUS
<1>5. u \in Seq(S) /\ Len(u) = Len(s) - m + 1 /\ \A i \in 1 .. Len(s) - m + 1 : u[i] = s[m + i - 1]
  BY <1>1, <1>3, <1>4
<1> QED BY <1>4, <1>5 DEF From

LEMMA FromAll ==
  ASSUME NEW S, NEW s \in Seq(S)
  PROVE  From(s, 1) = s
BY SubSeqFull DEF From

LEMMA FromNothing ==
  ASSUME NEW S, NEW s \in Seq(S)
  PROVE  From(s, Len(s) + 1) = <<>>
<1>1. Len(s) + 1 \in Int /\ Len(s) \in Int /\ Len(s) < Len(s) + 1
  OBVIOUS
<1> QED BY <1>1, SubSeqEmpty DEF From

LEMMA TailJoined ==
  ASSUME NEW S, NEW x \in S, NEW b \in Seq(S)
  PROVE  Tail(<<x>> \o b) = b /\ (<<x>> \o b)[1] = x /\ <<x>> \o b \in Seq(S) /\ Len(<<x>> \o b) = Len(b) + 1
<1>1. PICK a : a = <<x>>
  OBVIOUS
<1>2. a \in Seq(S) /\ Len(a) = 1 /\ a[1] = x
  BY <1>1
<1>3. PICK c : c = a \o b
  OBVIOUS
<1>4. c \in Seq(S) /\ Len(c) = Len(b) + 1 /\ Len(b) \in Nat
  <2>1. a \in Seq(S)
    BY <1>2
  <2>2. a \o b \in Seq(S) /\ Len(a \o b) = Len(a) + Len(b)
    BY <2>1, ConcatProperties
  <2>3. Len(b) \in Nat
    OBVIOUS
  <2> QED BY <1>2, <1>3, <2>2, <2>3
<1>5. c[1] = x
  <2>1. 1 \in 1..Len(a)
    BY <1>2
  <2> QED BY <1>2, <1>3, <2>1, JoinedAt
<1>6. c # <<>>
  BY <1>4
<1>7. Tail(c) = b
  <2>1. Tail(c) = SubSeq(c, 2, Len(c))
    BY <1>4, <1>6, TailIsSubSeq
  <2>2. From(c, Len(a) + 1) = b
    BY <1>2, <1>3, FromJoined
  <2> QED BY <1>2, <2>1, <2>2 DEF From
<1> QED BY <1>1, <1>3, <1>4, <1>5, <1>7

\* All of a list's parts are the first k, the next one and some rest.
LEMMA ConcatRest ==
  ASSUME NEW S, NEW parts \in Seq(Seq(S)), NEW k \in 0..Len(parts)
  PROVE  \E rest \in Seq(S) : Concat(parts) = Concat(Prefix(parts, k)) \o rest
<1>1. PICK p : p = Prefix(parts, k)
  OBVIOUS
<1>2. PICK q : q = SubSeq(parts, k + 1, Len(parts))
  OBVIOUS
<1>3. p \in Seq(Seq(S))
  BY <1>1, PrefixFacts
<1>4. q \in Seq(Seq(S))
  <2>1. k + 1 \in 1..Len(parts) + 1
    OBVIOUS
  <2>2. From(parts, k + 1) \in Seq(Seq(S))
    BY <2>1, FromAt
  <2> QED BY <1>2, <2>2 DEF From
<1>5. p = SubSeq(parts, 1, k)
  <2>1. Len(p) = k /\ \A i \in 1..k : p[i] = parts[i]
    BY <1>1, PrefixFacts
  <2>2. 0 \in Nat /\ 0 + Len(p) <= Len(parts) /\ \A i \in 1..Len(p) : parts[0 + i] = p[i]
    BY <2>1
  <2>3. SubSeq(parts, 0 + 1, 0 + Len(p)) = p
    BY <1>3, <2>2, SubSeqIs
  <2>4. 0 + 1 = 1 /\ 0 + Len(p) = k
    BY <2>1
  <2> QED BY <2>3, <2>4
<1>6. parts = p \o q
  <2>1. 1 \in 1..Len(parts) + 1 /\ k \in (1 - 1)..Len(parts) /\ Len(parts) \in k..Len(parts)
    OBVIOUS
  <2>2. SubSeq(parts, 1, k) \o SubSeq(parts, k + 1, Len(parts)) = SubSeq(parts, 1, Len(parts))
    BY <2>1, ConcatAdjacentSubSeq
  <2>3. SubSeq(parts, 1, Len(parts)) = parts
    BY SubSeqFull
  <2> QED BY <1>2, <1>5, <2>2, <2>3
<1>7. Concat(p \o q) = Concat(p) \o Concat(q)
  BY <1>3, <1>4, ConcatConcat
<1>8. Concat(q) \in Seq(S)
  BY <1>4, ConcatType
<1> QED BY <1>1, <1>6, <1>7, <1>8

-----------------------------------------------------------------------------
(* Words, bytes and the remaining length *)

Length == 0..MQTT_MAX_REMAINING_LENGTH
LEMMA UpTo ==
  ASSUME NEW m \in Nat, NEW n
  PROVE  n \in 0..m <=> n \in Nat /\ n <= m
OBVIOUS
LEMMA WordIs == \A n : n \in Word <=> n \in Nat /\ n <= 65535
<1>1. UINT16_MAX = 65535
  BY DEF UINT16_MAX
<1>2. UINT16_MAX \in Nat
  BY <1>1
<1>3. \A n : n \in Word <=> n \in Nat /\ n <= UINT16_MAX
  BY <1>2, UpTo DEF Word
<1> QED BY <1>1, <1>3
LEMMA OctetIs == \A n : n \in Octet <=> n \in Nat /\ n <= 255
<1>1. UINT8_MAX = 255
  BY DEF UINT8_MAX
<1>2. UINT8_MAX \in Nat
  BY <1>1
<1>3. \A n : n \in Octet <=> n \in Nat /\ n <= UINT8_MAX
  BY <1>2, UpTo DEF Octet
<1> QED BY <1>1, <1>3
LEMMA LengthIs == \A n : n \in Length <=> n \in Nat /\ n <= 268435455
<1>1. MQTT_MAX_REMAINING_LENGTH = 268435455
  BY DEF MQTT_MAX_REMAINING_LENGTH
<1>2. MQTT_MAX_REMAINING_LENGTH \in Nat
  BY <1>1
<1>3. \A n : n \in Length <=> n \in Nat /\ n <= MQTT_MAX_REMAINING_LENGTH
  BY <1>2, UpTo DEF Length
<1> QED BY <1>1, <1>3

LEMMA UINT16Facts ==
  ASSUME NEW n \in Word
  PROVE  UINT16(n) \in Seq(Octet) /\ Len(UINT16(n)) = 2 /\ UINT16(n)[1] * 256 + UINT16(n)[2] = n
<1>1. PICK q : q = n \div 256
  OBVIOUS
<1>2. PICK r : r = n % 256
  OBVIOUS
<1>3. q \in Nat /\ q <= 255 /\ r \in Nat /\ r <= 255 /\ n = 256 * q + r
  <2>1. n \in Nat /\ n <= 65535
    BY WordIs
  <2> QED BY <1>1, <1>2, <2>1
<1>4. UINT16(n) = <<q, r>>
  BY <1>1, <1>2 DEF UINT16
<1>5. q \in Octet /\ r \in Octet
  BY <1>3, OctetIs
<1>6. PICK u : u = <<q, r>>
  OBVIOUS
<1>7. u \in Seq(Octet) /\ Len(u) = 2 /\ u[1] = q /\ u[2] = r
  BY <1>5, <1>6
<1>8. u[1] * 256 + u[2] = n
  BY <1>3, <1>7
<1> QED BY <1>4, <1>6, <1>7, <1>8

LEMMA Decode16 ==
  ASSUME NEW n \in Word, NEW b \in Seq(Octet)
  PROVE  UINT16_DECODE(UINT16(n) \o b) = n
<1>1. PICK u : u = UINT16(n)
  OBVIOUS
<1>2. u \in Seq(Octet) /\ Len(u) = 2 /\ u[1] * 256 + u[2] = n
  BY <1>1, UINT16Facts
<1>4. PICK c : c = u \o b
  OBVIOUS
<1>5. c[1] = u[1] /\ c[2] = u[2]
  <2>1. u \in Seq(Octet)
    BY <1>2
  <2>2. \A i \in 1..Len(u) : c[i] = u[i]
    BY <1>4, <2>1, JoinedAt
  <2> QED BY <1>2, <2>2
<1>6. c[1] * 256 + c[2] = n
  BY <1>2, <1>5
<1> QED BY <1>1, <1>4, <1>6 DEF UINT16_DECODE

-----------------------------------------------------------------------------
\* Lengths.

EncodedDigit(n, i, size) == ((n \div Weight[i]) % 128) + (IF i < size THEN 128 ELSE 0)
LEMMA EncodedFacts ==
  ASSUME NEW n \in Length
  PROVE  LET e == encodeRemainingLength(n)
             size == remainingLengthEncodedSize(n)
         IN /\ e \in Seq(Octet) /\ Len(e) = size /\ size \in 1..4
            /\ \A i \in 1..size : e[i] = EncodedDigit(n, i, size)
<1>1. PICK size : size = remainingLengthEncodedSize(n)
  OBVIOUS
<1>2. n \in Nat /\ n <= 268435455
  BY LengthIs
<1>3. PICK q2 : q2 = n \div 128
  OBVIOUS
<1>4. PICK q3 : q3 = n \div 16384
  OBVIOUS
<1>5. PICK q4 : q4 = n \div 2097152
  OBVIOUS
<1>6. q2 \in Nat /\ q3 \in Nat /\ q4 \in Nat /\ n \div 1 = n /\ n \div 268435456 = 0
  BY <1>2, <1>3, <1>4, <1>5
<1>7. /\ size \in 1..4
      /\ q2 > 0 <=> size > 1
      /\ q3 > 0 <=> size > 2
      /\ q4 > 0 <=> size > 3
  BY <1>1, <1>2, <1>3, <1>4, <1>5 DEF remainingLengthEncodedSize
<1>8. Weight[1] = 1 /\ Weight[2] = 128 /\ Weight[3] = 16384 /\ Weight[4] = 2097152 /\ Weight[5] = 268435456
  BY DEF Weight
<1> DEFINE left(i) == IF i > 5 THEN 0 ELSE n \div Weight[i]
<1>9. left(1) = n /\ left(2) = q2 /\ left(3) = q3 /\ left(4) = q4 /\ left(5) = 0
  BY <1>3, <1>4, <1>5, <1>6, <1>8
<1>10. \A i \in 1..5 : (i = 1 \/ left(i) > 0) <=> i <= size
  <2>1. \A i \in 1..5 : i = 1 \/ i = 2 \/ i = 3 \/ i = 4 \/ i = 5
    OBVIOUS
  <2> HIDE DEF left
  <2> QED BY <1>7, <1>9, <2>1
<1>11. \A i \in 1..size : left(i + 1) > 0 <=> i < size
  <2>1. \A i \in 1..size : i + 1 \in 2..5
    BY <1>7
  <2>2. \A j \in 2..5 : left(j) > 0 <=> j <= size
    <3> HIDE DEF left
    <3> QED BY <1>10
  <2> HIDE DEF left
  <2>3. \A i \in 1..size : left(i + 1) > 0 <=> i + 1 <= size
    BY <2>1, <2>2
  <2> QED BY <1>7, <2>3
<1>12. {j \in 1..5 : j = 1 \/ left(j) > 0} = 1..size
  <2> HIDE DEF left
  <2> QED BY <1>7, <1>10
<1>13. encodeRemainingLength(n) = [i \in 1..size |-> (left(i) % 128) + IF left(i + 1) > 0 THEN 128 ELSE 0]
  BY <1>12 DEF encodeRemainingLength
<1>14. PICK e : e = encodeRemainingLength(n)
  OBVIOUS
<1>15. \A i \in 1..size : left(i) = n \div Weight[i] /\ left(i) \in Nat
  <2>1. \A i \in 1..size : i = 1 \/ i = 2 \/ i = 3 \/ i = 4
    BY <1>7
  <2>2. \A i \in 1..size : left(i) \in Nat
    <3> HIDE DEF left
    <3> QED BY <1>2, <1>6, <1>9, <2>1
  <2> QED BY <1>7, <2>2
<1>16. \A i \in 1..size : e[i] = EncodedDigit(n, i, size)
  <2>1. \A i \in 1..size : e[i] = (left(i) % 128) + IF left(i + 1) > 0 THEN 128 ELSE 0
    BY <1>13, <1>14
  <2>2. \A i \in 1..size : left(i) = n \div Weight[i]
    BY <1>15
  <2> HIDE DEF left
  <2> QED BY <1>11, <2>1, <2>2 DEF EncodedDigit
<1>17. e \in [1..size -> Octet]
  <2>1. \A i \in 1..size : (left(i) % 128) + (IF left(i + 1) > 0 THEN 128 ELSE 0) \in Octet
    <3>1. \A i \in 1..size : left(i) \in Nat
      BY <1>15
    <3> HIDE DEF left
    <3>2. \A i \in 1..size : left(i) % 128 \in Nat /\ left(i) % 128 <= 127
      BY <3>1
    <3> QED BY <3>2, OctetIs
  <2> HIDE DEF left
  <2> QED BY <1>13, <1>14, <2>1
<1>18. e \in Seq(Octet) /\ Len(e) = size
  <2>1. size \in Nat
    BY <1>7
  <2> QED BY <1>17, <2>1, SeqOf
<1> QED BY <1>1, <1>7, <1>14, <1>16, <1>18

LEMMA TotalOfFew ==
  ASSUME NEW numbers \in Seq(Int)
  PROVE  /\ Len(numbers) = 1 => Total(numbers) = numbers[1]
         /\ Len(numbers) = 2 => Total(numbers) = numbers[1] + numbers[2]
         /\ Len(numbers) = 3 => Total(numbers) = numbers[1] + numbers[2] + numbers[3]
         /\ Len(numbers) = 4 => Total(numbers) = numbers[1] + numbers[2] + numbers[3] + numbers[4]
<1>1. PICK n \in Nat : n = Len(numbers)
  OBVIOUS
<1>2. PICK f \in [0..n -> Int] : Total(numbers) = f[n] /\ Summed(f, numbers)
  BY <1>1, TotalIs
<1>3. f[0] = 0 /\ \A k \in 1..n : f[k] = f[k - 1] + numbers[k]
  BY <1>1, <1>2 DEF Summed
<1>4. \A k \in 1..n : numbers[k] \in Int
  BY <1>1
<1>5. n >= 1 => f[1] = numbers[1]
  BY <1>3, <1>4
<1>6. n >= 2 => f[2] = f[1] + numbers[2]
  BY <1>3
<1>7. n >= 3 => f[3] = f[2] + numbers[3]
  BY <1>3
<1>8. n >= 4 => f[4] = f[3] + numbers[4]
  BY <1>3
<1>9. \A k \in 0..n : f[k] \in Int
  OBVIOUS
<1>10. n = 1 => f[n] = numbers[1]
  BY <1>5
<1>11. n = 2 => f[n] = numbers[1] + numbers[2]
  BY <1>5, <1>6
<1>12. n = 3 => f[n] = numbers[1] + numbers[2] + numbers[3]
  BY <1>5, <1>6, <1>7
<1>13. n = 4 => f[n] = numbers[1] + numbers[2] + numbers[3] + numbers[4]
  <2>1. n = 4 => f[3] = numbers[1] + numbers[2] + numbers[3]
    BY <1>5, <1>6, <1>7
  <2>2. n = 4 => f[4] = f[3] + numbers[4]
    BY <1>8
  <2> QED BY <2>1, <2>2
<1> QED BY <1>1, <1>2, <1>10, <1>11, <1>12, <1>13

\* What the first m bytes stand for.
LengthOf(bytes, m) == Total([i \in 1..m |-> (bytes[i] % 128) * Weight[i]])
LEMMA LengthOfIs ==
  ASSUME NEW bytes \in Seq(Octet), NEW m \in 1..4, m <= Len(bytes)
  PROVE  LengthOf(bytes, m) = (bytes[1] % 128) + (IF m > 1 THEN (bytes[2] % 128) * 128 ELSE 0)
                                + (IF m > 2 THEN (bytes[3] % 128) * 16384 ELSE 0)
                                + (IF m > 3 THEN (bytes[4] % 128) * 2097152 ELSE 0)
<1>1. PICK ns : ns = [i \in 1..m |-> (bytes[i] % 128) * Weight[i]]
  OBVIOUS
<1>2. Weight[1] = 1 /\ Weight[2] = 128 /\ Weight[3] = 16384 /\ Weight[4] = 2097152
  BY DEF Weight
<1>3. \A i \in 1..m : bytes[i] \in Nat /\ bytes[i] % 128 \in Nat
  <2>1. \A i \in 1..m : i \in 1..Len(bytes)
    OBVIOUS
  <2>2. \A i \in 1..m : bytes[i] \in Octet
    BY <2>1
  <2>3. \A i \in 1..m : bytes[i] \in Nat
    BY <2>2, OctetIs
  <2> QED BY <2>3
<1>4. \A i \in 1..m : i = 1 \/ i = 2 \/ i = 3 \/ i = 4
  OBVIOUS
<1>5. ASSUME NEW i \in 1..m PROVE (bytes[i] % 128) * Weight[i] \in Int
  <2>1. PICK b \in Nat : b = bytes[i] % 128
    BY <1>3
  <2>2. Weight[i] = 1 \/ Weight[i] = 128 \/ Weight[i] = 16384 \/ Weight[i] = 2097152
    BY SMT, <1>2, <1>4
  <2>3. b * 1 \in Int /\ b * 128 \in Int /\ b * 16384 \in Int /\ b * 2097152 \in Int
    BY SMT, <2>1
  <2> QED BY SMT, <2>1, <2>2, <2>3
<1>6. ns \in [1..m -> Int]
  BY <1>1, <1>5
<1>7. ns \in Seq(Int) /\ Len(ns) = m
  <2>1. m \in Nat
    OBVIOUS
  <2> QED BY <1>6, <2>1, SeqOf
<1>8. \A i \in 1..m : ns[i] = (bytes[i] % 128) * Weight[i]
  BY <1>1
<1>9. PICK total : total = Total(ns)
  OBVIOUS
<1>10. /\ m = 1 => total = ns[1]
       /\ m = 2 => total = ns[1] + ns[2]
       /\ m = 3 => total = ns[1] + ns[2] + ns[3]
       /\ m = 4 => total = ns[1] + ns[2] + ns[3] + ns[4]
  BY <1>7, <1>9, TotalOfFew
<1>11. /\ ns[1] = bytes[1] % 128
       /\ m > 1 => ns[2] = (bytes[2] % 128) * 128
       /\ m > 2 => ns[3] = (bytes[3] % 128) * 16384
       /\ m > 3 => ns[4] = (bytes[4] % 128) * 2097152
  BY <1>2, <1>3, <1>8
<1>12. /\ bytes[1] % 128 \in Int
       /\ m > 1 => (bytes[2] % 128) * 128 \in Int
       /\ m > 2 => (bytes[3] % 128) * 16384 \in Int
       /\ m > 3 => (bytes[4] % 128) * 2097152 \in Int
  BY <1>3
<1>13. m = 1 \/ m = 2 \/ m = 3 \/ m = 4
  OBVIOUS
<1>14. total = (bytes[1] % 128) + (IF m > 1 THEN (bytes[2] % 128) * 128 ELSE 0)
                                + (IF m > 2 THEN (bytes[3] % 128) * 16384 ELSE 0)
                                + (IF m > 3 THEN (bytes[4] % 128) * 2097152 ELSE 0)
  BY <1>10, <1>11, <1>12, <1>13
<1> QED BY <1>1, <1>9, <1>14 DEF LengthOf

More(bytes, n) == /\ n \in 0..4 /\ n <= Len(bytes) /\ \A i \in 1..n : bytes[i] >= 128
                  /\ n = 4 \/ n = Len(bytes) \/ bytes[n + 1] < 128
LEMMA ByteFacts ==
  ASSUME NEW bytes \in Seq(Octet)
  PROVE  Len(bytes) \in Nat /\ \A i \in 1..Len(bytes) : bytes[i] \in Nat /\ bytes[i] <= 255
<1>1. \A i \in 1..Len(bytes) : bytes[i] \in Octet
  OBVIOUS
<1> QED BY <1>1, OctetIs
LEMMA MoreExists ==
  ASSUME NEW bytes \in Seq(Octet)
  PROVE  \E n \in 0..4 : More(bytes, n)
<1>1. PICK T : T = {n \in Nat : n = 4 \/ n = Len(bytes) \/ (n < Len(bytes) /\ bytes[n + 1] < 128)}
  OBVIOUS
<1>2. 4 \in T /\ Len(bytes) \in T /\ T \in SUBSET Nat
  BY <1>1
<1>3. PICK n \in T : \A k \in T : n <= k
  BY <1>2, LeastMember
<1>4. n \in Nat /\ n <= 4 /\ n <= Len(bytes)
  BY <1>2, <1>3
<1>5. \A i \in 1..n : bytes[i] >= 128
  <2> SUFFICES ASSUME NEW i \in 1..n PROVE bytes[i] >= 128
    OBVIOUS
  <2>1. i - 1 \in Nat /\ i - 1 < n /\ i - 1 + 1 = i
    BY <1>4
  <2>2. i - 1 \notin T
    <3>1. i - 1 \in T => n <= i - 1
      BY <1>3
    <3> QED BY <1>4, <2>1, <3>1
  <2>3. ~(bytes[i - 1 + 1] < 128)
    BY <1>1, <1>4, <2>1, <2>2
  <2>4. bytes[i] \in Nat
    BY <1>4, ByteFacts
  <2> QED BY <2>1, <2>3, <2>4
<1>6. n = 4 \/ n = Len(bytes) \/ bytes[n + 1] < 128
  BY <1>1
<1>7. n \in 0..4
  BY <1>4
<1>8. More(bytes, n)
  BY <1>4, <1>5, <1>6, <1>7 DEF More
<1> QED BY <1>7, <1>8
LEMMA MoreOnce ==
  ASSUME NEW bytes \in Seq(Octet), NEW n \in Nat, NEW m \in Nat, More(bytes, n), More(bytes, m)
  PROVE  ~ n < m
<1> SUFFICES ASSUME n < m PROVE FALSE
  OBVIOUS
<1>1. n # 4 /\ n # Len(bytes) /\ n + 1 \in 1..m /\ n + 1 \in 1..Len(bytes)
  BY DEF More
<1>2. bytes[n + 1] < 128 /\ bytes[n + 1] >= 128
  BY <1>1 DEF More
<1>3. bytes[n + 1] \in Nat
  BY <1>1, ByteFacts
<1> QED BY <1>2, <1>3

Decoded(length, m) == [status |-> "MQTTSuccess", remainingLength |-> length, headerLength |-> m]
LEMMA DecodeIs ==
  ASSUME NEW bytes \in Seq(Octet), NEW n \in 0..4, More(bytes, n), NEW missing
  PROVE  DecodeLength(bytes, missing) =
           IF n = 4 THEN BadResponse
           ELSE IF n = Len(bytes) THEN [status |-> missing]
           ELSE IF n + 1 # remainingLengthEncodedSize(LengthOf(bytes, n + 1)) THEN BadResponse
           ELSE Decoded(LengthOf(bytes, n + 1), n + 2)
<1> DEFINE Is(k) == /\ k <= Len(bytes) /\ \A i \in 1..k : bytes[i] >= 128
                    /\ k = 4 \/ k = Len(bytes) \/ bytes[k + 1] < 128
<1>1. \A k \in 0..4 : Is(k) <=> More(bytes, k)
  BY DEF More
<1>2. PICK more : more = CHOOSE k \in 0..4 : Is(k)
  OBVIOUS
<1>3. more \in 0..4 /\ Is(more)
  <2>1. Is(n)
    BY <1>1
  <2> HIDE DEF Is
  <2> QED BY <1>2, <2>1
<1>4. more = n
  <2>1. More(bytes, more)
    <3> HIDE DEF Is
    <3> QED BY <1>1, <1>3
  <2>3. more \in Nat /\ n \in Nat
    BY <1>3
  <2>2. ~ n < more /\ ~ more < n
    BY <2>1, <2>3, MoreOnce
  <2> QED BY <2>2, <2>3
<1>5. PICK length : length = LengthOf(bytes, n + 1)
  OBVIOUS
<1>6. length = Total([i \in 1 .. more + 1 |-> (bytes[i] % 128) * Weight[i]])
  BY <1>4, <1>5 DEF LengthOf
<1>7. DecodeLength(bytes, missing) =
           IF more = 4 THEN BadResponse
           ELSE IF more = Len(bytes) THEN [status |-> missing]
           ELSE IF more + 1 # remainingLengthEncodedSize(length) THEN BadResponse
           ELSE [status |-> "MQTTSuccess", remainingLength |-> length, headerLength |-> more + 2]
  BY <1>2, <1>6 DEF DecodeLength
<1> QED BY <1>4, <1>5, <1>7 DEF Decoded

\* The digits make the number.
LEMMA DigitsMake ==
  ASSUME NEW n \in Nat, n <= 268435455
  PROVE  n = (n % 128) + ((n \div 128) % 128) * 128 + ((n \div 16384) % 128) * 16384 + ((n \div 2097152) % 128) * 2097152
<1>1. PICK q2 : q2 = n \div 128
  OBVIOUS
<1>2. PICK q3 : q3 = n \div 16384
  OBVIOUS
<1>3. PICK q4 : q4 = n \div 2097152
  OBVIOUS
<1>4. q2 \in Nat /\ q3 \in Nat /\ q4 \in Nat /\ q4 <= 127
  BY SMT, <1>1, <1>2, <1>3
<1>5. n = (n % 128) + q2 * 128
  BY SMT, <1>1
<1>6. q3 = q2 \div 128
  BY SMT, <1>1, <1>2
<1>7. q4 = q3 \div 128
  BY SMT, <1>2, <1>3
<1>8. q2 = (q2 % 128) + q3 * 128
  BY SMT, <1>4, <1>6
<1>9. q3 = (q3 % 128) + q4 * 128
  BY SMT, <1>4, <1>7
<1>10. q4 % 128 = q4
  BY SMT, <1>4
<1>11. PICK a \in Nat : a = n % 128
  OBVIOUS
<1>12. PICK b \in Nat : b = q2 % 128
  BY <1>4
<1>13. PICK c \in Nat : c = q3 % 128
  BY <1>4
<1>14. n = a + b * 128 + c * 16384 + q4 * 2097152
  BY SMT, <1>4, <1>5, <1>8, <1>9, <1>11, <1>12, <1>13
<1> QED BY SMT, <1>1, <1>2, <1>3, <1>10, <1>11, <1>12, <1>13, <1>14

\* What is left of a number of one, two or three digits.
LEMMA FewDigits ==
  ASSUME NEW n \in Nat
  PROVE  /\ n < 128 => n \div 128 = 0
         /\ n < 16384 => n \div 16384 = 0
         /\ n < 2097152 => n \div 2097152 = 0
         /\ n \div 1 = n
OBVIOUS

LEMMA EncodedAt ==
  ASSUME NEW n \in Length, NEW i \in 1..remainingLengthEncodedSize(n)
  PROVE  LET x == EncodedDigit(n, i, remainingLengthEncodedSize(n))
         IN /\ x % 128 = (n \div Weight[i]) % 128
            /\ i < remainingLengthEncodedSize(n) => x >= 128
            /\ i = remainingLengthEncodedSize(n) => x < 128
<1>1. PICK size : size = remainingLengthEncodedSize(n)
  OBVIOUS
<1>2. n \in Nat /\ size \in 1..4
  BY <1>1, LengthIs, EncodedFacts
<1>3. Weight[1] = 1 /\ Weight[2] = 128 /\ Weight[3] = 16384 /\ Weight[4] = 2097152
  BY DEF Weight
<1>4. i = 1 \/ i = 2 \/ i = 3 \/ i = 4
  BY <1>1, <1>2
<1>5. PICK q \in Nat : q = n \div Weight[i]
  <2>1. n \div 1 \in Nat /\ n \div 128 \in Nat /\ n \div 16384 \in Nat /\ n \div 2097152 \in Nat
    BY SMT, <1>2
  <2> QED BY SMT, <1>3, <1>4, <2>1
<1>6. PICK d \in Nat : d = q % 128 /\ d < 128
  OBVIOUS
<1>7. d % 128 = d /\ (d + 128) % 128 = d
  BY <1>6
<1>8. EncodedDigit(n, i, size) = d + (IF i < size THEN 128 ELSE 0)
  BY <1>5, <1>6 DEF EncodedDigit
<1>9. PICK x : x = EncodedDigit(n, i, size)
  OBVIOUS
<1>10. x % 128 = d /\ (i < size => x >= 128) /\ (i = size => x < 128)
  BY <1>2, <1>6, <1>7, <1>8, <1>9
<1> QED BY <1>1, <1>5, <1>6, <1>9, <1>10

\* A length is read back whatever follows it.
LEMMA DecodeEncoded ==
  ASSUME NEW n \in Length, NEW rest \in Seq(Octet), NEW missing
  PROVE  DecodeLength(encodeRemainingLength(n) \o rest, missing) = Decoded(n, 1 + remainingLengthEncodedSize(n))
<1>1. PICK size : size = remainingLengthEncodedSize(n)
  OBVIOUS
<1>2. PICK e : e = encodeRemainingLength(n)
  OBVIOUS
<1>3. e \in Seq(Octet) /\ Len(e) = size /\ size \in 1..4
  BY <1>1, <1>2, EncodedFacts
<1>4. n \in Nat /\ n <= 268435455
  BY LengthIs
<1>5. PICK c : c = e \o rest
  OBVIOUS
<1>6. c \in Seq(Octet) /\ Len(c) >= size
  <2>1. c \in Seq(Octet) /\ Len(c) = Len(e) + Len(rest)
    BY <1>3, <1>5, ConcatProperties
  <2>2. Len(rest) \in Nat
    OBVIOUS
  <2> QED BY <1>3, <2>1, <2>2
<1>7. \A i \in 1..size : /\ c[i] % 128 = (n \div Weight[i]) % 128
                         /\ i < size => c[i] >= 128
                         /\ i = size => c[i] < 128
  <2>1. \A i \in 1..size : c[i] = e[i]
    BY <1>3, <1>5, JoinedAt
  <2>2. \A i \in 1..size : e[i] = EncodedDigit(n, i, size)
    BY <1>1, <1>2, EncodedFacts
  <2>3. \A i \in 1..size : c[i] = EncodedDigit(n, i, size)
    BY <2>1, <2>2
  <2> QED BY <1>1, <2>3, EncodedAt
<1>8. PICK k : k = size - 1
  OBVIOUS
<1>9. k \in 0..4 /\ k # 4 /\ k + 1 = size /\ k # Len(c) /\ k <= Len(c) /\ k + 2 = 1 + size
  BY <1>3, <1>6, <1>8
<1>10. More(c, k)
  <2>1. \A i \in 1..k : c[i] >= 128
    <3>1. \A i \in 1..k : i \in 1..size /\ i < size
      BY <1>3, <1>8
    <3> QED BY <1>7, <3>1
  <2>2. c[k + 1] < 128
    <3>1. size \in 1..size
      BY <1>3
    <3> QED BY <1>7, <1>9, <3>1
  <2> QED BY <1>9, <2>1, <2>2 DEF More
<1>11. LengthOf(c, size) = n
  <2>1. LengthOf(c, size) = (c[1] % 128) + (IF size > 1 THEN (c[2] % 128) * 128 ELSE 0)
                                + (IF size > 2 THEN (c[3] % 128) * 16384 ELSE 0)
                                + (IF size > 3 THEN (c[4] % 128) * 2097152 ELSE 0)
    BY <1>3, <1>6, LengthOfIs
  <2>2. /\ c[1] % 128 = (n \div 1) % 128
        /\ size > 1 => c[2] % 128 = (n \div 128) % 128
        /\ size > 2 => c[3] % 128 = (n \div 16384) % 128
        /\ size > 3 => c[4] % 128 = (n \div 2097152) % 128
    <3>1. Weight[1] = 1 /\ Weight[2] = 128 /\ Weight[3] = 16384 /\ Weight[4] = 2097152
      BY DEF Weight
    <3>2. /\ 1 \in 1..size
          /\ size > 1 => 2 \in 1..size
          /\ size > 2 => 3 \in 1..size
          /\ size > 3 => 4 \in 1..size
      BY <1>3
    <3> QED BY <1>7, <3>1, <3>2
  <2>3. /\ size <= 1 => n < 128
        /\ size <= 2 => n < 16384
        /\ size <= 3 => n < 2097152
    BY SMT, <1>1, <1>3, <1>4 DEF remainingLengthEncodedSize
  <2>4. PICK d1 : d1 = n % 128
    OBVIOUS
  <2>5. PICK d2 : d2 = (n \div 128) % 128
    OBVIOUS
  <2>6. PICK d3 : d3 = (n \div 16384) % 128
    OBVIOUS
  <2>7. PICK d4 : d4 = (n \div 2097152) % 128
    OBVIOUS
  <2>8. d1 \in Nat /\ d2 \in Nat /\ d3 \in Nat /\ d4 \in Nat
    BY SMT, <1>4, <2>4, <2>5, <2>6, <2>7
  <2>9. n = d1 + d2 * 128 + d3 * 16384 + d4 * 2097152
    BY <1>4, <2>4, <2>5, <2>6, <2>7, DigitsMake
  <2>10. /\ size <= 1 => d2 = 0
         /\ size <= 2 => d3 = 0
         /\ size <= 3 => d4 = 0
    BY SMT, <1>4, <2>3, <2>5, <2>6, <2>7, FewDigits
  <2>11. /\ c[1] % 128 = d1
         /\ size > 1 => c[2] % 128 = d2
         /\ size > 2 => c[3] % 128 = d3
         /\ size > 3 => c[4] % 128 = d4
    BY <1>4, <2>2, <2>4, <2>5, <2>6, <2>7, FewDigits
  <2>12. /\ (IF size > 1 THEN (c[2] % 128) * 128 ELSE 0) = d2 * 128
         /\ (IF size > 2 THEN (c[3] % 128) * 16384 ELSE 0) = d3 * 16384
         /\ (IF size > 3 THEN (c[4] % 128) * 2097152 ELSE 0) = d4 * 2097152
    BY SMT, <1>3, <2>10, <2>11
  <2> QED BY SMT, <2>1, <2>8, <2>9, <2>11, <2>12
<1>12. n + 0 = n /\ k + 1 = remainingLengthEncodedSize(LengthOf(c, k + 1))
  BY <1>1, <1>4, <1>9, <1>11
<1>13. DecodeLength(c, missing) = Decoded(LengthOf(c, k + 1), k + 2)
  BY <1>6, <1>9, <1>10, <1>12, DecodeIs
<1> QED BY <1>1, <1>2, <1>5, <1>9, <1>11, <1>13

\* Part of an encoded length is not taken for one.
LEMMA DecodePart ==
  ASSUME NEW n \in Length, NEW part \in Seq(Octet), Len(part) < remainingLengthEncodedSize(n),
         \A i \in 1..Len(part) : part[i] = encodeRemainingLength(n)[i], NEW missing
  PROVE  DecodeLength(part, missing) = [status |-> missing]
<1>1. PICK size : size = remainingLengthEncodedSize(n)
  OBVIOUS
<1>2. size \in 1..4
  BY <1>1, EncodedFacts
<1>3. PICK k \in Nat : k = Len(part)
  OBVIOUS
<1>4. k \in 0..4 /\ k # 4 /\ k < size /\ \A i \in 1..k : i \in 1..size /\ i < size
  BY <1>1, <1>2, <1>3
<1>5. \A i \in 1..k : part[i] = EncodedDigit(n, i, size)
  <2>1. \A i \in 1..size : encodeRemainingLength(n)[i] = EncodedDigit(n, i, size)
    BY <1>1, EncodedFacts
  <2> QED BY <1>3, <1>4, <2>1
<1>6. \A i \in 1..k : part[i] >= 128
  BY <1>1, <1>4, <1>5, EncodedAt
<1>7. More(part, k)
  BY <1>3, <1>4, <1>6 DEF More
<1> QED BY <1>3, <1>4, <1>7, DecodeIs

LEMMA FixedHeaderFacts ==
  ASSUME NEW type \in Octet, NEW n \in Length
  PROVE  /\ FixedHeader(type, n) \in Seq(Octet)
         /\ Len(FixedHeader(type, n)) = 1 + remainingLengthEncodedSize(n)
         /\ remainingLengthEncodedSize(n) \in 1..4
<1>1. PICK e : e = encodeRemainingLength(n)
  OBVIOUS
<1>2. e \in Seq(Octet) /\ Len(e) = remainingLengthEncodedSize(n) /\ remainingLengthEncodedSize(n) \in 1..4
  BY <1>1, EncodedFacts
<1>3. e \in Seq(Octet)
  BY <1>2
<1>4. <<type>> \o e \in Seq(Octet) /\ Len(<<type>> \o e) = Len(e) + 1
  BY <1>3, TailJoined
<1>5. PICK h : h = <<type>> \o e
  OBVIOUS
<1>6. h = FixedHeader(type, n)
  BY <1>1, <1>5 DEF FixedHeader
<1> QED BY <1>2, <1>4, <1>5, <1>6

\* The places of a packet that is a fixed header and a body.
LEMMA PacketFacts ==
  ASSUME NEW type \in Octet, NEW n \in Length, NEW rest \in Seq(Octet)
  PROVE  LET bytes == FixedHeader(type, n) \o rest IN
         /\ bytes \in Seq(Octet) /\ bytes[1] = type /\ Tail(bytes) = encodeRemainingLength(n) \o rest
         /\ Len(bytes) = 1 + remainingLengthEncodedSize(n) + Len(rest) /\ bytes # <<>>
<1>1. PICK e \in Seq(Octet) : e = encodeRemainingLength(n)
  BY EncodedFacts
<1>2. Len(e) = remainingLengthEncodedSize(n) /\ Len(e) \in Nat /\ Len(rest) \in Nat
  BY <1>1, EncodedFacts
<1>3. PICK t : t = e \o rest
  OBVIOUS
<1>4. t \in Seq(Octet) /\ Len(t) = Len(e) + Len(rest)
  BY <1>3, ConcatProperties
<1>5. PICK bytes : bytes = FixedHeader(type, n) \o rest
  OBVIOUS
<1>6. bytes = <<type>> \o t
  <2>1. <<type>> \in Seq(Octet)
    OBVIOUS
  <2>2. (<<type>> \o e) \o rest = <<type>> \o (e \o rest)
    BY <2>1, ConcatAssociative
  <2>3. FixedHeader(type, n) = <<type>> \o e
    BY <1>1 DEF FixedHeader
  <2> QED BY <1>3, <1>5, <2>2, <2>3
<1>7. t \in Seq(Octet)
  BY <1>4
<1>8. Tail(bytes) = t /\ bytes[1] = type /\ bytes \in Seq(Octet) /\ Len(bytes) = Len(t) + 1
  BY <1>6, <1>7, TailJoined
<1>9. Len(bytes) = 1 + Len(e) + Len(rest)
  BY <1>2, <1>4, <1>8
<1>10. bytes # <<>>
  <2>1. Len(bytes) # 0
    BY <1>2, <1>9
  <2>2. Len(<<>>) = 0
    OBVIOUS
  <2> QED BY <2>1, <2>2
<1> QED BY <1>1, <1>2, <1>3, <1>5, <1>8, <1>9, <1>10

LEMMA DecodedFields ==
  ASSUME NEW n, NEW m
  PROVE  Decoded(n, m).status = "MQTTSuccess" /\ Decoded(n, m).remainingLength = n /\ Decoded(n, m).headerLength = m
BY DEF Decoded

LEMMA BodyOf ==
  ASSUME NEW type \in Octet, NEW n \in Length, NEW rest \in Seq(Octet)
  PROVE  Body(FixedHeader(type, n) \o rest) = rest
<1>1. PICK h \in Seq(Octet) : h = FixedHeader(type, n)
  BY FixedHeaderFacts
<1>2. PICK size : size = remainingLengthEncodedSize(n)
  OBVIOUS
<1>3. Len(h) = 1 + size /\ size \in Nat
  <2>1. Len(h) = 1 + size /\ size \in 1..4
    BY <1>1, <1>2, FixedHeaderFacts
  <2> QED BY <2>1
<1>4. Tail(h \o rest) = encodeRemainingLength(n) \o rest
  BY <1>1, PacketFacts
<1>5. processRemainingLength(Tail(h \o rest)) = Decoded(n, 1 + size)
  <2>1. DecodeLength(encodeRemainingLength(n) \o rest, "MQTTNeedMoreBytes") = Decoded(n, 1 + size)
    BY <1>2, DecodeEncoded
  <2> QED BY <1>4, <2>1 DEF processRemainingLength
<1>6. processRemainingLength(Tail(h \o rest)).headerLength = 1 + size
  BY <1>5, DecodedFields
<1>7. Body(h \o rest) = From(h \o rest, 1 + (1 + size))
  BY <1>6 DEF Body
<1>8. 1 + (1 + size) = Len(h) + 1
  BY <1>3
<1>9. From(h \o rest, Len(h) + 1) = rest
  BY FromJoined
<1> QED BY <1>1, <1>7, <1>8, <1>9

LEMMA PartsNeedMore ==
  ASSUME NEW type \in Octet, NEW n \in Length, NEW rest \in Seq(Octet),
         NEW m \in 1..remainingLengthEncodedSize(n)
  PROVE  processRemainingLength(SubSeq(FixedHeader(type, n) \o rest, 2, m)).status = "MQTTNeedMoreBytes"
<1>1. PICK c : c = FixedHeader(type, n) \o rest
  OBVIOUS
<1>2. PICK size : size = remainingLengthEncodedSize(n)
  OBVIOUS
<1>3. PICK e \in Seq(Octet) : e = encodeRemainingLength(n)
  BY EncodedFacts
<1>4. c \in Seq(Octet) /\ c # <<>> /\ Len(c) = 1 + size + Len(rest) /\ Tail(c) = e \o rest
  BY <1>1, <1>2, <1>3, PacketFacts
<1>5. size \in 1..4 /\ Len(e) = size /\ m \in 1..size
  BY <1>2, <1>3, EncodedFacts
<1>6. Len(rest) \in Nat
  OBVIOUS
<1>7. \A i \in 1..size : c[i + 1] = e[i]
  <2>1. \A i \in 1..size : (e \o rest)[i] = e[i]
    BY <1>5, JoinedAt
  <2>2. PICK t : t = Tail(c)
    OBVIOUS
  <2>3. t \in Seq(Octet) /\ Len(t) = size + Len(rest)
    <3>1. e \o rest \in Seq(Octet) /\ Len(e \o rest) = Len(e) + Len(rest)
      BY ConcatProperties
    <3> QED BY <1>4, <1>5, <2>2, <3>1
  <2>4. \A i \in 1..Len(t) : t[i] = c[i + 1]
    <3>1. c \in Seq(Octet) /\ c # <<>>
      BY <1>4
    <3>2. Len(t) = Len(c) - 1 /\ \A i \in 1 .. Len(c) - 1 : t[i] = c[i + 1]
      BY <2>2, <3>1
    <3> QED BY <3>2
  <2>5. \A i \in 1..size : i \in 1..Len(t)
    BY <1>5, <1>6, <2>3
  <2> QED BY <1>4, <2>1, <2>2, <2>4, <2>5
<1>8. PICK part : part = SubSeq(c, 2, m)
  OBVIOUS
<1>9. part \in Seq(Octet) /\ Len(part) = m - 1 /\ \A i \in 1 .. m - 1 : part[i] = c[i + 1]
  <2>1. \A i \in 2..m : c[i] \in Octet
    <3>1. \A i \in 2..m : i \in 1..Len(c)
      BY <1>4, <1>5, <1>6
    <3>2. \A i \in 1..Len(c) : c[i] \in Octet
      BY <1>4
    <3> QED BY <3>1, <3>2
  <2>2. 2 \in Int /\ m \in Int
    OBVIOUS
  <2>3. /\ part \in Seq(Octet) /\ Len(part) = IF 2 <= m THEN m - 2 + 1 ELSE 0
        /\ \A i \in 1 .. m - 2 + 1 : part[i] = c[2 + i - 1]
    BY <1>8, <2>1, <2>2, SubSeqProperties
  <2>4. m - 2 + 1 = m - 1 /\ (~ 2 <= m => m - 1 = 0) /\ \A i \in 1 .. m - 1 : 2 + i - 1 = i + 1
    BY <1>5
  <2> QED BY <2>3, <2>4
<1>10. Len(part) < size /\ \A i \in 1..Len(part) : part[i] = e[i]
  <2>1. \A i \in 1 .. m - 1 : i \in 1..size
    BY <1>5
  <2>2. m - 1 < size
    BY <1>5
  <2> QED BY <1>7, <1>9, <2>1, <2>2
<1>11. part \in Seq(Octet)
  BY <1>9
<1>12. DecodeLength(part, "MQTTNeedMoreBytes") = [status |-> "MQTTNeedMoreBytes"]
  BY <1>2, <1>3, <1>10, <1>11, DecodePart
<1> QED BY <1>1, <1>8, <1>12 DEF processRemainingLength

\* A fixed header says how long its packet is, and no part of it does.
LEMMA HeaderIsRight ==
  ASSUME NEW type \in Octet, NEW n \in Length, NEW rest \in Seq(Octet), Len(rest) = n
  PROVE  HeaderRight(FixedHeader(type, n) \o rest, type, n)
<1>1. PICK c : c = FixedHeader(type, n) \o rest
  OBVIOUS
<1>2. PICK size : size = remainingLengthEncodedSize(n)
  OBVIOUS
<1>3. c[1] = type /\ Tail(c) = encodeRemainingLength(n) \o rest /\ Len(c) = 1 + size + n
  BY <1>1, <1>2, PacketFacts
<1>4. size \in Nat /\ n \in Nat
  <2>1. size \in 1..4 /\ n \in Nat
    BY <1>2, EncodedFacts, LengthIs
  <2> QED BY <2>1
<1>5. PICK header : header = [status |-> "MQTTSuccess", remainingLength |-> n, headerLength |-> 1 + size]
  OBVIOUS
<1>6. header = Decoded(n, 1 + size) /\ header.headerLength = 1 + size
  BY <1>5 DEF Decoded
<1>7. processRemainingLength(Tail(c)) = header /\ getRemainingLength(Tail(c)) = header
  <2>1. DecodeLength(encodeRemainingLength(n) \o rest, "MQTTNeedMoreBytes") = header
    BY <1>2, <1>6, DecodeEncoded
  <2>2. DecodeLength(encodeRemainingLength(n) \o rest, "MQTTBadResponse") = header
    BY <1>2, <1>6, DecodeEncoded
  <2> QED BY <1>3, <2>1, <2>2 DEF processRemainingLength, getRemainingLength
<1>8. Len(c) = n + header.headerLength
  BY <1>3, <1>4, <1>6
<1>9. \A m \in 1 .. header.headerLength - 1 : processRemainingLength(SubSeq(c, 2, m)).status = "MQTTNeedMoreBytes"
  <2>1. header.headerLength - 1 = size
    BY <1>4, <1>6
  <2>2. \A m \in 1..size : processRemainingLength(SubSeq(c, 2, m)).status = "MQTTNeedMoreBytes"
    BY <1>1, <1>2, PartsNeedMore
  <2> QED BY <2>1, <2>2
<1>10. HeaderRight(c, type, n)
  BY <1>2, <1>3, <1>5, <1>7, <1>8, <1>9 DEF HeaderRight
<1> QED BY <1>1, <1>10

Makes(n, d1, d2, d3, d4) == n = d1 + d2 * 128 + d3 * 16384 + d4 * 2097152
AreDigits(n, d1, d2, d3, d4) ==
  /\ n \in Nat /\ n <= 268435455
  /\ (n \div 1) % 128 = d1 /\ (n \div 128) % 128 = d2
  /\ (n \div 16384) % 128 = d3 /\ (n \div 2097152) % 128 = d4
\* The digits that m bytes hold are those of the length they make.
LEMMA DigitsOf ==
  ASSUME NEW d1 \in Nat, NEW d2 \in Nat, NEW d3 \in Nat, NEW d4 \in Nat,
         d1 < 128, d2 < 128, d3 < 128, d4 < 128,
         NEW n, Makes(n, d1, d2, d3, d4)
  PROVE  AreDigits(n, d1, d2, d3, d4)
<1>1. n \in Nat /\ n = d1 + d2 * 128 + d3 * 16384 + d4 * 2097152
  BY SMT DEF Makes
<1>2. n <= 268435455
  BY SMT, <1>1
<1>3. n \div 128 = d2 + d3 * 128 + d4 * 16384
  BY SMT, <1>1
<1>4. n \div 16384 = d3 + d4 * 128
  BY SMT, <1>1
<1>5. n \div 2097152 = d4
  BY SMT, <1>1
<1>6. n % 128 = d1 /\ n \div 1 = n
  BY SMT, <1>1
<1>7. (d2 + d3 * 128 + d4 * 16384) % 128 = d2
  BY SMT
<1>8. (d3 + d4 * 128) % 128 = d3 /\ d4 % 128 = d4
  BY SMT
<1>9. AreDigits(n, d1, d2, d3, d4)
  BY SMT, <1>1, <1>2, <1>3, <1>4, <1>5, <1>6, <1>7, <1>8 DEF AreDigits
<1> QED BY <1>9

\* What m bytes, all but the last with the high bit, stand for is encoded as
\* those bytes, if it needs as many.
LEMMA ReadIsEncoded ==
  ASSUME NEW bytes \in Seq(Octet), NEW m \in 1..4, m <= Len(bytes),
         \A i \in 1 .. m - 1 : bytes[i] >= 128, bytes[m] < 128,
         m = remainingLengthEncodedSize(LengthOf(bytes, m))
  PROVE  LengthOf(bytes, m) \in Length /\ encodeRemainingLength(LengthOf(bytes, m)) = SubSeq(bytes, 1, m)
<1>1. PICK n : n = LengthOf(bytes, m)
  OBVIOUS
<1> DEFINE d(i) == IF i <= m THEN bytes[i] % 128 ELSE 0
<1>2. \A i \in 1..m : bytes[i] \in Nat /\ bytes[i] <= 255
  <2>1. \A i \in 1..m : i \in 1..Len(bytes)
    BY ByteFacts
  <2> QED BY <2>1, ByteFacts
<1>3. \A i \in 1..4 : d(i) \in Nat /\ d(i) < 128
  <2>1. \A i \in 1..m : bytes[i] % 128 \in Nat /\ bytes[i] % 128 < 128
    BY <1>2
  <2> QED BY <2>1
<1>4. n = d(1) + d(2) * 128 + d(3) * 16384 + d(4) * 2097152
  <2>1. n = (bytes[1] % 128) + (IF m > 1 THEN (bytes[2] % 128) * 128 ELSE 0)
                                + (IF m > 2 THEN (bytes[3] % 128) * 16384 ELSE 0)
                                + (IF m > 3 THEN (bytes[4] % 128) * 2097152 ELSE 0)
    BY <1>1, LengthOfIs
  <2>2. /\ bytes[1] % 128 = d(1)
        /\ (IF m > 1 THEN (bytes[2] % 128) * 128 ELSE 0) = d(2) * 128
        /\ (IF m > 2 THEN (bytes[3] % 128) * 16384 ELSE 0) = d(3) * 16384
        /\ (IF m > 3 THEN (bytes[4] % 128) * 2097152 ELSE 0) = d(4) * 2097152
    BY SMT
  <2> HIDE DEF d
  <2> QED BY <2>1, <2>2
<1> HIDE DEF d
<1>5. /\ n \in Nat /\ n <= 268435455
      /\ (n \div 1) % 128 = d(1) /\ (n \div 128) % 128 = d(2)
      /\ (n \div 16384) % 128 = d(3) /\ (n \div 2097152) % 128 = d(4)
  <2>1. PICK d1 \in Nat : d1 = d(1) /\ d1 < 128
    BY <1>3
  <2>2. PICK d2 \in Nat : d2 = d(2) /\ d2 < 128
    BY <1>3
  <2>3. PICK d3 \in Nat : d3 = d(3) /\ d3 < 128
    BY <1>3
  <2>4. PICK d4 \in Nat : d4 = d(4) /\ d4 < 128
    BY <1>3
  <2>5. Makes(n, d1, d2, d3, d4)
    BY <1>4, <2>1, <2>2, <2>3, <2>4 DEF Makes
  <2>6. AreDigits(n, d1, d2, d3, d4)
    BY <2>1, <2>2, <2>3, <2>4, <2>5, DigitsOf
  <2>7. AreDigits(n, d(1), d(2), d(3), d(4))
    BY <2>1, <2>2, <2>3, <2>4, <2>6
  <2> QED BY SMT, <2>7 DEF AreDigits
<1>6. n \in Length
  BY <1>5, LengthIs
<1>7. \A i \in 1..m : bytes[i] = EncodedDigit(n, i, m)
  <2>1. \A i \in 1..m : (n \div Weight[i]) % 128 = bytes[i] % 128
    <3>1. Weight[1] = 1 /\ Weight[2] = 128 /\ Weight[3] = 16384 /\ Weight[4] = 2097152
      BY DEF Weight
    <3>2. \A i \in 1..m : d(i) = bytes[i] % 128
      BY DEF d
    <3>3. \A i \in 1..m : i = 1 \/ i = 2 \/ i = 3 \/ i = 4
      OBVIOUS
    <3>4. ASSUME NEW i \in 1..m PROVE (n \div Weight[i]) % 128 = d(i)
      <4>1. CASE i = 1
        <5>1. Weight[i] = 1 /\ d(i) = d(1)
          BY <3>1, <4>1
        <5>2. PICK k \in Nat : k = n /\ (k \div 1) % 128 = d(1)
          BY <1>5
        <5>3. PICK w \in Nat : w = Weight[i] /\ w = 1
          BY <5>1
        <5>4. (k \div w) % 128 = d(1)
          BY <5>2, <5>3
        <5> QED BY <5>1, <5>2, <5>3, <5>4
      <4>2. CASE i = 2
        <5>1. Weight[i] = 128 /\ d(i) = d(2)
          BY <3>1, <4>2
        <5>2. PICK k \in Nat : k = n /\ (k \div 128) % 128 = d(2)
          BY <1>5
        <5>3. PICK w \in Nat : w = Weight[i] /\ w = 128
          BY <5>1
        <5>4. (k \div w) % 128 = d(2)
          BY <5>2, <5>3
        <5> QED BY <5>1, <5>2, <5>3, <5>4
      <4>3. CASE i = 3
        <5>1. Weight[i] = 16384 /\ d(i) = d(3)
          BY <3>1, <4>3
        <5>2. PICK k \in Nat : k = n /\ (k \div 16384) % 128 = d(3)
          BY <1>5
        <5>3. PICK w \in Nat : w = Weight[i] /\ w = 16384
          BY <5>1
        <5>4. (k \div w) % 128 = d(3)
          BY <5>2, <5>3
        <5> QED BY <5>1, <5>2, <5>3, <5>4
      <4>4. CASE i = 4
        <5>1. Weight[i] = 2097152 /\ d(i) = d(4)
          BY <3>1, <4>4
        <5>2. PICK k \in Nat : k = n /\ (k \div 2097152) % 128 = d(4)
          BY <1>5
        <5>3. PICK w \in Nat : w = Weight[i] /\ w = 2097152
          BY <5>1
        <5>4. (k \div w) % 128 = d(4)
          BY <5>2, <5>3
        <5> QED BY <5>1, <5>2, <5>3, <5>4
      <4> QED BY <3>3, <4>1, <4>2, <4>3, <4>4
    <3> QED BY <3>2, <3>4
  <2>2. \A i \in 1..m : i < m => bytes[i] = (bytes[i] % 128) + 128
    <3>1. \A i \in 1..m : i < m => bytes[i] >= 128
      OBVIOUS
    <3> QED BY <1>2, <3>1
  <2>3. bytes[m] = bytes[m] % 128
    <3>1. m \in 1..m
      OBVIOUS
    <3> QED BY <1>2, <3>1
  <2>4. \A i \in 1..m : i = m \/ i < m
    OBVIOUS
  <2>5. \A i \in 1..m : bytes[i] % 128 \in Nat
    BY <1>2
  <2>6. \A i \in 1..m : bytes[i] = (bytes[i] % 128) + (IF i < m THEN 128 ELSE 0)
    BY <2>2, <2>3, <2>4, <2>5
  <2>7. \A i \in 1..m : bytes[i] = ((n \div Weight[i]) % 128) + (IF i < m THEN 128 ELSE 0)
    BY <2>1, <2>6
  <2> QED BY <2>7 DEF EncodedDigit
<1>8. PICK e \in Seq(Octet) : e = encodeRemainingLength(n)
  BY <1>6, EncodedFacts
<1>9. Len(e) = m /\ \A i \in 1..m : e[i] = EncodedDigit(n, i, m)
  BY <1>1, <1>6, <1>8, EncodedFacts
<1>10. \A i \in 1..Len(e) : bytes[0 + i] = e[i]
  BY <1>7, <1>9
<1>11. SubSeq(bytes, 0 + 1, 0 + Len(e)) = e
  <2>1. 0 \in Nat /\ 0 + Len(e) <= Len(bytes)
    BY <1>9
  <2> QED BY <1>10, <2>1, SubSeqIs
<1>12. 0 + 1 = 1 /\ 0 + Len(e) = m
  BY <1>9
<1> QED BY <1>1, <1>6, <1>8, <1>11, <1>12

\* No bytes are read as a length but the encoding of what they are read as.
LEMMA LengthsAreRight ==
  ASSUME NEW bytes \in Seq(Octet)
  PROVE  LengthRight(bytes)
<1>1. PICK n \in 0..4 : More(bytes, n)
  BY MoreExists
<1>2. PICK length : length = LengthOf(bytes, n + 1)
  OBVIOUS
<1>3. PICK size : size = processRemainingLength(bytes)
  OBVIOUS
<1>4. PICK other : other = getRemainingLength(bytes)
  OBVIOUS
<1>5. size = IF n = 4 THEN BadResponse
             ELSE IF n = Len(bytes) THEN [status |-> "MQTTNeedMoreBytes"]
             ELSE IF n + 1 # remainingLengthEncodedSize(length) THEN BadResponse
             ELSE Decoded(length, n + 2)
  <2>1. DecodeLength(bytes, "MQTTNeedMoreBytes") =
             IF n = 4 THEN BadResponse
             ELSE IF n = Len(bytes) THEN [status |-> "MQTTNeedMoreBytes"]
             ELSE IF n + 1 # remainingLengthEncodedSize(length) THEN BadResponse
             ELSE Decoded(length, n + 2)
    BY <1>1, <1>2, DecodeIs
  <2> QED BY <1>3, <2>1 DEF processRemainingLength
<1>6. other = IF n = 4 THEN BadResponse
             ELSE IF n = Len(bytes) THEN [status |-> "MQTTBadResponse"]
             ELSE IF n + 1 # remainingLengthEncodedSize(length) THEN BadResponse
             ELSE Decoded(length, n + 2)
  <2>1. DecodeLength(bytes, "MQTTBadResponse") =
             IF n = 4 THEN BadResponse
             ELSE IF n = Len(bytes) THEN [status |-> "MQTTBadResponse"]
             ELSE IF n + 1 # remainingLengthEncodedSize(length) THEN BadResponse
             ELSE Decoded(length, n + 2)
    BY <1>1, <1>2, DecodeIs
  <2> QED BY <1>4, <2>1 DEF getRemainingLength
<1>7. /\ BadResponse.status = "MQTTBadResponse" /\ BadResponse = [status |-> "MQTTBadResponse"]
      /\ [status |-> "MQTTNeedMoreBytes"].status = "MQTTNeedMoreBytes"
      /\ Decoded(length, n + 2).status = "MQTTSuccess"
  BY DecodedFields DEF BadResponse
<1>8. ASSUME size.status = "MQTTSuccess"
      PROVE  encodeRemainingLength(size.remainingLength) = SubSeq(bytes, 1, size.headerLength - 1) /\ other = size
  <2>1. n # 4 /\ n # Len(bytes) /\ n + 1 = remainingLengthEncodedSize(length) /\ size = Decoded(length, n + 2)
    BY <1>5, <1>7, <1>8
  <2>2. other = size
    BY <1>6, <2>1
  <2>3. size.remainingLength = length /\ size.headerLength = n + 2
    BY <2>1, DecodedFields
  <2>4. PICK m \in 1..4 : m = n + 1
    BY <2>1
  <2>5. m <= Len(bytes) /\ (\A i \in 1 .. m - 1 : bytes[i] >= 128) /\ bytes[m] < 128
    <3>1. n <= Len(bytes) /\ (\A i \in 1..n : bytes[i] >= 128) /\ bytes[n + 1] < 128 /\ Len(bytes) \in Nat
      BY <1>1, <2>1, ByteFacts DEF More
    <3>2. m - 1 = n /\ m <= Len(bytes)
      BY <2>1, <2>4, <3>1
    <3> QED BY <2>4, <3>1, <3>2
  <2>6. m = remainingLengthEncodedSize(LengthOf(bytes, m))
    BY <1>2, <2>1, <2>4
  <2>7. encodeRemainingLength(LengthOf(bytes, m)) = SubSeq(bytes, 1, m)
    BY <2>5, <2>6, ReadIsEncoded
  <2>8. n + 2 - 1 = m
    BY <2>4
  <2> QED BY <1>2, <2>2, <2>3, <2>4, <2>7, <2>8
<1>9. size.status = "MQTTNeedMoreBytes" <=> n # 4 /\ n = Len(bytes)
  BY <1>5, <1>7
<1>10. n # 4 /\ n = Len(bytes) <=> Len(bytes) < 4 /\ \A i \in DOMAIN bytes : bytes[i] >= 128
  <2>1. Len(bytes) \in Nat
    OBVIOUS
  <2>4. DOMAIN bytes = 1..Len(bytes)
    OBVIOUS
  <2>2. n # 4 /\ n = Len(bytes) => Len(bytes) < 4 /\ \A i \in 1..Len(bytes) : bytes[i] >= 128
    <3>1. \A i \in 1..n : bytes[i] >= 128
      BY <1>1 DEF More
    <3> QED BY <3>1
  <2>3. ASSUME Len(bytes) < 4, \A i \in 1..Len(bytes) : bytes[i] >= 128 PROVE n # 4 /\ n = Len(bytes)
    <3>1. n <= Len(bytes) /\ (n = 4 \/ n = Len(bytes) \/ bytes[n + 1] < 128)
      BY <1>1 DEF More
    <3>2. n # 4
      BY <2>1, <2>3, <3>1
    <3>3. n # Len(bytes) => n + 1 \in 1..Len(bytes)
      BY <2>1, <3>1
    <3>4. n + 1 \in 1..Len(bytes) => bytes[n + 1] \in Nat /\ bytes[n + 1] >= 128
      BY <2>3, ByteFacts
    <3> QED BY <3>1, <3>2, <3>3, <3>4
  <2> QED BY <2>2, <2>3, <2>4
<1>11. size.status # "MQTTSuccess" => other = BadResponse
  BY <1>5, <1>6, <1>7
<1> QED BY <1>3, <1>4, <1>8, <1>9, <1>10, <1>11 DEF LengthRight

LEMMA EncodedSizeIs == \A n : remainingLengthEncodedSize(n) \in Nat /\ remainingLengthEncodedSize(n) \in 1..4
BY DEF remainingLengthEncodedSize

\* Sizes at both ends of what four bytes can announce.
LEMMA SizesAreRight ==
  ASSUME NEW topic \in Word, NEW payload \in Nat, NEW qos \in 0..2
  PROVE  SizeRight(topic, payload, qos)
<1>1. topic \in Nat /\ topic <= 65535
  BY WordIs
<1>2. PICK header \in Nat : header = topic + 2 + IF qos > 0 THEN 2 ELSE 0
  BY <1>1
<1>3. PICK remaining \in Nat : remaining = header + payload
  OBVIOUS
<1>4. PICK s \in 1..4 : s = remainingLengthEncodedSize(remaining)
  BY EncodedSizeIs
<1>5. MQTT_MAX_REMAINING_LENGTH = 268435455
  BY DEF MQTT_MAX_REMAINING_LENGTH
<1>6. PICK limit : limit = 268435455 - header - 1
  OBVIOUS
<1>7. (payload > limit \/ payload > limit - s) <=> remaining + 1 + s > 268435455
  BY SMT, <1>2, <1>3, <1>4, <1>6
<1>8. remaining + 1 + s > 268435455 <=> remaining + 5 > 268435455
  <2>1. remaining >= 2097152 => s = 4
    BY SMT, <1>3, <1>4 DEF remainingLengthEncodedSize
  <2> QED BY SMT, <1>3, <1>4, <2>1
<1>9. calculatePublishPacketSize(topic, payload, qos) = IF remaining + 5 > 268435455 THEN Refused ELSE Sizes(remaining)
  <2>1. calculatePublishPacketSize(topic, payload, qos) =
          IF payload > limit \/ payload > limit - s THEN Refused ELSE Sizes(remaining)
    BY <1>2, <1>3, <1>4, <1>5, <1>6 DEF calculatePublishPacketSize
  <2> QED BY <1>7, <1>8, <2>1
<1>10. PICK size : size = MQTT_GetPublishPacketSize(topic, payload, qos)
  OBVIOUS
<1>11. size = IF topic = 0 \/ remaining + 5 > 268435455 THEN Refused ELSE Sizes(remaining)
  BY <1>9, <1>10 DEF MQTT_GetPublishPacketSize
<1>12. remaining = topic + 2 + payload + IF qos > 0 THEN 2 ELSE 0
  BY <1>1, <1>2, <1>3
<1>13. ASSUME ~(remaining + 5 > 268435455)
       PROVE  /\ Len(encodeRemainingLength(remaining)) = remainingLengthEncodedSize(remaining)
              /\ processRemainingLength(encodeRemainingLength(remaining)).remainingLength = remaining
  <2>1. remaining \in Nat /\ remaining <= 268435455
    BY SMT, <1>3, <1>13
  <2>2. remaining \in Length
    BY <2>1, LengthIs
  <2>3. PICK e \in Seq(Octet) : e = encodeRemainingLength(remaining)
    BY <2>2, EncodedFacts
  <2>4. Len(e) = remainingLengthEncodedSize(remaining)
    BY <2>2, <2>3, EncodedFacts
  <2>5. <<>> \in Seq(Octet) /\ e \o <<>> = e
    BY EmptySeq, ConcatEmptySeq
  <2>6. DecodeLength(e \o <<>>, "MQTTNeedMoreBytes") = Decoded(remaining, 1 + remainingLengthEncodedSize(remaining))
    BY <2>2, <2>3, <2>5, DecodeEncoded
  <2>7. processRemainingLength(e).remainingLength = remaining
    BY <2>5, <2>6, DecodedFields DEF processRemainingLength
  <2> QED BY <2>3, <2>4, <2>7
<1>14. SizeRight(topic, payload, qos)
  BY <1>5, <1>10, <1>11, <1>12, <1>13 DEF SizeRight
<1> QED BY <1>14

LEMMA PowerValues == /\ 2^0 = 1 /\ 2^1 = 2 /\ 2^2 = 4 /\ 2^3 = 8
                     /\ 2^4 = 16 /\ 2^5 = 32 /\ 2^6 = 64 /\ 2^7 = 128
<1>1. /\ 2^1 = 2 * 2^0 /\ 2^2 = 2 * 2^1 /\ 2^3 = 2 * 2^2 /\ 2^4 = 2 * 2^3
      /\ 2^5 = 2 * 2^4 /\ 2^6 = 2 * 2^5 /\ 2^7 = 2 * 2^6
  <2>1. \A n \in Nat : 2^(n + 1) = 2 * 2^n
    BY PowerFacts
  <2>2. /\ 2^(0 + 1) = 2 * 2^0 /\ 2^(1 + 1) = 2 * 2^1 /\ 2^(2 + 1) = 2 * 2^2 /\ 2^(3 + 1) = 2 * 2^3
        /\ 2^(4 + 1) = 2 * 2^4 /\ 2^(5 + 1) = 2 * 2^5 /\ 2^(6 + 1) = 2 * 2^6
    BY <2>1
  <2> QED BY <2>2
<1>2. 2^0 = 1
  BY PowerFacts
<1> QED BY <1>1, <1>2

-----------------------------------------------------------------------------
(* PUBLISH *)

LEMMA BitIs ==
  ASSUME NEW x
  PROVE  /\ Bit(0, x) = IF x THEN 1 ELSE 0
         /\ Bit(1, x) = IF x THEN 2 ELSE 0
         /\ Bit(2, x) = IF x THEN 4 ELSE 0
         /\ Bit(3, x) = IF x THEN 8 ELSE 0
         /\ Bit(4, x) = IF x THEN 16 ELSE 0
         /\ Bit(5, x) = IF x THEN 32 ELSE 0
         /\ Bit(6, x) = IF x THEN 64 ELSE 0
         /\ Bit(7, x) = IF x THEN 128 ELSE 0
BY PowerValues DEF Bit
LEMMA CheckBitIs ==
  ASSUME NEW x
  PROVE  /\ CheckBit(x, 0) = ((x \div 1) % 2 = 1)
         /\ CheckBit(x, 1) = ((x \div 2) % 2 = 1)
         /\ CheckBit(x, 2) = ((x \div 4) % 2 = 1)
         /\ CheckBit(x, 3) = ((x \div 8) % 2 = 1)
         /\ CheckBit(x, 5) = ((x \div 32) % 2 = 1)
         /\ CheckBit(x, 6) = ((x \div 64) % 2 = 1)
         /\ CheckBit(x, 7) = ((x \div 128) % 2 = 1)
BY PowerValues DEF CheckBit

\* The flags of a PUBLISH, and the way back.
LEMMA FlagsRead ==
  ASSUME NEW q \in 0..2, NEW r \in {0, 1}, NEW d \in {0, 1}
  PROVE  LET x == 48 + (IF q = 1 THEN 2 ELSE 0) + (IF q = 2 THEN 4 ELSE 0) + r + d * 8
         IN /\ x \in Nat /\ x <= 255 /\ x \div 16 = 3 /\ (x \div 2) % 4 = q
            /\ (x \div 1) % 2 = r /\ (x \div 8) % 2 = d
            /\ ~((x \div 2) % 2 = 1 /\ (x \div 4) % 2 = 1)
<1>1. q = 0 \/ q = 1 \/ q = 2
  OBVIOUS
<1>2. CASE q = 0
  BY <1>2
<1>3. CASE q = 1
  BY <1>3
<1>4. CASE q = 2
  BY <1>4
<1> QED BY <1>1, <1>2, <1>3, <1>4

LEMMA FlagsWritten ==
  ASSUME NEW x \in Nat, x \div 16 = 3, ~((x \div 2) % 2 = 1 /\ (x \div 4) % 2 = 1)
  PROVE  LET q == (x \div 2) % 4
         IN /\ q \in 0..2
            /\ x = 48 + (IF q = 1 THEN 2 ELSE 0) + (IF q = 2 THEN 4 ELSE 0)
                      + (IF (x \div 1) % 2 = 1 THEN 1 ELSE 0) + (IF (x \div 8) % 2 = 1 THEN 8 ELSE 0)
<1>1. PICK y \in 0..15 : x = 48 + y
  OBVIOUS
<1>2. (x \div 2) % 4 = (y \div 2) % 4 /\ (x \div 2) % 2 = (y \div 2) % 2 /\ (x \div 4) % 2 = (y \div 4) % 2
  BY <1>1
<1>3. (x \div 1) % 2 = y % 2 /\ (x \div 8) % 2 = y \div 8
  BY <1>1
<1>4. ~((y \div 2) % 2 = 1 /\ (y \div 4) % 2 = 1)
  BY <1>2
<1>5. PICK q : q = (y \div 2) % 4
  OBVIOUS
<1>6. q \in 0..2
  BY <1>4, <1>5
<1>7. y = (IF q = 1 THEN 2 ELSE 0) + (IF q = 2 THEN 4 ELSE 0) + (y % 2) + 8 * (y \div 8)
  BY <1>4, <1>5
<1>8. /\ (y % 2) = IF y % 2 = 1 THEN 1 ELSE 0
      /\ 8 * (y \div 8) = IF y \div 8 = 1 THEN 8 ELSE 0
  OBVIOUS
<1> QED BY <1>1, <1>2, <1>3, <1>5, <1>6, <1>7, <1>8

LEMMA PublishFlagsAre ==
  ASSUME NEW p
  PROVE  PublishFlags(p) = 48 + (IF p.qos = 1 THEN 2 ELSE 0) + (IF p.qos = 2 THEN 4 ELSE 0)
                              + (IF p.retain THEN 1 ELSE 0) + (IF p.dup THEN 8 ELSE 0)
<1>1. Type.PUBLISH = 48
  BY DEF Type
<1> QED BY <1>1, BitIs DEF PublishFlags

LEMMA PublishFlagsRead ==
  ASSUME NEW p, p.qos \in 0..2, p.retain \in BOOLEAN, p.dup \in BOOLEAN
  PROVE  LET x == PublishFlags(p)
         IN /\ x \in Octet /\ x \div 16 = 3 /\ (x \div 2) % 4 = p.qos /\ processPublishFlags(x)
            /\ CheckBit(x, 0) = p.retain /\ CheckBit(x, 3) = p.dup
<1>1. PICK q \in 0..2 : q = p.qos
  OBVIOUS
<1>2. PICK r \in {0, 1} : r = IF p.retain THEN 1 ELSE 0
  OBVIOUS
<1>3. PICK d \in {0, 1} : d = IF p.dup THEN 1 ELSE 0
  OBVIOUS
<1>4. PICK x : x = PublishFlags(p)
  OBVIOUS
<1>5. x = 48 + (IF q = 1 THEN 2 ELSE 0) + (IF q = 2 THEN 4 ELSE 0) + r + d * 8
  BY <1>1, <1>2, <1>3, <1>4, PublishFlagsAre
<1>6. /\ x \in Nat /\ x <= 255 /\ x \div 16 = 3 /\ (x \div 2) % 4 = q
      /\ (x \div 1) % 2 = r /\ (x \div 8) % 2 = d
      /\ ~((x \div 2) % 2 = 1 /\ (x \div 4) % 2 = 1)
  BY <1>5, FlagsRead
<1>7. x \in Octet
  BY <1>6, OctetIs
<1>8. processPublishFlags(x)
  BY <1>6, CheckBitIs DEF processPublishFlags
<1>9. CheckBit(x, 0) = (r = 1) /\ CheckBit(x, 3) = (d = 1)
  BY <1>6, CheckBitIs
<1>10. (r = 1) = p.retain /\ (d = 1) = p.dup
  BY <1>2, <1>3
<1> QED BY <1>1, <1>4, <1>6, <1>7, <1>8, <1>9, <1>10

\* Three and four parts one after the other, grouped from either side.
SameThree(a, b, c) == (a \o b) \o c = a \o (b \o c)
SameFour(a, b, c, d) == ((a \o b) \o c) \o d = a \o (b \o (c \o d))
LEMMA JoinThree ==
  ASSUME NEW S, NEW a \in Seq(S), NEW b \in Seq(S), NEW c \in Seq(S)
  PROVE  SameThree(a, b, c)
BY ConcatAssociative DEF SameThree
LEMMA LenThree ==
  ASSUME NEW S, NEW b \in Seq(S), NEW c \in Seq(S), NEW d \in Seq(S), NEW s, s = b \o (c \o d)
  PROVE  s \in Seq(S) /\ Len(s) = Len(b) + Len(c) + Len(d)
<1>1. PICK t : t = c \o d
  OBVIOUS
<1>2. t \in Seq(S)
  BY <1>1, ConcatProperties
<1>8. b \o t \in Seq(S) /\ Len(b \o t) = Len(b) + Len(t)
  BY <1>2, ConcatProperties
<1>9. Len(t) = Len(c) + Len(d)
  BY <1>1, ConcatProperties
<1>10. Len(b) \in Nat /\ Len(c) \in Nat /\ Len(d) \in Nat
  OBVIOUS
<1>11. Len(b \o t) = Len(b) + Len(c) + Len(d)
  BY <1>8, <1>9, <1>10
<1> QED BY <1>1, <1>8, <1>11
LEMMA JoinFour ==
  ASSUME NEW S, NEW a \in Seq(S), NEW b \in Seq(S), NEW c \in Seq(S), NEW d \in Seq(S)
  PROVE  SameFour(a, b, c, d)
<1>1. PICK t : t = c \o d
  OBVIOUS
<1>2. t \in Seq(S)
  BY <1>1, ConcatProperties
<1>4. PICK u : u = a \o b
  OBVIOUS
<1>5. u \in Seq(S)
  BY <1>4, ConcatProperties
<1>6. (u \o c) \o d = u \o t
  BY <1>1, <1>5, ConcatAssociative
<1>7. u \o t = a \o (b \o t)
  BY <1>2, <1>4, ConcatAssociative
<1> QED BY <1>1, <1>4, <1>6, <1>7 DEF SameFour

LEMMA TextIs == \A s : s \in Text <=> s \in Seq(Octet) /\ Len(s) \in Word
<1>1. \A s : s \in Text <=> s \in Seq(Octet) /\ Len(s) <= 65535
  BY DEF Text, UINT16_MAX
<1>2. \A s \in Seq(Octet) : Len(s) \in Nat
  OBVIOUS
<1> QED BY <1>1, <1>2, WordIs

LEMMA EncodedString ==
  ASSUME NEW s \in Text
  PROVE  encodeString(s) \in Seq(Octet) /\ Len(encodeString(s)) = Len(s) + 2
<1>1. s \in Seq(Octet) /\ Len(s) \in Word
  BY TextIs
<1>2. PICK u : u = UINT16(Len(s))
  OBVIOUS
<1>3. u \in Seq(Octet) /\ Len(u) = 2
  BY <1>1, <1>2, UINT16Facts
<1>4. u \o s \in Seq(Octet) /\ Len(u \o s) = Len(u) + Len(s)
  BY <1>1, <1>3, ConcatProperties
<1>5. Len(s) \in Nat
  BY <1>1, WordIs
<1> QED BY <1>2, <1>3, <1>4, <1>5 DEF encodeString

LEMMA Serialized ==
  ASSUME NEW bytes, NEW size \in Nat, NEW buffer \in Nat
  PROVE  /\ size <= buffer => Serialize(bytes, size, buffer).bytes = bytes
         /\ size > buffer => Serialize(bytes, size, buffer) = [status |-> "MQTTNoMemory"]
<1>1. size <= buffer => ~(size > buffer)
  OBVIOUS
<1>2. Serialize(bytes, size, buffer) = IF size > buffer THEN [status |-> "MQTTNoMemory"] ELSE [status |-> "MQTTSuccess", bytes |-> bytes]
  BY DEF Serialize
<1>3. size > buffer => Serialize(bytes, size, buffer) = [status |-> "MQTTNoMemory"]
  BY <1>2
<1>4. ~(size > buffer) => Serialize(bytes, size, buffer).bytes = bytes
  <2>1. [status |-> "MQTTSuccess", bytes |-> bytes].bytes = bytes
    OBVIOUS
  <2> QED BY <1>2, <2>1
<1> QED BY <1>1, <1>3, <1>4

LEMMA SizesFacts ==
  ASSUME NEW n \in Nat
  PROVE  /\ Sizes(n).status = "MQTTSuccess" /\ Sizes(n).remaining = n /\ Sizes(n) # Refused
         /\ Sizes(n).packet = 1 + remainingLengthEncodedSize(n) + n /\ Sizes(n).packet \in Nat
         /\ Sizes(n).packet - 1 \in Nat
<1>1. PICK m : m = n + 1 + remainingLengthEncodedSize(n)
  OBVIOUS
<1>2. Sizes(n) = [status |-> "MQTTSuccess", remaining |-> n, packet |-> m]
  BY <1>1 DEF Sizes
<1>3. Sizes(n).status = "MQTTSuccess" /\ Sizes(n).remaining = n /\ Sizes(n).packet = m
  BY <1>2
<1>4. Refused.status = "MQTTBadParameter"
  BY DEF Refused
<1>5. m = 1 + remainingLengthEncodedSize(n) + n /\ m \in Nat /\ m - 1 \in Nat
  BY <1>1, EncodedSizeIs
<1> QED BY <1>3, <1>4, <1>5

LEMMA PacketIdFacts ==
  ASSUME NEW p, NEW id \in Word
  PROVE  PacketId(p, id) \in Seq(Octet) /\ Len(PacketId(p, id)) = IF p.qos > 0 THEN 2 ELSE 0
<1>1. UINT16(id) \in Seq(Octet) /\ Len(UINT16(id)) = 2
  BY UINT16Facts
<1>2. <<>> \in Seq(Octet) /\ Len(<<>>) = 0
  BY EmptySeq
<1>3. CASE p.qos > 0
  <2>1. PacketId(p, id) = UINT16(id)
    BY <1>3 DEF PacketId
  <2> QED BY <1>1, <1>3, <2>1
<1>4. CASE ~(p.qos > 0)
  <2>1. PacketId(p, id) = <<>>
    BY <1>4 DEF PacketId
  <2> QED BY <1>2, <1>4, <2>1
<1> QED BY <1>3, <1>4

\* The bytes of a PUBLISH, and what its reader makes of them.
PublishBody(p, id) == encodeString(p.topic) \o (PacketId(p, id) \o p.payload)
LEMMA PublishBytes ==
  ASSUME NEW p \in PublishInfo, NEW id \in Word, NEW n \in Length
  PROVE  /\ encodeString(p.topic) \in Seq(Octet) /\ PacketId(p, id) \in Seq(Octet) /\ p.payload \in Seq(Octet)
         /\ serializePublishCommon(p, n, id, TRUE) = FixedHeader(PublishFlags(p), n) \o PublishBody(p, id)
         /\ PublishBody(p, id) \in Seq(Octet)
         /\ Len(PublishBody(p, id)) = Len(p.topic) + 2 + Len(p.payload) + IF p.qos > 0 THEN 2 ELSE 0
<1>1. p.topic \in Text /\ p.payload \in Seq(Octet) /\ p.qos \in 0..2 /\ p.retain \in BOOLEAN /\ p.dup \in BOOLEAN
  BY DEF PublishInfo
<1>2. PICK F \in Seq(Octet) : F = FixedHeader(PublishFlags(p), n)
  <2>1. PublishFlags(p) \in Octet
    BY <1>1, PublishFlagsRead
  <2> QED BY <2>1, FixedHeaderFacts
<1>3. PICK E \in Seq(Octet) : E = encodeString(p.topic) /\ Len(E) = Len(p.topic) + 2
  BY <1>1, EncodedString
<1>4. PICK I \in Seq(Octet) : I = PacketId(p, id) /\ Len(I) = IF p.qos > 0 THEN 2 ELSE 0
  BY PacketIdFacts
<1>5. PICK P \in Seq(Octet) : P = p.payload
  BY <1>1
<1>6. serializePublishCommon(p, n, id, TRUE) = ((F \o E) \o I) \o P
  BY <1>2, <1>3, <1>4, <1>5 DEF serializePublishCommon
<1>7. PublishBody(p, id) = E \o (I \o P)
  BY <1>3, <1>4, <1>5 DEF PublishBody
<1>8. SameFour(F, E, I, P)
  BY JoinFour
<1>10. PublishBody(p, id) \in Seq(Octet) /\ Len(PublishBody(p, id)) = Len(E) + Len(I) + Len(P)
  BY <1>7, LenThree
<1>9. Len(E) + Len(I) + Len(P) = Len(p.topic) + 2 + Len(p.payload) + IF p.qos > 0 THEN 2 ELSE 0
  <2>1. Len(p.topic) \in Nat
    BY <1>1, TextIs, WordIs
  <2>2. Len(P) \in Nat
    OBVIOUS
  <2>3. PICK i \in Nat : i = IF p.qos > 0 THEN 2 ELSE 0
    OBVIOUS
  <2>4. PICK lt \in Nat : lt = Len(p.topic)
    BY <2>1
  <2>5. PICK lp \in Nat : lp = Len(p.payload) /\ lp = Len(P)
    BY <1>5, <2>2
  <2>6. Len(E) = lt + 2 /\ Len(I) = i
    BY <1>3, <1>4, <2>3, <2>4
  <2>7. (lt + 2) + i + lp = lt + 2 + lp + i
    OBVIOUS
  <2> QED BY <2>3, <2>4, <2>5, <2>6, <2>7
<1>11. serializePublishCommon(p, n, id, TRUE) = F \o PublishBody(p, id)
  BY <1>6, <1>7, <1>8 DEF SameFour
<1> QED BY <1>2, <1>3, <1>4, <1>5, <1>9, <1>10, <1>11

LEMMA PublishReadBack ==
  ASSUME NEW p \in PublishInfo, NEW id \in Word, p.topic # <<>>, p.qos # 0 => id # 0
  PROVE  MQTT_DeserializePublish(PublishFlags(p), PublishBody(p, id)) =
           [status |-> "MQTTSuccess", packetId |-> IF p.qos = 0 THEN 0 ELSE id, publish |-> p]
<1>1. p.topic \in Text /\ p.payload \in Seq(Octet) /\ p.qos \in 0..2 /\ p.retain \in BOOLEAN /\ p.dup \in BOOLEAN
  BY DEF PublishInfo
<1>2. PICK type : type = PublishFlags(p)
  OBVIOUS
<1>3. /\ type \div 16 = 3 /\ (type \div 2) % 4 = p.qos /\ processPublishFlags(type)
      /\ CheckBit(type, 0) = p.retain /\ CheckBit(type, 3) = p.dup
  BY <1>1, <1>2, PublishFlagsRead
<1>4. PICK T \in Seq(Octet) : T = p.topic /\ Len(T) \in Word
  BY <1>1, TextIs
<1>5. PICK P \in Seq(Octet) : P = p.payload
  BY <1>1
<1>6. PICK I \in Seq(Octet) : I = PacketId(p, id)
  BY PacketIdFacts
<1>7. PICK U \in Seq(Octet) : U = UINT16(Len(T)) /\ Len(U) = 2
  BY <1>4, UINT16Facts
<1>8. PICK R \in Seq(Octet) : R = I \o P
  BY ConcatProperties
<1>9. PICK body \in Seq(Octet) : body = PublishBody(p, id) /\ Len(body) = Len(T) + 2 + Len(P) + IF p.qos > 0 THEN 2 ELSE 0
  <2>1. 0 \in Nat /\ 0 <= 268435455
    OBVIOUS
  <2>2. 0 \in Length
    BY <2>1, LengthIs
  <2> QED BY <1>4, <1>5, <2>2, PublishBytes
<1>10. body = (U \o T) \o R /\ body = U \o (T \o R)
  <2>1. body = (U \o T) \o R
    BY <1>4, <1>5, <1>6, <1>7, <1>8, <1>9 DEF PublishBody, encodeString
  <2>2. SameThree(U, T, R)
    BY JoinThree
  <2> QED BY <2>1, <2>2 DEF SameThree
<1>11. Len(T) \in Nat /\ Len(T) # 0 /\ Len(P) \in Nat
  BY <1>4, EmptySeq
<1>12. UINT16_DECODE(body) = Len(T)
  <2>1. T \o R \in Seq(Octet)
    BY ConcatProperties
  <2> QED BY <1>4, <1>7, <1>10, <2>1, Decode16
<1>13. From(body, Len(T) + 3) = R
  <2>1. U \o T \in Seq(Octet) /\ Len(U \o T) = Len(U) + Len(T)
    BY ConcatProperties
  <2>2. From((U \o T) \o R, Len(U \o T) + 1) = R
    BY <2>1, FromJoined
  <2>3. Len(U \o T) + 1 = Len(T) + 3
    BY <1>7, <1>11, <2>1
  <2> QED BY <1>10, <2>2, <2>3
<1>14. SubSeq(body, 3, Len(T) + 2) = T
  <2>1. PICK tr : tr = T \o R
    OBVIOUS
  <2>2. tr \in Seq(Octet) /\ Len(tr) = Len(T) + Len(R) /\ Len(R) \in Nat
    BY <2>1, ConcatProperties
  <2>3. \A i \in 1..Len(T) : tr[i] = T[i]
    BY <2>1, JoinedAt
  <2>4. tr \in Seq(Octet)
    BY <2>2
  <2>5. \A i \in 1..Len(tr) : body[Len(U) + i] = tr[i]
    BY <1>10, <2>1, <2>4, JoinedAt
  <2>6. Len(body) = Len(U) + Len(tr)
    BY <1>10, <2>1, <2>4, ConcatProperties
  <2>7. \A i \in 1..Len(T) : body[2 + i] = T[i]
    <3>1. \A i \in 1..Len(T) : i \in 1..Len(tr)
      BY <1>11, <2>2
    <3> QED BY <1>7, <2>3, <2>5, <3>1
  <2>8. 2 \in Nat /\ 2 + Len(T) <= Len(body)
    BY <1>7, <1>11, <2>2, <2>6
  <2>9. SubSeq(body, 2 + 1, 2 + Len(T)) = T
    BY <2>7, <2>8, SubSeqIs
  <2>10. 2 + 1 = 3 /\ 2 + Len(T) = Len(T) + 2
    BY <1>11
  <2> QED BY <2>9, <2>10
<1>15. p.qos = 0 => R = P
  <2>1. p.qos = 0 => I = <<>>
    BY <1>6 DEF PacketId
  <2>2. <<>> \o P = P
    BY ConcatEmptySeq
  <2> QED BY <1>8, <2>1, <2>2
<1>16. p.qos > 0 => From(R, 3) = P /\ UINT16_DECODE(R) = id
  <2> SUFFICES ASSUME p.qos > 0 PROVE From(R, 3) = P /\ UINT16_DECODE(R) = id
    OBVIOUS
  <2>1. I = UINT16(id) /\ Len(I) = 2
    BY <1>6, UINT16Facts DEF PacketId
  <2>2. From(I \o P, Len(I) + 1) = P
    BY FromJoined
  <2>3. UINT16_DECODE(UINT16(id) \o P) = id
    BY Decode16
  <2> QED BY <1>8, <2>1, <2>2, <2>3
<1>17. /\ checkPublishRemainingLength(Len(body), p.qos, 3)
       /\ checkPublishRemainingLength(Len(body), p.qos, Len(T) + 2)
  BY <1>1, <1>9, <1>11 DEF checkPublishRemainingLength
<1>18. PICK got : got = [qos |-> p.qos, retain |-> p.retain, dup |-> p.dup, topic |-> T, payload |-> P]
  OBVIOUS
<1>19. got = p
  <2>1. p = [qos |-> p.qos, retain |-> p.retain, dup |-> p.dup, topic |-> p.topic, payload |-> p.payload]
    BY DEF PublishInfo
  <2> QED BY <1>4, <1>5, <1>18, <2>1
<1>20. p.qos > 0 <=> p.qos # 0
  BY <1>1
<1>21. deserializePublish(type, body) =
           [status |-> "MQTTSuccess", packetId |-> IF p.qos = 0 THEN 0 ELSE id, publish |-> got]
  <2>1. CASE p.qos = 0
    <3>1. deserializePublish(type, body) = [status |-> "MQTTSuccess", packetId |-> 0, publish |-> got]
      BY <1>3, <1>12, <1>13, <1>14, <1>15, <1>17, <1>18, <1>20, <2>1 DEF deserializePublish
    <3> QED BY <2>1, <3>1
  <2>2. CASE p.qos # 0
    <3>1. deserializePublish(type, body) = [status |-> "MQTTSuccess", packetId |-> id, publish |-> got]
      BY <1>3, <1>12, <1>13, <1>14, <1>16, <1>17, <1>18, <1>20, <2>2 DEF deserializePublish
    <3> QED BY <2>2, <3>1
  <2> QED BY <2>1, <2>2
<1>22. MQTT_DeserializePublish(type, body) = deserializePublish(type, body)
  BY <1>3 DEF MQTT_DeserializePublish
<1> QED BY <1>2, <1>9, <1>19, <1>21, <1>22

LEMMA SizesIs ==
  ASSUME NEW p \in PublishInfo, MQTT_GetPublishPacketSize(Len(p.topic), Len(p.payload), p.qos).status = "MQTTSuccess"
  PROVE  \E n \in Length : /\ n = Len(p.topic) + 2 + Len(p.payload) + IF p.qos > 0 THEN 2 ELSE 0
                           /\ MQTT_GetPublishPacketSize(Len(p.topic), Len(p.payload), p.qos) = Sizes(n)
                           /\ p.topic # <<>>
<1>1. PICK lt \in Word : lt = Len(p.topic)
  BY TextIs DEF PublishInfo
<1>2. PICK lp \in Nat : lp = Len(p.payload)
  BY DEF PublishInfo
<1>3. PICK q \in 0..2 : q = p.qos
  BY DEF PublishInfo
<1>4. SizeRight(lt, lp, q)
  BY SizesAreRight
<1>5. PICK size : size = MQTT_GetPublishPacketSize(lt, lp, q)
  OBVIOUS
<1>6. size.status = "MQTTSuccess"
  BY <1>1, <1>2, <1>3, <1>5
<1>7. PICK n : n = lt + 2 + lp + IF q > 0 THEN 2 ELSE 0
  OBVIOUS
<1>8. lt \in Nat
  BY WordIs
<1>9. n \in Nat
  BY <1>7, <1>8
<1>10. Refused.status = "MQTTBadParameter"
  BY DEF Refused
<1>11. MQTT_MAX_REMAINING_LENGTH = 268435455
  BY DEF MQTT_MAX_REMAINING_LENGTH
<1>12. IF lt = 0 \/ n + 5 > 268435455 THEN size = Refused ELSE size = Sizes(n)
  BY <1>4, <1>5, <1>7, <1>11 DEF SizeRight
<1>13. lt # 0 /\ ~(n + 5 > 268435455) /\ size = Sizes(n)
  BY <1>6, <1>10, <1>12
<1>14. n <= 268435455
  BY SMT, <1>9, <1>13
<1>15. n \in Length
  BY <1>9, <1>14, LengthIs
<1>16. p.topic # <<>>
  BY <1>1, <1>13, EmptySeq
<1>17. size = Sizes(n)
  BY <1>13
<1>18. n = Len(p.topic) + 2 + Len(p.payload) + IF p.qos > 0 THEN 2 ELSE 0
  BY <1>1, <1>2, <1>3, <1>7
<1>19. MQTT_GetPublishPacketSize(Len(p.topic), Len(p.payload), p.qos) = Sizes(n)
  BY <1>1, <1>2, <1>3, <1>5, <1>17
<1> QED BY <1>15, <1>16, <1>18, <1>19

LEMMA PublishVectors ==
  ASSUME NEW p \in PublishInfo, NEW id \in Word, NEW n \in Length
  PROVE  Concat(sendPublishWithoutCopy(p, MQTT_SerializePublishHeaderWithoutTopic(p, n), id))
           = serializePublishCommon(p, n, id, TRUE)
<1>1. p.topic \in Text /\ p.payload \in Seq(Octet) /\ p.qos \in 0..2 /\ p.retain \in BOOLEAN /\ p.dup \in BOOLEAN
  BY DEF PublishInfo
<1>2. PICK F \in Seq(Octet) : F = FixedHeader(PublishFlags(p), n)
  <2>1. PublishFlags(p) \in Octet
    BY <1>1, PublishFlagsRead
  <2> QED BY <2>1, FixedHeaderFacts
<1>3. PICK T \in Seq(Octet) : T = p.topic /\ Len(T) \in Word
  BY <1>1, TextIs
<1>4. PICK U \in Seq(Octet) : U = UINT16(Len(T))
  BY <1>3, UINT16Facts
<1>5. PICK I \in Seq(Octet) : I = PacketId(p, id)
  BY PacketIdFacts
<1>6. PICK P \in Seq(Octet) : P = p.payload
  BY <1>1
<1>7. PICK H \in Seq(Octet) : H = F \o U
  BY ConcatProperties
<1>8. H = MQTT_SerializePublishHeaderWithoutTopic(p, n)
  BY <1>2, <1>3, <1>4, <1>7 DEF MQTT_SerializePublishHeaderWithoutTopic
<1>9. PICK v1 : v1 = <<H, T>>
  OBVIOUS
<1>10. PICK v2 : v2 = IF p.qos > 0 THEN <<UINT16(id)>> ELSE <<>>
  OBVIOUS
<1>11. PICK v3 : v3 = IF P # <<>> THEN <<P>> ELSE <<>>
  OBVIOUS
<1>12. v1 \in Seq(Seq(Octet)) /\ Concat(v1) = H \o T
  <2>1. v1 \in Seq(Seq(Octet))
    BY <1>9, Single
  <2>2. Concat(v1) = H \o T
    BY <1>9, ConcatTwo
  <2> QED BY <2>1, <2>2
<1>13. v2 \in Seq(Seq(Octet)) /\ Concat(v2) = I
  <2>1. CASE p.qos > 0
    <3>1. v2 = <<I>>
      BY <1>5, <1>10, <2>1 DEF PacketId
    <3>2. <<I>> \in Seq(Seq(Octet))
      BY Single
    <3>3. Concat(<<I>>) = I
      BY ConcatOne
    <3> QED BY <3>1, <3>2, <3>3
  <2>2. CASE ~(p.qos > 0)
    <3>1. v2 = <<>> /\ I = <<>>
      BY <1>5, <1>10, <2>2 DEF PacketId
    <3>2. <<>> \in Seq(Seq(Octet))
      BY EmptySeq
    <3> QED BY <3>1, <3>2, ConcatNone
  <2> QED BY <2>1, <2>2
<1>14. v3 \in Seq(Seq(Octet)) /\ Concat(v3) = P
  <2>1. CASE P # <<>>
    <3>1. v3 = <<P>>
      BY <1>11, <2>1
    <3>2. <<P>> \in Seq(Seq(Octet))
      BY Single
    <3>3. Concat(<<P>>) = P
      BY ConcatOne
    <3> QED BY <3>1, <3>2, <3>3
  <2>2. CASE P = <<>>
    <3>1. v3 = <<>>
      BY <1>11, <2>2
    <3>2. <<>> \in Seq(Seq(Octet))
      BY EmptySeq
    <3> QED BY <2>2, <3>1, <3>2, ConcatNone
  <2> QED BY <2>1, <2>2
<1>15. sendPublishWithoutCopy(p, MQTT_SerializePublishHeaderWithoutTopic(p, n), id) = (v1 \o v2) \o v3
  BY <1>3, <1>6, <1>8, <1>9, <1>10, <1>11 DEF sendPublishWithoutCopy
<1>16. Concat((v1 \o v2) \o v3) = (Concat(v1) \o Concat(v2)) \o Concat(v3)
  <2>1. v1 \in Seq(Seq(Octet)) /\ v2 \in Seq(Seq(Octet)) /\ v3 \in Seq(Seq(Octet))
    BY <1>12, <1>13, <1>14
  <2>2. PICK v : v = v1 \o v2
    OBVIOUS
  <2>3. v \in Seq(Seq(Octet))
    BY <2>1, <2>2, ConcatProperties
  <2>4. Concat(v) = Concat(v1) \o Concat(v2)
    BY <2>1, <2>2, ConcatConcat
  <2>5. Concat(v \o v3) = Concat(v) \o Concat(v3)
    BY <2>1, <2>3, ConcatConcat
  <2> QED BY <2>2, <2>4, <2>5
<1>17. PICK E : E = U \o T
  OBVIOUS
<1>18. (F \o U) \o T = F \o E
  <2>1. SameThree(F, U, T)
    BY JoinThree
  <2> QED BY <1>17, <2>1 DEF SameThree
<1>19. serializePublishCommon(p, n, id, TRUE) = ((F \o E) \o I) \o P
  <2>1. E = encodeString(p.topic)
    BY <1>3, <1>4, <1>17 DEF encodeString
  <2> QED BY <1>2, <1>5, <1>6, <2>1 DEF serializePublishCommon
<1>20. H \o T = F \o E
  BY <1>7, <1>18
<1> QED BY <1>12, <1>13, <1>14, <1>15, <1>16, <1>19, <1>20

LEMMA PublishHeader ==
  ASSUME NEW p \in PublishInfo, NEW id \in Word, NEW n \in Length
  PROVE  serializePublishCommon(p, n, id, TRUE) = serializePublishCommon(p, n, id, FALSE) \o p.payload
<1>1. PICK X : X = FixedHeader(PublishFlags(p), n) \o encodeString(p.topic) \o PacketId(p, id)
  OBVIOUS
<1>2. X \in Seq(Octet)
  <2>1. p.topic \in Text /\ p.qos \in 0..2 /\ p.retain \in BOOLEAN /\ p.dup \in BOOLEAN
    BY DEF PublishInfo
  <2>2. PublishFlags(p) \in Octet
    BY <2>1, PublishFlagsRead
  <2>3. PICK F \in Seq(Octet) : F = FixedHeader(PublishFlags(p), n)
    BY <2>2, FixedHeaderFacts
  <2>4. PICK E \in Seq(Octet) : E = encodeString(p.topic)
    BY <2>1, EncodedString
  <2>5. PICK I \in Seq(Octet) : I = PacketId(p, id)
    BY PacketIdFacts
  <2>6. PICK FE \in Seq(Octet) : FE = F \o E
    BY ConcatProperties
  <2>7. FE \o I \in Seq(Octet)
    BY ConcatProperties
  <2> QED BY <1>1, <2>3, <2>4, <2>5, <2>6, <2>7
<1>3. serializePublishCommon(p, n, id, TRUE) = X \o p.payload
  BY <1>1 DEF serializePublishCommon
<1>4. serializePublishCommon(p, n, id, FALSE) = X \o <<>>
  BY <1>1 DEF serializePublishCommon
<1>5. X \o <<>> = X
  BY <1>2, ConcatEmptySeq
<1> QED BY <1>3, <1>4, <1>5

LEMMA PublishTypeValid ==
  ASSUME NEW p \in PublishInfo
  PROVE  incomingPacketValid(PublishFlags(p))
<1>1. p.qos \in 0..2 /\ p.retain \in BOOLEAN /\ p.dup \in BOOLEAN
  BY DEF PublishInfo
<1>2. PICK x : x = PublishFlags(p)
  OBVIOUS
<1>3. x \div 16 = 3
  BY <1>1, <1>2, PublishFlagsRead
<1>4. (x \div 16) * 16 = 48
  BY <1>3
<1>5. Type.PUBLISH = 48
  BY DEF Type
<1> QED BY <1>2, <1>4, <1>5 DEF incomingPacketValid

\* A PUBLISH is read back by the library's own reader.
LEMMA PublishIsRight ==
  ASSUME NEW p \in PublishInfo, NEW id \in Word
  PROVE  PublishRight(p, id)
<1>1. PICK size : size = MQTT_GetPublishPacketSize(Len(p.topic), Len(p.payload), p.qos)
  OBVIOUS
<1> DEFINE Whole(buffer) == MQTT_SerializePublish(p, id, size.remaining, buffer)
           header == MQTT_SerializePublishHeader(p, id, size.remaining, size.packet)
           vectors == sendPublishWithoutCopy(p, MQTT_SerializePublishHeaderWithoutTopic(p, size.remaining), id)
           bytes == Whole(size.packet).bytes
           Good == /\ HeaderRight(bytes, PublishFlags(p), size.remaining) /\ Len(bytes) = size.packet
                   /\ MQTT_ProcessIncomingPacketTypeAndLength(bytes).status = "MQTTSuccess"
                   /\ MQTT_DeserializePublish(bytes[1], Body(bytes)) =
                        [status |-> "MQTTSuccess", packetId |-> IF p.qos = 0 THEN 0 ELSE id, publish |-> p]
                   /\ bytes = header.bytes \o p.payload /\ bytes = Concat(vectors)
                   /\ Whole(size.packet - 1) = [status |-> "MQTTNoMemory"]
           Refusal == PublishRefused(p, id) \/ ~validatePublishParams(p, id, TRUE)
<1>2. ASSUME size.status = "MQTTSuccess", Refusal PROVE Whole(size.packet) = Refused
  <2>1. PublishRefused(p, id)
    BY <1>2 DEF PublishRefused, validatePublishParams
  <2> QED BY <2>1 DEF MQTT_SerializePublish
<1>3. ASSUME size.status = "MQTTSuccess", ~Refusal PROVE Good
  <2>1. PICK n \in Length : /\ n = Len(p.topic) + 2 + Len(p.payload) + IF p.qos > 0 THEN 2 ELSE 0
                            /\ size = Sizes(n) /\ p.topic # <<>>
    BY <1>1, <1>3, SizesIs
  <2>2. n \in Nat
    BY LengthIs
  <2>3. size.remaining = n
    BY <2>1, <2>2, SizesFacts
  <2>4. PICK k \in Nat : k = size.packet /\ k = 1 + remainingLengthEncodedSize(n) + n /\ k - 1 \in Nat
    BY <2>1, <2>2, SizesFacts
  <2>5. ~PublishRefused(p, id)
    BY <1>3
  <2>6. p.topic \in Text /\ p.qos \in 0..2 /\ p.retain \in BOOLEAN /\ p.dup \in BOOLEAN /\ p.payload \in Seq(Octet)
    BY DEF PublishInfo
  <2>7. PICK type \in Octet : type = PublishFlags(p)
    BY <2>6, PublishFlagsRead
  <2>8. PICK rest \in Seq(Octet) : rest = PublishBody(p, id) /\ Len(rest) = n
    BY <2>1, PublishBytes
  <2>9. PICK w : w = serializePublishCommon(p, n, id, TRUE)
    OBVIOUS
  <2>10. w = FixedHeader(type, n) \o rest
    BY <2>7, <2>8, <2>9, PublishBytes
  <2>11. \A b : Whole(b) = Serialize(w, k, b)
    BY <2>1, <2>3, <2>4, <2>5, <2>9 DEF MQTT_SerializePublish
  <2>12. bytes = w /\ Whole(size.packet - 1) = [status |-> "MQTTNoMemory"]
    <3>1. k <= k /\ k > k - 1
      OBVIOUS
    <3>2. Serialize(w, k, k).bytes = w /\ Serialize(w, k, k - 1) = [status |-> "MQTTNoMemory"]
      BY <2>4, <3>1, Serialized
    <3>3. Whole(k) = Serialize(w, k, k) /\ Whole(k - 1) = Serialize(w, k, k - 1)
      BY <2>11
    <3> QED BY <2>4, <3>2, <3>3
  <2> HIDE DEF Whole
  <2>13. HeaderRight(w, type, n)
    BY <2>8, <2>10, HeaderIsRight
  <2>14. w[1] = type /\ Len(w) = k /\ w # <<>>
    BY <2>4, <2>8, <2>10, PacketFacts
  <2>15. Body(w) = rest
    BY <2>10, BodyOf
  <2>16. MQTT_ProcessIncomingPacketTypeAndLength(w).status = "MQTTSuccess"
    <3>1. incomingPacketValid(w[1])
      BY <2>7, <2>14, PublishTypeValid
    <3>2. MQTT_ProcessIncomingPacketTypeAndLength(w) = processRemainingLength(Tail(w))
      BY <2>14, <3>1 DEF MQTT_ProcessIncomingPacketTypeAndLength, Incoming
    <3>3. processRemainingLength(Tail(w)).status = "MQTTSuccess"
      BY <2>13 DEF HeaderRight
    <3> QED BY <3>2, <3>3
  <2>17. MQTT_DeserializePublish(w[1], Body(w)) =
           [status |-> "MQTTSuccess", packetId |-> IF p.qos = 0 THEN 0 ELSE id, publish |-> p]
    <3>1. p.qos # 0 => id # 0
      BY <2>5 DEF PublishRefused
    <3>2. MQTT_DeserializePublish(PublishFlags(p), PublishBody(p, id)) =
           [status |-> "MQTTSuccess", packetId |-> IF p.qos = 0 THEN 0 ELSE id, publish |-> p]
      BY <2>1, <3>1, PublishReadBack
    <3> QED BY <2>7, <2>8, <2>14, <2>15, <3>2
  <2>18. w = header.bytes \o p.payload
    <3>1. PICK m \in Nat : m = Len(p.payload)
      BY <2>6
    <3>2. k - m \in Nat /\ k - m <= k
      <4>1. PICK lt \in Nat : lt = Len(p.topic)
        BY <2>6, TextIs, WordIs
      <4>2. PICK i \in Nat : i = IF p.qos > 0 THEN 2 ELSE 0
        OBVIOUS
      <4>3. n = lt + 2 + m + i
        BY <2>1, <3>1, <4>1, <4>2
      <4>4. remainingLengthEncodedSize(n) \in Nat
        BY EncodedSizeIs
      <4> QED BY <2>4, <4>3, <4>4
    <3>3. PICK h : h = serializePublishCommon(p, n, id, FALSE)
      OBVIOUS
    <3>4. header = Serialize(h, k - m, k)
      BY <2>1, <2>3, <2>4, <2>5, <3>1, <3>3 DEF MQTT_SerializePublishHeader
    <3>5. header.bytes = h
      BY <3>2, <3>4, Serialized
    <3> QED BY <2>9, <3>3, <3>5, PublishHeader
  <2>19. w = Concat(vectors)
    BY <2>3, <2>9, PublishVectors
  <2> HIDE DEF vectors, header
  <2> QED BY <2>3, <2>4, <2>7, <2>12, <2>13, <2>14, <2>16, <2>17, <2>18, <2>19
<1>4. size.status = "MQTTSuccess" => IF Refusal THEN Whole(size.packet) = Refused ELSE Good
  BY <1>2, <1>3
<1>5. PublishRight(p, id)
  BY <1>1, <1>4 DEF PublishRight, Fits
<1> QED BY <1>5

-----------------------------------------------------------------------------
(* Lists of fields, read back *)

Joined(u, a, b) == u = a \o b
Places(S, u, a, b) ==
  /\ u \in Seq(S) /\ Len(u) = Len(a) + Len(b) /\ Len(a) \in Nat /\ Len(b) \in Nat
  /\ \A i \in 1..Len(a) : u[i] = a[i]
  /\ \A i \in 1..Len(b) : u[Len(a) + i] = b[i]
LEMMA JoinedPlaces ==
  ASSUME NEW S, NEW a \in Seq(S), NEW b \in Seq(S), NEW u, Joined(u, a, b)
  PROVE  Places(S, u, a, b)
<1>1. a \o b \in Seq(S) /\ Len(a \o b) = Len(a) + Len(b)
  BY ConcatProperties
<1>2. Len(a) \in Nat /\ Len(b) \in Nat
  OBVIOUS
<1>3. \A i \in 1..Len(a) : u[i] = a[i]
  BY JoinedAt DEF Joined
<1>4. \A i \in 1..Len(b) : u[Len(a) + i] = b[i]
  BY JoinedAt DEF Joined
<1> QED BY <1>1, <1>2, <1>3, <1>4 DEF Joined, Places

\* A field: a string behind its length, and other bytes; and where the k-th
\* part of a list starts in what they make together.
Field(part, s, x) == s \in Text /\ x \in Seq(Octet) /\ part = encodeString(s) \o x
Start(parts, k) == Len(Concat(Prefix(parts, k - 1))) + 1
LEMMA FieldLen ==
  ASSUME NEW part, NEW s, NEW x, Field(part, s, x)
  PROVE  part \in Seq(Octet) /\ Len(part) = Len(s) + 2 + Len(x) /\ Len(s) \in Nat /\ Len(x) \in Nat
<1>1. s \in Text /\ x \in Seq(Octet) /\ part = encodeString(s) \o x
  BY DEF Field
<1>2. PICK e \in Seq(Octet) : e = encodeString(s) /\ Len(e) = Len(s) + 2
  BY <1>1, EncodedString
<1>3. e \o x \in Seq(Octet) /\ Len(e \o x) = Len(e) + Len(x)
  BY <1>1, ConcatProperties
<1>4. Len(s) \in Nat
  BY <1>1, TextIs, WordIs
<1>5. Len(x) \in Nat
  BY <1>1
<1>6. (Len(s) + 2) + Len(x) = Len(s) + 2 + Len(x)
  BY <1>4, <1>5
<1> QED BY <1>1, <1>2, <1>3, <1>4, <1>5, <1>6

LEMMA FieldFirst ==
  ASSUME NEW part, NEW s, NEW x, Field(part, s, x), NEW rest \in Seq(Octet),
         NEW c, Joined(c, part, rest)
  PROVE  /\ UINT16_DECODE(c) = Len(s)
         /\ \A i \in 1..Len(s) : c[2 + i] = s[i]
         /\ Len(x) = 1 => c[Len(s) + 3] = x[1]
<1>1. s \in Text /\ x \in Seq(Octet) /\ part = encodeString(s) \o x
  BY DEF Field
<1>2. PICK t \in Seq(Octet) : t = s /\ Len(t) \in Word /\ Len(t) \in Nat
  BY <1>1, TextIs, WordIs
<1>3. PICK U \in Seq(Octet) : U = UINT16(Len(t)) /\ Len(U) = 2
  BY <1>2, UINT16Facts
<1>4. PICK y \in Seq(Octet) : y = x
  BY <1>1
<1>5. PICK a : Joined(a, y, rest)
  BY DEF Joined
<1>14. Places(Octet, a, y, rest)
  BY <1>5, JoinedPlaces
<1>24. a \in Seq(Octet)
  BY <1>14 DEF Places
<1>6. PICK b : Joined(b, t, a)
  BY DEF Joined
<1>15. Places(Octet, b, t, a)
  BY <1>6, <1>24, JoinedPlaces
<1>25. b \in Seq(Octet)
  BY <1>15 DEF Places
<1>8. Joined(c, U, b)
  <2>1. part \o rest = ((U \o t) \o y) \o rest
    BY <1>1, <1>2, <1>3, <1>4 DEF encodeString
  <2>2. SameFour(U, t, y, rest)
    BY JoinFour
  <2> QED BY <1>5, <1>6, <2>1, <2>2 DEF SameFour, Joined
<1>9. UINT16_DECODE(c) = Len(t)
  <2>1. UINT16_DECODE(UINT16(Len(t)) \o b) = Len(t)
    BY <1>2, <1>25, Decode16
  <2> QED BY <1>3, <1>8, <2>1 DEF Joined
<1>10. \A i \in 1..Len(b) : c[2 + i] = b[i]
  <2>1. Places(Octet, c, U, b)
    BY <1>8, <1>25, JoinedPlaces
  <2>2. \A i \in 1..Len(b) : c[Len(U) + i] = b[i]
    BY <2>1 DEF Places
  <2> QED BY <1>3, <2>2
<1>11. Len(b) = Len(t) + Len(a) /\ Len(a) \in Nat
  BY <1>15 DEF Places
<1>12. \A i \in 1..Len(t) : c[2 + i] = t[i]
  <2>1. \A i \in 1..Len(t) : b[i] = t[i]
    BY <1>15 DEF Places
  <2>2. \A i \in 1..Len(t) : i \in 1..Len(b)
    BY <1>2, <1>11
  <2> QED BY <1>10, <2>1, <2>2
<1>13. Len(y) = 1 => c[Len(t) + 3] = y[1]
  <2> SUFFICES ASSUME Len(y) = 1 PROVE c[Len(t) + 3] = y[1]
    OBVIOUS
  <2>1. Len(a) = Len(y) + Len(rest) /\ Len(rest) \in Nat
    BY <1>14 DEF Places
  <2>2. 1 \in 1..Len(y) /\ 1 \in 1..Len(a) /\ Len(t) + 1 \in 1..Len(b) /\ 2 + (Len(t) + 1) = Len(t) + 3
    BY <1>2, <1>11, <2>1
  <2>3. a[1] = y[1]
    BY <1>14, <2>2 DEF Places
  <2>4. b[Len(t) + 1] = a[1]
    BY <1>15, <2>2 DEF Places
  <2>5. c[2 + (Len(t) + 1)] = b[Len(t) + 1]
    BY <1>10, <2>2
  <2> QED BY <2>2, <2>3, <2>4, <2>5
<1> QED BY <1>2, <1>4, <1>9, <1>12, <1>13

\* The k-th field in the list of them all.
FieldRead(bytes, at, after, s, x) ==
  /\ at \in Nat \ {0} /\ after = at + Len(s) + 2 + Len(x)
  /\ UINT16_DECODE(From(bytes, at)) = Len(s)
  /\ SubSeq(bytes, at + 2, at + 1 + Len(s)) = s
  /\ Len(x) = 1 => bytes[at + Len(s) + 2] = x[1]
LEMMA FieldAt ==
  ASSUME NEW parts \in Seq(Seq(Octet)), NEW k \in 1..Len(parts), NEW s, NEW x, Field(parts[k], s, x),
         NEW bytes, bytes = Concat(parts), NEW at, at = Start(parts, k)
  PROVE  FieldRead(bytes, at, Start(parts, k + 1), s, x)
<1>1. PICK part \in Seq(Octet) : part = parts[k]
  OBVIOUS
<1>2. Len(part) = Len(s) + 2 + Len(x) /\ Len(s) \in Nat /\ Len(x) \in Nat
  BY <1>1, FieldLen
<1>3. PICK p : p = Prefix(parts, k - 1)
  OBVIOUS
<1>4. p \in Seq(Seq(Octet))
  <2>1. k - 1 \in 0..Len(parts)
    OBVIOUS
  <2> QED BY <1>3, <2>1, PrefixFacts
<1>5. PICK A \in Seq(Octet) : A = Concat(p)
  BY <1>4, ConcatType
<1>6. PICK la \in Nat : la = Len(A)
  OBVIOUS
<1>7. at = la + 1
  BY <1>3, <1>5, <1>6 DEF Start
<1>8. Prefix(parts, k) = Append(p, part)
  <2>1. PICK j \in 0..(Len(parts) - 1) : j = k - 1
    OBVIOUS
  <2>2. j + 1 = k
    BY <2>1
  <2>3. Prefix(parts, j + 1) = Append(Prefix(parts, j), parts[j + 1])
    BY PrefixNext
  <2> QED BY <1>1, <1>3, <2>1, <2>2, <2>3
<1>9. Concat(Prefix(parts, k)) = A \o part
  BY <1>4, <1>5, <1>8, ConcatAppend
<1>10. A \o part \in Seq(Octet) /\ Len(A \o part) = la + Len(part)
  BY <1>6, ConcatProperties
<1>11. Start(parts, k + 1) = at + Len(s) + 2 + Len(x)
  <2>1. k + 1 - 1 = k
    OBVIOUS
  <2>2. Start(parts, k + 1) = Len(A \o part) + 1
    BY <1>9, <2>1 DEF Start
  <2> QED BY <1>2, <1>7, <1>10, <2>2
<1>12. PICK rest \in Seq(Octet) : bytes = (A \o part) \o rest
  <2>1. k \in 0..Len(parts)
    OBVIOUS
  <2> QED BY <1>9, <2>1, ConcatRest
<1>13. PICK b : Joined(b, part, rest)
  BY DEF Joined
<1>24. Places(Octet, b, part, rest)
  BY <1>13, JoinedPlaces
<1>23. b \in Seq(Octet)
  BY <1>24 DEF Places
<1>14. Joined(bytes, A, b)
  <2>1. SameThree(A, part, rest)
    BY JoinThree
  <2> QED BY <1>12, <1>13, <2>1 DEF SameThree, Joined
<1>15. From(bytes, at) = b
  <2>1. From(A \o b, Len(A) + 1) = b
    BY <1>23, FromJoined
  <2> QED BY <1>6, <1>7, <1>14, <2>1 DEF Joined
<1>16. /\ UINT16_DECODE(b) = Len(s)
       /\ \A i \in 1..Len(s) : b[2 + i] = s[i]
       /\ Len(x) = 1 => b[Len(s) + 3] = x[1]
  BY <1>1, <1>13, FieldFirst
<1>25. Places(Octet, bytes, A, b)
  BY <1>14, <1>23, JoinedPlaces
<1>17. \A i \in 1..Len(b) : bytes[la + i] = b[i]
  BY <1>6, <1>25 DEF Places
<1>18. bytes \in Seq(Octet) /\ Len(bytes) = la + Len(b) /\ Len(b) = Len(part) + Len(rest) /\ Len(rest) \in Nat
  <2>1. bytes \in Seq(Octet) /\ Len(bytes) = la + Len(b)
    BY <1>6, <1>25 DEF Places
  <2>2. Len(b) = Len(part) + Len(rest) /\ Len(rest) \in Nat
    BY <1>24 DEF Places
  <2> QED BY <2>1, <2>2
<1>19. \A i \in 1..Len(s) : bytes[la + 2 + i] = s[i]
  <2>1. \A i \in 1..Len(s) : 2 + i \in 1..Len(b) /\ la + (2 + i) = la + 2 + i
    BY <1>2, <1>18
  <2>2. \A i \in 1..Len(s) : bytes[la + (2 + i)] = b[2 + i]
    BY <1>17, <2>1
  <2> QED BY <1>16, <2>1, <2>2
<1>20. SubSeq(bytes, at + 2, at + 1 + Len(s)) = s
  <2>1. s \in Seq(Octet)
    BY TextIs DEF Field
  <2>2. la + 2 \in Nat /\ la + 2 + Len(s) <= Len(bytes)
    BY <1>2, <1>18
  <2>3. bytes \in Seq(Octet)
    BY <1>18
  <2>4. SubSeq(bytes, la + 2 + 1, la + 2 + Len(s)) = s
    BY <1>19, <2>1, <2>2, <2>3, SubSeqIs
  <2>5. la + 2 + 1 = at + 2 /\ la + 2 + Len(s) = at + 1 + Len(s)
    BY <1>2, <1>7
  <2> QED BY <2>4, <2>5
<1>21. Len(x) = 1 => bytes[at + Len(s) + 2] = x[1]
  <2> SUFFICES ASSUME Len(x) = 1 PROVE bytes[at + Len(s) + 2] = x[1]
    OBVIOUS
  <2>1. Len(s) + 3 \in 1..Len(b) /\ la + (Len(s) + 3) = at + Len(s) + 2
    BY <1>2, <1>7, <1>18
  <2>2. bytes[la + (Len(s) + 3)] = b[Len(s) + 3]
    BY <1>17, <2>1
  <2> QED BY <1>16, <2>1, <2>2
<1>22. at \in Nat \ {0}
  BY <1>7
<1> QED BY <1>11, <1>15, <1>16, <1>20, <1>21, <1>22 DEF FieldRead

\* A list of fields, each with as many other bytes.
Fields(parts, strings, extras, others) ==
  /\ parts \in Seq(Seq(Octet)) /\ others \in Nat
  /\ \A k \in 1..Len(parts) : Field(parts[k], strings[k], extras[k]) /\ Len(extras[k]) = others

LEMMA StartsAre ==
  ASSUME NEW parts, NEW strings, NEW extras, NEW others, Fields(parts, strings, extras, others),
         NEW bytes, bytes = Concat(parts), NEW n \in Nat, n = Len(parts)
  PROVE  \A k \in 1 .. n + 1 : StringStarts(bytes, n, others)[k] = Start(parts, k)
<1>1. parts \in Seq(Seq(Octet)) /\ others \in Nat
  BY DEF Fields
<1> DEFINE next(b, last) == last + 2 + UINT16_DECODE(From(b, last)) + others
           Is(g) == g = [k \in 1 .. n + 1 |-> IF k = 1 THEN 1 ELSE next(bytes, g[k - 1])]
<1>2. PICK f : f = [k \in 1 .. n + 1 |-> Start(parts, k)]
  OBVIOUS
<1>3. \A k \in 1..n : Start(parts, k) \in Nat /\ Start(parts, k + 1) = next(bytes, Start(parts, k))
  <2> SUFFICES ASSUME NEW k \in 1..n
               PROVE  Start(parts, k) \in Nat /\ Start(parts, k + 1) = next(bytes, Start(parts, k))
    OBVIOUS
  <2>1. Field(parts[k], strings[k], extras[k]) /\ Len(extras[k]) = others
    BY DEF Fields
  <2>2. PICK s : s = strings[k]
    OBVIOUS
  <2>3. PICK x : x = extras[k]
    OBVIOUS
  <2>4. PICK at : at = Start(parts, k)
    OBVIOUS
  <2>5. Field(parts[k], s, x)
    BY <2>1, <2>2, <2>3
  <2>6. k \in 1..Len(parts)
    OBVIOUS
  <2>11. FieldRead(bytes, at, Start(parts, k + 1), s, x)
    BY <1>1, <2>4, <2>5, <2>6, FieldAt
  <2>7. /\ at \in Nat \ {0} /\ Start(parts, k + 1) = at + Len(s) + 2 + Len(x)
        /\ UINT16_DECODE(From(bytes, at)) = Len(s)
    BY <2>11 DEF FieldRead
  <2>8. Len(s) \in Nat /\ Len(x) = others
    BY <2>1, <2>3, <2>5, FieldLen
  <2>9. at + Len(s) + 2 + others = at + 2 + Len(s) + others
    BY <1>1, <2>7, <2>8
  <2>10. Start(parts, k + 1) = next(bytes, at)
    BY <2>7, <2>8, <2>9
  <2> HIDE DEF next
  <2> QED BY <2>4, <2>7, <2>10
<1>4. Start(parts, 1) = 1
  <2>1. Prefix(parts, 1 - 1) = <<>> /\ Len(<<>>) = 0
    BY PrefixNone
  <2> QED BY <2>1, ConcatNone DEF Start
<1> HIDE DEF next
<1>5. Is(f)
  <2>1. \A k \in 1 .. n + 1 : f[k] = IF k = 1 THEN 1 ELSE next(bytes, f[k - 1])
    <3> SUFFICES ASSUME NEW k \in 1 .. n + 1 PROVE f[k] = IF k = 1 THEN 1 ELSE next(bytes, f[k - 1])
      OBVIOUS
    <3>1. CASE k = 1
      BY <1>2, <1>4, <3>1
    <3>2. CASE k # 1
      <4>1. k - 1 \in 1..n /\ k - 1 \in 1 .. n + 1 /\ (k - 1) + 1 = k
        BY <3>2
      <4>2. Start(parts, (k - 1) + 1) = next(bytes, Start(parts, k - 1))
        BY <1>3, <4>1
      <4> QED BY <1>2, <3>2, <4>1, <4>2
    <3> QED BY <3>1, <3>2
  <2>2. f = [k \in 1 .. n + 1 |-> f[k]]
    BY <1>2
  <2> QED BY <2>1, <2>2
<1>6. PICK g : g = CHOOSE h : Is(h)
  OBVIOUS
<1>7. Is(g)
  <2> HIDE DEF Is
  <2> QED BY <1>5, <1>6
<1>8. StringStarts(bytes, n, others) = g
  BY <1>6 DEF StringStarts, next
<1>9. PICK T : T = {k \in 0..n : g[k + 1] = f[k + 1]}
  OBVIOUS
<1>10. 0 \in T
  <2>1. 0 \in 0..n /\ 0 + 1 = 1 /\ 1 \in 1 .. n + 1
    OBVIOUS
  <2>2. g[1] = 1 /\ f[1] = 1
    BY <1>5, <1>7, <2>1
  <2> QED BY <1>9, <2>1, <2>2
<1>11. ASSUME NEW k \in 0 .. n - 1, k \in T PROVE k + 1 \in T
  <2>1. k + 1 \in 0..n /\ k + 1 + 1 \in 1 .. n + 1 /\ k + 1 + 1 # 1 /\ k + 1 + 1 - 1 = k + 1
    OBVIOUS
  <2>2. g[k + 1] = f[k + 1]
    BY <1>9, <1>11
  <2>3. g[k + 1 + 1] = next(bytes, g[k + 1])
    BY <1>7, <2>1
  <2>4. f[k + 1 + 1] = next(bytes, f[k + 1])
    BY <1>5, <2>1
  <2> QED BY <1>9, <2>1, <2>2, <2>3, <2>4
<1>12. \A k \in 0..n : k \in T
  BY <1>10, <1>11, InductionTo
<1>13. \A k \in 1 .. n + 1 : g[k] = f[k]
  <2> SUFFICES ASSUME NEW k \in 1 .. n + 1 PROVE g[k] = f[k]
    OBVIOUS
  <2>1. k - 1 \in 0..n /\ (k - 1) + 1 = k
    OBVIOUS
  <2>2. k - 1 \in T
    BY <1>12, <2>1
  <2>3. g[(k - 1) + 1] = f[(k - 1) + 1]
    BY <1>9, <2>2
  <2> QED BY <2>1, <2>3
<1> QED BY <1>2, <1>8, <1>13

FieldsReadBack(bytes, parts, strings, extras, n, others) ==
  /\ AreAll(bytes, n, others)
  /\ Strings(bytes, n, others) = [k \in 1..n |-> strings[k]]
  /\ others = 1 => \A k \in 1..n : bytes[StringStarts(bytes, n, others)[k + 1] - 1] = extras[k][1]
\* All the fields are found, and nothing is left behind them.
LEMMA FieldsRead ==
  ASSUME NEW parts, NEW strings, NEW extras, NEW others, Fields(parts, strings, extras, others),
         NEW bytes, bytes = Concat(parts), NEW n \in Nat, n = Len(parts)
  PROVE  FieldsReadBack(bytes, parts, strings, extras, n, others)
<1>1. parts \in Seq(Seq(Octet)) /\ others \in Nat
  BY DEF Fields
<1>2. PICK g : g = StringStarts(bytes, n, others)
  OBVIOUS
<1>3. \A k \in 1 .. n + 1 : g[k] = Start(parts, k)
  BY <1>2, StartsAre
<1>4. AreAll(bytes, n, others)
  <2>1. n + 1 - 1 = n /\ n + 1 \in 1 .. n + 1
    OBVIOUS
  <2>2. Prefix(parts, n) = parts
    BY <1>1, PrefixAll
  <2>3. Start(parts, n + 1) = Len(bytes) + 1
    BY <2>1, <2>2 DEF Start
  <2> QED BY <1>2, <1>3, <2>1, <2>3 DEF AreAll
<1>5. ASSUME NEW k \in 1..n
      PROVE  /\ SubSeq(bytes, g[k] + 2, g[k + 1] - 1 - others) = strings[k]
             /\ others = 1 => bytes[g[k + 1] - 1] = extras[k][1]
  <2>1. Field(parts[k], strings[k], extras[k]) /\ Len(extras[k]) = others
    BY DEF Fields
  <2>2. PICK s : s = strings[k]
    OBVIOUS
  <2>3. PICK x : x = extras[k]
    OBVIOUS
  <2>4. PICK at : at = Start(parts, k)
    OBVIOUS
  <2>5. Field(parts[k], s, x) /\ Len(x) = others
    BY <2>1, <2>2, <2>3
  <2>6. k \in 1..Len(parts) /\ k \in 1 .. n + 1 /\ k + 1 \in 1 .. n + 1
    OBVIOUS
  <2>13. FieldRead(bytes, at, Start(parts, k + 1), s, x)
    BY <1>1, <2>4, <2>5, <2>6, FieldAt
  <2>7. /\ at \in Nat \ {0} /\ Start(parts, k + 1) = at + Len(s) + 2 + Len(x)
        /\ SubSeq(bytes, at + 2, at + 1 + Len(s)) = s
        /\ Len(x) = 1 => bytes[at + Len(s) + 2] = x[1]
    BY <2>13 DEF FieldRead
  <2>8. Len(s) \in Nat
    BY <2>5, FieldLen
  <2>9. g[k] = at /\ g[k + 1] = at + Len(s) + 2 + others
    BY <1>3, <2>4, <2>5, <2>6, <2>7
  <2>10. g[k + 1] - 1 - others = at + 1 + Len(s) /\ (others = 1 => g[k + 1] - 1 = at + Len(s) + 2)
    BY <1>1, <2>7, <2>8, <2>9
  <2>11. SubSeq(bytes, g[k] + 2, g[k + 1] - 1 - others) = s
    BY <2>7, <2>9, <2>10
  <2>12. others = 1 => bytes[g[k + 1] - 1] = x[1]
    BY <2>5, <2>7, <2>10
  <2> QED BY <2>2, <2>3, <2>11, <2>12
<1>6. Strings(bytes, n, others) = [k \in 1..n |-> strings[k]]
  <2>1. Strings(bytes, n, others) = [k \in 1..n |-> SubSeq(bytes, g[k] + 2, g[k + 1] - 1 - others)]
    BY <1>2 DEF Strings
  <2>2. \A k \in 1..n : SubSeq(bytes, g[k] + 2, g[k + 1] - 1 - others) = strings[k]
    BY <1>5
  <2> QED BY <2>1, <2>2
<1>7. others = 1 => \A k \in 1..n : bytes[g[k + 1] - 1] = extras[k][1]
  BY <1>5
<1> QED BY <1>2, <1>4, <1>6, <1>7 DEF FieldsReadBack

-----------------------------------------------------------------------------
(* CONNECT *)

AllSmall(numbers) == \A i \in 1..Len(numbers) : numbers[i] >= 0 /\ numbers[i] <= 65537
LEMMA TotalBounded ==
  ASSUME NEW numbers \in Seq(Int), AllSmall(numbers)
  PROVE  Total(numbers) >= 0 /\ Total(numbers) <= Len(numbers) * 65537
<1>1. PICK n \in Nat : n = Len(numbers)
  OBVIOUS
<1>2. PICK f \in [0..n -> Int] : Total(numbers) = f[n] /\ Summed(f, numbers)
  BY <1>1, TotalIs
<1>3. f[0] = 0 /\ \A k \in 1..n : f[k] = f[k - 1] + numbers[k]
  BY <1>1, <1>2 DEF Summed
<1>4. PICK T : T = {k \in 0..n : f[k] >= 0 /\ f[k] <= k * 65537}
  OBVIOUS
<1>5. 0 \in T
  BY <1>3, <1>4
<1>6. ASSUME NEW k \in 0 .. n - 1, k \in T PROVE k + 1 \in T
  <2>1. k + 1 \in 1..n /\ k + 1 - 1 = k /\ k + 1 \in 0..n /\ k \in 0..n
    OBVIOUS
  <2>2. PICK m \in Int : m = numbers[k + 1] /\ m >= 0 /\ m <= 65537
    BY <1>1, <2>1 DEF AllSmall
  <2>3. f[k + 1] = f[k] + m
    BY <1>3, <2>1, <2>2
  <2>4. f[k] \in Int /\ f[k] >= 0 /\ f[k] <= k * 65537
    BY <1>4, <1>6, <2>1
  <2>5. f[k + 1] >= 0 /\ f[k + 1] <= (k + 1) * 65537
    BY SMT, <2>2, <2>3, <2>4
  <2> QED BY <1>4, <2>1, <2>5
<1>7. \A k \in 0..n : k \in T
  BY <1>5, <1>6, InductionTo
<1>8. n \in 0..n
  OBVIOUS
<1>9. f[n] >= 0 /\ f[n] <= n * 65537
  BY <1>4, <1>7, <1>8
<1> QED BY <1>1, <1>2, <1>9

-----------------------------------------------------------------------------
\* The flags of a CONNECT.

LEMMA ConnectBits ==
  ASSUME NEW a \in {0, 1}, NEW b \in {0, 1}, NEW d \in {0, 1}, NEW w \in {0, 1}, NEW y \in 0..7, w = 0 => y = 0
  PROVE  LET x == a * 2 + b * 128 + d * 64 + w * 4 + y * 8
         IN /\ x \in Nat /\ x <= 255
            /\ (x \div 1) % 2 = 0 /\ (x \div 2) % 2 = a /\ (x \div 4) % 2 = w /\ (x \div 8) % 8 = y
            /\ (x \div 64) % 2 = d /\ (x \div 128) % 2 = b /\ (x \div 8) % 4 = y % 4 /\ (x \div 32) % 2 = y \div 4
<1>1. PICK x \in Nat : x = a * 2 + b * 128 + d * 64 + w * 4 + y * 8
  OBVIOUS
<1>2. x <= 255
  BY <1>1
<1>3. (x \div 1) % 2 = 0
  BY <1>1
<1>4. (x \div 2) % 2 = a
  BY <1>1
<1>5. (x \div 4) % 2 = w
  BY <1>1
<1>6. (x \div 8) % 8 = y
  BY <1>1
<1>7. (x \div 64) % 2 = d
  BY <1>1
<1>8. (x \div 128) % 2 = b
  BY <1>1
<1>9. (x \div 8) % 4 = y % 4
  BY <1>1
<1>10. (x \div 32) % 2 = y \div 4
  BY <1>1
<1> QED BY <1>1, <1>2, <1>3, <1>4, <1>5, <1>6, <1>7, <1>8, <1>9, <1>10

ConnectFlags(c) ==
  Bit(1, c.cleanSession) + Bit(7, c.user # <<>>) + Bit(6, c.password # <<>>)
    + Bit(2, c.will # <<>>) + Bit(3, c.will # <<>> /\ c.will[1].qos = 1) + Bit(4, c.will # <<>> /\ c.will[1].qos = 2)
    + Bit(5, c.will # <<>> /\ c.will[1].retain)
FlagsRight(c, flags) ==
  /\ CheckBit(flags, 1) = c.cleanSession /\ ~CheckBit(flags, 0)
  /\ CheckBit(flags, 7) = (c.user # <<>>) /\ CheckBit(flags, 6) = (c.password # <<>>)
  /\ CheckBit(flags, 2) = (c.will # <<>>)
  /\ IF c.will # <<>> THEN (flags \div 8) % 4 = c.will[1].qos /\ CheckBit(flags, 5) = c.will[1].retain
     ELSE (flags \div 8) % 8 = 0
LEMMA ConnectFlagsRight ==
  ASSUME NEW c \in ConnectInfo
  PROVE  ConnectFlags(c) \in Octet /\ FlagsRight(c, ConnectFlags(c))
<1>1. c.cleanSession \in BOOLEAN /\ c.will \in Optional(PublishInfo)
  BY DEF ConnectInfo
<1>2. c.will # <<>> => c.will[1].qos \in 0..2 /\ c.will[1].retain \in BOOLEAN
  <2> SUFFICES ASSUME c.will # <<>> PROVE c.will[1].qos \in 0..2 /\ c.will[1].retain \in BOOLEAN
    OBVIOUS
  <2>1. c.will \in Seq(PublishInfo)
    BY <1>1 DEF Optional
  <2>2. c.will[1] \in PublishInfo
    BY <2>1
  <2> QED BY <2>2 DEF PublishInfo
<1>3. PICK a \in {0, 1} : a = IF c.cleanSession THEN 1 ELSE 0
  OBVIOUS
<1>4. PICK b \in {0, 1} : b = IF c.user # <<>> THEN 1 ELSE 0
  OBVIOUS
<1>5. PICK d \in {0, 1} : d = IF c.password # <<>> THEN 1 ELSE 0
  OBVIOUS
<1>6. PICK w \in {0, 1} : w = IF c.will # <<>> THEN 1 ELSE 0
  OBVIOUS
<1>7. PICK q \in 0..2 : q = IF c.will # <<>> THEN c.will[1].qos ELSE 0
  BY <1>2
<1>8. PICK r \in {0, 1} : r = IF c.will # <<>> /\ c.will[1].retain THEN 1 ELSE 0
  OBVIOUS
<1>9. PICK y \in 0..7 : y = q + r * 4
  BY <1>7, <1>8
<1>10. PICK x : x = a * 2 + b * 128 + d * 64 + w * 4 + y * 8
  OBVIOUS
<1>11. w = 0 => y = 0
  BY <1>6, <1>7, <1>8, <1>9
<1>12. /\ x \in Nat /\ x <= 255
       /\ (x \div 1) % 2 = 0 /\ (x \div 2) % 2 = a /\ (x \div 4) % 2 = w /\ (x \div 8) % 8 = y
       /\ (x \div 64) % 2 = d /\ (x \div 128) % 2 = b /\ (x \div 8) % 4 = y % 4 /\ (x \div 32) % 2 = y \div 4
  BY <1>10, <1>11, ConnectBits
<1>13. y % 4 = q /\ y \div 4 = r
  BY <1>9
<1>14. ConnectFlags(c) = x
  <2>1. /\ Bit(1, c.cleanSession) = a * 2
        /\ Bit(7, c.user # <<>>) = b * 128
        /\ Bit(6, c.password # <<>>) = d * 64
        /\ Bit(2, c.will # <<>>) = w * 4
    <3>1. Bit(1, c.cleanSession) = IF c.cleanSession THEN 2 ELSE 0
      BY BitIs
    <3>2. Bit(7, c.user # <<>>) = IF c.user # <<>> THEN 128 ELSE 0
      BY BitIs
    <3>3. Bit(6, c.password # <<>>) = IF c.password # <<>> THEN 64 ELSE 0
      BY BitIs
    <3>4. Bit(2, c.will # <<>>) = IF c.will # <<>> THEN 4 ELSE 0
      BY BitIs
    <3>5. Bit(1, c.cleanSession) = a * 2
      BY <1>3, <3>1
    <3>6. Bit(7, c.user # <<>>) = b * 128
      BY <1>4, <3>2
    <3>7. Bit(6, c.password # <<>>) = d * 64
      BY <1>5, <3>3
    <3>8. Bit(2, c.will # <<>>) = w * 4
      BY <1>6, <3>4
    <3> QED BY <3>5, <3>6, <3>7, <3>8
  <2>2. Bit(5, c.will # <<>> /\ c.will[1].retain) = r * 32
    <3>1. Bit(5, c.will # <<>> /\ c.will[1].retain) = IF c.will # <<>> /\ c.will[1].retain THEN 32 ELSE 0
      BY BitIs
    <3> QED BY <1>8, <3>1
  <2>3. Bit(3, c.will # <<>> /\ c.will[1].qos = 1) + Bit(4, c.will # <<>> /\ c.will[1].qos = 2) = q * 8
    <3>1. c.will # <<>> /\ c.will[1].qos = 1 <=> q = 1
      BY <1>7
    <3>2. c.will # <<>> /\ c.will[1].qos = 2 <=> q = 2
      BY <1>7
    <3>3. Bit(3, c.will # <<>> /\ c.will[1].qos = 1) = IF q = 1 THEN 8 ELSE 0
      BY <3>1, BitIs
    <3>4. Bit(4, c.will # <<>> /\ c.will[1].qos = 2) = IF q = 2 THEN 16 ELSE 0
      BY <3>2, BitIs
    <3>5. q = 0 \/ q = 1 \/ q = 2
      OBVIOUS
    <3> QED BY <3>3, <3>4, <3>5
  <2>4. PICK q1 \in {0, 8} : q1 = Bit(3, c.will # <<>> /\ c.will[1].qos = 1)
    BY BitIs
  <2>5. PICK q2 \in {0, 16} : q2 = Bit(4, c.will # <<>> /\ c.will[1].qos = 2)
    BY BitIs
  <2>6. ConnectFlags(c) = a * 2 + b * 128 + d * 64 + w * 4 + q1 + q2 + r * 32
    BY <2>1, <2>2, <2>4, <2>5 DEF ConnectFlags
  <2>7. q1 + q2 = q * 8
    BY <2>3, <2>4, <2>5
  <2> QED BY <1>9, <1>10, <2>6, <2>7
<1>15. x \in Octet
  BY <1>12, OctetIs
<1>16. FlagsRight(c, x)
  <2>1. CheckBit(x, 1) = c.cleanSession /\ ~CheckBit(x, 0)
    <3>1. CheckBit(x, 1) = (a = 1) /\ CheckBit(x, 0) = (0 = 1)
      BY <1>12, CheckBitIs
    <3>2. (a = 1) = c.cleanSession
      BY <1>1, <1>3
    <3>3. ~(0 = 1)
      OBVIOUS
    <3> QED BY ONLY <3>1, <3>2, <3>3
  <2>2. CheckBit(x, 7) = (c.user # <<>>) /\ CheckBit(x, 6) = (c.password # <<>>)
    <3>1. CheckBit(x, 7) = (b = 1) /\ CheckBit(x, 6) = (d = 1)
      BY <1>12, CheckBitIs
    <3>2. (b = 1) = (c.user # <<>>) /\ (d = 1) = (c.password # <<>>)
      BY <1>4, <1>5
    <3> QED BY <3>1, <3>2
  <2>3. CheckBit(x, 2) = (c.will # <<>>)
    <3>1. CheckBit(x, 2) = (w = 1)
      BY <1>12, CheckBitIs
    <3>2. (w = 1) = (c.will # <<>>)
      BY <1>6
    <3> QED BY <3>1, <3>2
  <2>4. c.will # <<>> => (x \div 8) % 4 = c.will[1].qos
    BY <1>7, <1>12, <1>13
  <2>5. c.will # <<>> => CheckBit(x, 5) = c.will[1].retain
    <3>1. CheckBit(x, 5) = (r = 1)
      BY <1>12, <1>13, CheckBitIs
    <3>2. c.will # <<>> => (r = 1) = c.will[1].retain
      BY <1>2, <1>8
    <3> QED BY <3>1, <3>2
  <2>6. ~(c.will # <<>>) => (x \div 8) % 8 = 0
    BY <1>6, <1>11, <1>12
  <2> QED BY <2>1, <2>2, <2>3, <2>4, <2>5, <2>6 DEF FlagsRight
<1> QED BY <1>14, <1>15, <1>16

LEMMA OptionalIs ==
  ASSUME NEW S, NEW s \in Optional(S)
  PROVE  s \in Seq(S) /\ Len(s) \in 0..1
<1>1. s \in Seq(S) /\ Len(s) <= 1
  BY DEF Optional
<1>2. PICK n \in Nat : n = Len(s)
  BY <1>1
<1>3. n <= 1 => n \in 0..1
  OBVIOUS
<1> QED BY <1>1, <1>2, <1>3

\* The strings of a CONNECT, one by one.
ConnectPlaces(c, cs) ==
  /\ cs \in Seq(Text)
  /\ Len(cs) = 1 + (IF c.will # <<>> THEN 2 ELSE 0) + Len(c.user) + Len(c.password) /\ Len(cs) \in 1..5
  /\ cs[1] = c.clientId
  /\ c.will # <<>> => cs[2] = c.will[1].topic /\ cs[3] = c.will[1].payload
  /\ c.password # <<>> => cs[Len(cs)] = c.password[1]
  /\ c.user # <<>> => cs[IF c.will # <<>> THEN 4 ELSE 2] = c.user[1]
LEMMA ConnectStringsAre ==
  ASSUME NEW c \in ConnectInfo, c.will # <<>> => c.will[1].payload \in Text
  PROVE  ConnectPlaces(c, ConnectStrings(c))
<1>1. /\ c.clientId \in Text /\ c.will \in Optional(PublishInfo)
      /\ c.user \in Optional(Text) /\ c.password \in Optional(Text)
  BY DEF ConnectInfo
<1>2. PICK W : W = IF c.will = <<>> THEN <<>> ELSE <<c.will[1].topic, c.will[1].payload>>
  OBVIOUS
<1>3. PICK l : l = IF c.will # <<>> THEN 2 ELSE 0
  OBVIOUS
<1>4. /\ W \in Seq(Text) /\ Len(W) = l
      /\ c.will # <<>> => W[1] = c.will[1].topic /\ W[2] = c.will[1].payload
  <2>1. CASE c.will = <<>>
    <3>1. W = <<>> /\ l = 0
      BY <1>2, <1>3, <2>1
    <3> QED BY <2>1, <3>1, EmptySeq
  <2>2. CASE c.will # <<>>
    <3>1. c.will \in Seq(PublishInfo)
      BY <1>1 DEF Optional
    <3>2. c.will[1] \in PublishInfo
      BY <2>2, <3>1
    <3>3. PICK t \in Text : t = c.will[1].topic
      BY <3>2 DEF PublishInfo
    <3>4. PICK m \in Text : m = c.will[1].payload
      BY <2>2
    <3>5. W = <<t, m>> /\ l = 2
      BY <1>2, <1>3, <2>2, <3>3, <3>4
    <3>6. <<t, m>> \in Seq(Text) /\ Len(<<t, m>>) = 2 /\ <<t, m>>[1] = t /\ <<t, m>>[2] = m
      OBVIOUS
    <3> QED BY <3>3, <3>4, <3>5, <3>6
  <2> QED BY <2>1, <2>2
<1>5. PICK first : first = <<c.clientId>>
  OBVIOUS
<1>6. first \in Seq(Text) /\ Len(first) = 1 /\ first[1] = c.clientId
  BY <1>1, <1>5
<1>7. PICK u : u = c.user
  OBVIOUS
<1>8. PICK p : p = c.password
  OBVIOUS
<1>9. u \in Seq(Text) /\ Len(u) \in 0..1 /\ p \in Seq(Text) /\ Len(p) \in 0..1
  <2>1. u \in Seq(Text) /\ Len(u) \in 0..1
    BY <1>1, <1>7, OptionalIs
  <2>2. p \in Seq(Text) /\ Len(p) \in 0..1
    BY <1>1, <1>8, OptionalIs
  <2> QED BY <2>1, <2>2
<1>10. PICK a : Joined(a, first, W)
  BY DEF Joined
<1>11. PICK b : Joined(b, a, u)
  BY DEF Joined
<1>12. PICK d : Joined(d, b, p)
  BY DEF Joined
<1>13. ConnectStrings(c) = d
  BY <1>2, <1>5, <1>7, <1>8, <1>10, <1>11, <1>12 DEF Joined, ConnectStrings
<1>14. Places(Text, a, first, W)
  <2>1. W \in Seq(Text) /\ first \in Seq(Text)
    BY <1>4, <1>6
  <2> QED BY <1>10, <2>1, JoinedPlaces
<1>15. Places(Text, b, a, u)
  <2>1. a \in Seq(Text) /\ u \in Seq(Text)
    BY <1>9, <1>14 DEF Places
  <2> QED BY <1>11, <2>1, JoinedPlaces
<1>16. Places(Text, d, b, p)
  <2>1. b \in Seq(Text) /\ p \in Seq(Text)
    BY <1>9, <1>15 DEF Places
  <2> QED BY <1>12, <2>1, JoinedPlaces
<1>17. l \in {0, 2} /\ Len(a) = 1 + l /\ Len(b) = 1 + l + Len(u) /\ Len(d) = 1 + l + Len(u) + Len(p)
  <2>1. Len(a) = 1 + l /\ Len(b) = Len(a) + Len(u) /\ Len(d) = Len(b) + Len(p)
    BY <1>4, <1>6, <1>14, <1>15, <1>16 DEF Places
  <2> QED BY <1>3, <2>1
<1>18. d \in Seq(Text)
  BY <1>16 DEF Places
<1>19. Len(d) \in 1..5
  <2>1. PICK lu \in 0..1 : lu = Len(u)
    BY <1>9
  <2>2. PICK lp \in 0..1 : lp = Len(p)
    BY <1>9
  <2>3. Len(d) = 1 + l + lu + lp /\ (l = 0 \/ l = 2)
    BY <1>17, <2>1, <2>2
  <2>4. 1 + l + lu + lp \in 1..5
    BY <2>3
  <2> QED BY <2>3, <2>4
<1>20. \A i \in 1..Len(b) : d[i] = b[i]
  BY <1>16 DEF Places
<1>21. \A i \in 1..Len(a) : b[i] = a[i]
  BY <1>15 DEF Places
<1>22. d[1] = c.clientId
  <2>1. a[1] = first[1]
    BY <1>6, <1>14 DEF Places
  <2>2. 1 \in 1..Len(a) /\ 1 \in 1..Len(b)
    BY <1>9, <1>17
  <2> QED BY <1>6, <1>20, <1>21, <2>1, <2>2
<1>23. c.will # <<>> => d[2] = c.will[1].topic /\ d[3] = c.will[1].payload
  <2> SUFFICES ASSUME c.will # <<>> PROVE d[2] = c.will[1].topic /\ d[3] = c.will[1].payload
    OBVIOUS
  <2>1. l = 2
    BY <1>3
  <2>2. a[1 + 1] = W[1] /\ a[1 + 2] = W[2]
    BY <1>4, <1>6, <1>14, <2>1 DEF Places
  <2>3. 2 \in 1..Len(a) /\ 2 \in 1..Len(b) /\ 3 \in 1..Len(a) /\ 3 \in 1..Len(b)
    BY <1>9, <1>17, <2>1
  <2> QED BY <1>4, <1>20, <1>21, <2>2, <2>3
<1>24. p # <<>> => d[Len(d)] = p[1]
  <2> SUFFICES ASSUME p # <<>> PROVE d[Len(d)] = p[1]
    OBVIOUS
  <2>1. Len(p) = 1
    BY <1>9, EmptySeq
  <2>2. 1 \in 1..Len(p) /\ Len(d) = Len(b) + 1
    BY <1>9, <1>17, <2>1
  <2>3. d[Len(b) + 1] = p[1]
    BY <1>16, <2>2 DEF Places
  <2> QED BY <2>2, <2>3
<1>25. u # <<>> => d[IF c.will # <<>> THEN 4 ELSE 2] = u[1]
  <2> SUFFICES ASSUME u # <<>> PROVE d[IF c.will # <<>> THEN 4 ELSE 2] = u[1]
    OBVIOUS
  <2>1. Len(u) = 1
    BY <1>9, EmptySeq
  <2>2. 1 \in 1..Len(u) /\ Len(a) + 1 \in 1..Len(b) /\ Len(a) + 1 = IF c.will # <<>> THEN 4 ELSE 2
    BY <1>3, <1>17, <2>1
  <2>3. b[Len(a) + 1] = u[1]
    BY <1>15, <2>2 DEF Places
  <2> QED BY <1>20, <2>2, <2>3
<1> QED BY <1>3, <1>7, <1>8, <1>13, <1>17, <1>18, <1>19, <1>22, <1>23, <1>24, <1>25 DEF ConnectPlaces

-----------------------------------------------------------------------------
\* The strings of a CONNECT as parts of its payload, and its vectors.

EncodedStrings(cs) == [i \in DOMAIN cs |-> encodeString(cs[i])]
LEMMA EncodedStringsAre ==
  ASSUME NEW cs \in Seq(Text)
  PROVE  /\ EncodedStrings(cs) \in Seq(Seq(Octet)) /\ Len(EncodedStrings(cs)) = Len(cs)
         /\ Fields(EncodedStrings(cs), cs, [i \in DOMAIN cs |-> <<>>], 0)
<1>1. PICK n \in Nat : n = Len(cs)
  OBVIOUS
<1>2. PICK parts : parts = EncodedStrings(cs)
  OBVIOUS
<1>3. parts = [i \in 1..n |-> encodeString(cs[i])]
  <2>1. DOMAIN cs = 1..n
    BY <1>1
  <2> QED BY <1>2, <2>1 DEF EncodedStrings
<1>4. \A i \in 1..n : cs[i] \in Text
  BY <1>1
<1>5. \A i \in 1..n : encodeString(cs[i]) \in Seq(Octet)
  BY <1>4, EncodedString
<1>6. parts \in [1..n -> Seq(Octet)]
  BY <1>3, <1>5
<1>7. parts \in Seq(Seq(Octet)) /\ Len(parts) = n
  BY <1>6, SeqOf
<1>8. PICK extras : extras = [i \in DOMAIN cs |-> <<>>]
  OBVIOUS
<1>9. ASSUME NEW i \in 1..n PROVE Field(parts[i], cs[i], extras[i]) /\ Len(extras[i]) = 0
  <2>1. i \in DOMAIN cs
    BY <1>1
  <2>2. extras[i] = <<>>
    BY <1>8, <2>1
  <2>3. PICK e \in Seq(Octet) : e = encodeString(cs[i])
    BY <1>5
  <2>4. e \o <<>> = e
    BY ConcatEmptySeq
  <2>5. parts[i] = e
    BY <1>3, <2>3
  <2>6. Len(<<>>) = 0 /\ <<>> \in Seq(Octet)
    BY EmptySeq
  <2> QED BY <1>4, <2>2, <2>3, <2>4, <2>5, <2>6 DEF Field
<1>10. Fields(parts, cs, extras, 0)
  BY <1>7, <1>9 DEF Fields
<1> QED BY <1>1, <1>2, <1>7, <1>8, <1>10

LEMMA StringVectors ==
  ASSUME NEW s \in Text
  PROVE  /\ addEncodedStringToVector(s) \in Seq(Seq(Octet))
         /\ Len(addEncodedStringToVector(s)) \in 1..2
         /\ Concat(addEncodedStringToVector(s)) = encodeString(s)
<1>1. PICK t \in Seq(Octet) : t = s /\ Len(t) \in Word
  BY TextIs
<1>2. CASE s = <<>>
  <2>1. PICK z \in Seq(Octet) : z = UINT16(0)
    <3>1. 0 \in Nat /\ 0 <= 65535
      OBVIOUS
    <3>2. 0 \in Word
      BY <3>1, WordIs
    <3> QED BY <3>2, UINT16Facts
  <2>2. addEncodedStringToVector(s) = <<z>>
    BY <1>2, <2>1 DEF addEncodedStringToVector
  <2>3. encodeString(s) = z \o <<>>
    <3>1. Len(s) = 0
      BY <1>2
    <3> QED BY <1>2, <2>1, <3>1 DEF encodeString
  <2>4. z \o <<>> = z
    BY ConcatEmptySeq
  <2>5. <<z>> \in Seq(Seq(Octet)) /\ Len(<<z>>) = 1
    OBVIOUS
  <2>6. Concat(<<z>>) = z
    BY ConcatOne
  <2> QED BY <2>2, <2>3, <2>4, <2>5, <2>6
<1>3. CASE s # <<>>
  <2>1. PICK z \in Seq(Octet) : z = UINT16(Len(t))
    BY <1>1, UINT16Facts
  <2>2. addEncodedStringToVector(s) = <<z, t>>
    BY <1>1, <1>3, <2>1 DEF addEncodedStringToVector
  <2>3. encodeString(s) = z \o t
    BY <1>1, <2>1 DEF encodeString
  <2>4. <<z, t>> \in Seq(Seq(Octet)) /\ Len(<<z, t>>) = 2
    OBVIOUS
  <2>5. Concat(<<z, t>>) = z \o t
    BY ConcatTwo
  <2>6. 2 \in 1..2
    OBVIOUS
  <2>7. addEncodedStringToVector(s) \in Seq(Seq(Octet)) /\ Len(addEncodedStringToVector(s)) = 2
    BY <2>2, <2>4
  <2>8. Concat(addEncodedStringToVector(s)) = encodeString(s)
    BY <2>2, <2>3, <2>5
  <2> QED BY <2>6, <2>7, <2>8
<1> QED BY <1>2, <1>3

SameFive(a, b, c, d, e) == (((a \o b) \o c) \o d) \o e = a \o (b \o (c \o (d \o e)))
LEMMA JoinFive ==
  ASSUME NEW S, NEW a \in Seq(S), NEW b \in Seq(S), NEW c \in Seq(S), NEW d \in Seq(S), NEW e \in Seq(S)
  PROVE  SameFive(a, b, c, d, e)
<1>1. PICK x : Joined(x, a, b)
  BY DEF Joined
<1>2. PICK y : Joined(y, d, e)
  BY DEF Joined
<1>3. x \in Seq(S) /\ y \in Seq(S)
  BY <1>1, <1>2, JoinedPlaces DEF Places
<1>4. SameFour(a, b, c, y)
  BY <1>3, JoinFour
<1>5. PICK z : Joined(z, x, c)
  BY DEF Joined
<1>6. z \in Seq(S)
  BY <1>3, <1>5, JoinedPlaces DEF Places
<1>7. SameThree(z, d, e)
  BY <1>6, JoinThree
<1> QED BY <1>1, <1>2, <1>4, <1>5, <1>7 DEF SameFive, SameFour, SameThree, Joined

\* The four letters of the protocol's name.
LEMMA ProtocolName ==
  /\ encodeString(<<77, 81, 84, 84>>) = <<0, 4, 77, 81, 84, 84>>
  /\ <<0, 4, 77, 81, 84, 84>> \in Seq(Octet)
<1>1. /\ 0 \in Octet /\ 4 \in Octet /\ 77 \in Octet /\ 81 \in Octet /\ 84 \in Octet
  BY OctetIs
<1>2. PICK name : name = <<77, 81, 84, 84>>
  OBVIOUS
<1>3. name \in Seq(Octet) /\ Len(name) = 4 /\ name[1] = 77 /\ name[2] = 81 /\ name[3] = 84 /\ name[4] = 84
  BY <1>1, <1>2
<1>4. PICK len : len = <<0, 4>>
  OBVIOUS
<1>5. len \in Seq(Octet) /\ Len(len) = 2 /\ len[1] = 0 /\ len[2] = 4
  BY <1>1, <1>4
<1>6. UINT16(4) = len
  <2>1. 4 \div 256 = 0 /\ 4 % 256 = 4
    OBVIOUS
  <2> QED BY <1>4, <2>1 DEF UINT16
<1>7. PICK all : all = <<0, 4, 77, 81, 84, 84>>
  OBVIOUS
<1>8. all \in Seq(Octet) /\ Len(all) = 6
  BY <1>1, <1>7
<1>9. all[1] = 0 /\ all[2] = 4 /\ all[3] = 77 /\ all[4] = 81 /\ all[5] = 84 /\ all[6] = 84
  BY <1>7
<1>10. PICK w : Joined(w, len, name)
  BY DEF Joined
<1>11. Places(Octet, w, len, name)
  <2>1. len \in Seq(Octet) /\ name \in Seq(Octet)
    BY <1>3, <1>5
  <2> QED BY <1>10, <2>1, JoinedPlaces
<1>12. w \in Seq(Octet) /\ Len(w) = 6
  BY <1>3, <1>5, <1>11 DEF Places
<1>13. w[1] = 0 /\ w[2] = 4
  <2>1. 1 \in 1..Len(len) /\ 2 \in 1..Len(len)
    BY <1>5
  <2> QED BY <1>5, <1>11, <2>1 DEF Places
<1>14. w[3] = 77 /\ w[4] = 81 /\ w[5] = 84 /\ w[6] = 84
  <2>1. 1 \in 1..Len(name) /\ 2 \in 1..Len(name) /\ 3 \in 1..Len(name) /\ 4 \in 1..Len(name)
    BY <1>3
  <2>2. w[Len(len) + 1] = 77 /\ w[Len(len) + 2] = 81 /\ w[Len(len) + 3] = 84 /\ w[Len(len) + 4] = 84
    BY <1>3, <1>11, <2>1 DEF Places
  <2> QED BY <1>5, <2>2
<1>15. \A i \in 1..Len(all) : w[i] = all[i]
  <2>1. \A i \in 1..Len(all) : i = 1 \/ i = 2 \/ i = 3 \/ i = 4 \/ i = 5 \/ i = 6
    BY <1>8
  <2> QED BY <1>9, <1>13, <1>14, <2>1
<1>16. w = all
  BY <1>8, <1>12, <1>15, SeqEqual
<1>17. encodeString(name) = len \o name
  BY <1>3, <1>6 DEF encodeString
<1> QED BY <1>2, <1>7, <1>8, <1>10, <1>16, <1>17 DEF Joined

LEMMA ProtocolHead ==
  ASSUME NEW body \in Seq(Octet), Len(body) >= 7, body[1] = 0, body[2] = 4, body[3] = 77, body[4] = 81,
         body[5] = 84, body[6] = 84, body[7] = 4
  PROVE  SubSeq(body, 1, 7) = <<0, 4, 77, 81, 84, 84, 4>>
<1>1. PICK t : t = <<0, 4, 77, 81, 84, 84, 4>>
  OBVIOUS
<1>2. /\ 0 \in Octet /\ 4 \in Octet /\ 77 \in Octet /\ 81 \in Octet /\ 84 \in Octet
  BY OctetIs
<1>3. t \in Seq(Octet) /\ Len(t) = 7
  BY <1>1, <1>2
<1>4. t[1] = 0 /\ t[2] = 4 /\ t[3] = 77 /\ t[4] = 81 /\ t[5] = 84 /\ t[6] = 84 /\ t[7] = 4
  BY <1>1
<1>5. \A i \in 1..Len(t) : body[0 + i] = t[i]
  <2> SUFFICES ASSUME NEW i \in 1..Len(t) PROVE body[0 + i] = t[i]
    OBVIOUS
  <2>1. i = 1 \/ i = 2 \/ i = 3 \/ i = 4 \/ i = 5 \/ i = 6 \/ i = 7
    BY <1>3
  <2>2. 0 + i = i
    BY <1>3
  <2>3. body[i] = t[i]
    BY <1>4, <2>1
  <2> QED BY <2>2, <2>3
<1>6. 0 \in Nat /\ 0 + Len(t) <= Len(body) /\ 0 + 1 = 1 /\ 0 + Len(t) = 7
  BY <1>3
<1>7. SubSeq(body, 0 + 1, 0 + Len(t)) = t
  BY <1>3, <1>5, <1>6, SubSeqIs
<1> QED BY <1>1, <1>6, <1>7

ConnectBodyRight(c, body, S) ==
  /\ SubSeq(body, 1, 7) = <<0, 4, 77, 81, 84, 84, 4>> /\ body[8] = ConnectFlags(c)
  /\ UINT16_DECODE(From(body, 9)) = c.keepAlive /\ From(body, 11) = S
LEMMA ConnectBody ==
  ASSUME NEW c \in ConnectInfo, NEW R \in Length, NEW S \in Seq(Octet)
  PROVE  /\ MQTT_SerializeConnectFixedHeader(c, R) \in Seq(Octet)
         /\ \E body \in Seq(Octet) :
              /\ MQTT_SerializeConnectFixedHeader(c, R) \o S = FixedHeader(16, R) \o body
              /\ Len(body) = 10 + Len(S) /\ ConnectBodyRight(c, body, S)
<1>1. c.keepAlive \in Word
  BY DEF ConnectInfo
<1>2. 16 \in Octet /\ 4 \in Octet
  BY OctetIs
<1>3. PICK F \in Seq(Octet) : F = FixedHeader(16, R)
  BY <1>2, FixedHeaderFacts
<1>4. PICK E \in Seq(Octet) : E = encodeString(<<77, 81, 84, 84>>) /\ E = <<0, 4, 77, 81, 84, 84>>
  BY ProtocolName
<1>5. Len(E) = 6 /\ E[1] = 0 /\ E[2] = 4 /\ E[3] = 77 /\ E[4] = 81 /\ E[5] = 84 /\ E[6] = 84
  BY <1>4
<1>6. PICK flags \in Octet : flags = ConnectFlags(c)
  BY ConnectFlagsRight
<1>7. PICK V \in Seq(Octet) : V = <<4, flags>>
  <2>1. PICK v : v = <<4, flags>>
    OBVIOUS
  <2>2. v \in Seq(Octet)
    BY <1>2, <2>1
  <2> QED BY <2>1, <2>2
<1>8. Len(V) = 2 /\ V[1] = 4 /\ V[2] = flags
  BY <1>7
<1>9. PICK K \in Seq(Octet) : K = UINT16(c.keepAlive) /\ Len(K) = 2
  BY <1>1, UINT16Facts
<1>10. PICK head : head = MQTT_SerializeConnectFixedHeader(c, R)
  OBVIOUS
<1>11. head = ((F \o E) \o V) \o K
  <2>1. Type.CONNECT = 16
    BY DEF Type
  <2>2. head = ((FixedHeader(Type.CONNECT, R) \o encodeString(<<77, 81, 84, 84>>)) \o <<4, ConnectFlags(c)>>) \o UINT16(c.keepAlive)
    BY <1>10 DEF MQTT_SerializeConnectFixedHeader, ConnectFlags
  <2> QED BY <1>3, <1>4, <1>6, <1>7, <1>9, <2>1, <2>2
<1>12. head \in Seq(Octet)
  <2>1. PICK x : Joined(x, F, E)
    BY DEF Joined
  <2>2. x \in Seq(Octet)
    BY <2>1, JoinedPlaces DEF Places
  <2>3. PICK y : Joined(y, x, V)
    BY DEF Joined
  <2>4. y \in Seq(Octet)
    BY <2>2, <2>3, JoinedPlaces DEF Places
  <2>5. Joined(head, y, K)
    BY <1>11, <2>1, <2>3 DEF Joined
  <2> QED BY <2>4, <2>5, JoinedPlaces DEF Places
<1>13. PICK a : Joined(a, K, S)
  BY DEF Joined
<1>14. PICK b : Joined(b, V, a)
  BY DEF Joined
<1>15. PICK body : Joined(body, E, b)
  BY DEF Joined
<1>16. Places(Octet, a, K, S)
  BY <1>13, JoinedPlaces
<1>17. a \in Seq(Octet) /\ Len(a) = 2 + Len(S) /\ Len(S) \in Nat
  BY <1>9, <1>16 DEF Places
<1>18. Places(Octet, b, V, a)
  BY <1>14, <1>17, JoinedPlaces
<1>19. b \in Seq(Octet) /\ Len(b) = 4 + Len(S)
  <2>1. b \in Seq(Octet) /\ Len(b) = 2 + Len(a)
    BY <1>8, <1>18 DEF Places
  <2> QED BY <1>17, <2>1
<1>20. Places(Octet, body, E, b)
  BY <1>15, <1>19, JoinedPlaces
<1>21. body \in Seq(Octet) /\ Len(body) = 10 + Len(S)
  <2>1. body \in Seq(Octet) /\ Len(body) = 6 + Len(b)
    BY <1>5, <1>20 DEF Places
  <2> QED BY <1>17, <1>19, <2>1
<1>22. head \o S = F \o body
  <2>1. SameFive(F, E, V, K, S)
    BY JoinFive
  <2> QED BY <1>11, <1>13, <1>14, <1>15, <2>1 DEF SameFive, Joined
<1>23. \A i \in 1..6 : body[i] = E[i]
  BY <1>5, <1>20 DEF Places
<1>24. \A i \in 1..Len(b) : body[6 + i] = b[i]
  BY <1>5, <1>20 DEF Places
<1>25. body[7] = 4 /\ body[8] = flags
  <2>1. 1 \in 1..Len(b) /\ 2 \in 1..Len(b) /\ 1 \in 1..Len(V) /\ 2 \in 1..Len(V)
    BY <1>8, <1>17, <1>19
  <2>2. body[6 + 1] = b[1] /\ body[6 + 2] = b[2]
    BY <1>24, <2>1
  <2>3. b[1] = V[1] /\ b[2] = V[2]
    BY <1>18, <2>1 DEF Places
  <2> QED BY <1>8, <2>2, <2>3
<1>26. SubSeq(body, 1, 7) = <<0, 4, 77, 81, 84, 84, 4>>
  <2>1. body[1] = 0 /\ body[2] = 4 /\ body[3] = 77 /\ body[4] = 81 /\ body[5] = 84 /\ body[6] = 84
    BY <1>5, <1>23
  <2>2. Len(body) >= 7
    BY <1>17, <1>21
  <2> QED BY <1>21, <1>25, <2>1, <2>2, ProtocolHead
<1>27. PICK d : Joined(d, E, V)
  BY DEF Joined
<1>28. d \in Seq(Octet) /\ Len(d) = 8
  <2>1. Places(Octet, d, E, V)
    BY <1>27, JoinedPlaces
  <2> QED BY <1>5, <1>8, <2>1 DEF Places
<1>29. From(body, 9) = a
  <2>1. body = d \o a
    <3>1. SameThree(E, V, a)
      BY <1>17, JoinThree
    <3> QED BY <1>14, <1>15, <1>27, <3>1 DEF SameThree, Joined
  <2>2. From(d \o a, Len(d) + 1) = a
    BY <1>17, <1>28, FromJoined
  <2> QED BY <1>28, <2>1, <2>2
<1>30. UINT16_DECODE(a) = c.keepAlive
  <2>1. UINT16_DECODE(UINT16(c.keepAlive) \o S) = c.keepAlive
    BY <1>1, Decode16
  <2> QED BY <1>9, <1>13, <2>1 DEF Joined
<1>31. From(body, 11) = S
  <2>1. PICK e : Joined(e, d, K)
    BY DEF Joined
  <2>2. e \in Seq(Octet) /\ Len(e) = 10
    <3>1. Places(Octet, e, d, K)
      BY <1>28, <2>1, JoinedPlaces
    <3> QED BY <1>9, <1>28, <3>1 DEF Places
  <2>3. body = e \o S
    <3>1. SameFour(E, V, K, S)
      BY JoinFour
    <3> QED BY <1>13, <1>14, <1>15, <1>27, <2>1, <3>1 DEF SameFour, Joined
  <2>4. From(e \o S, Len(e) + 1) = S
    BY <2>2, FromJoined
  <2> QED BY <2>2, <2>3, <2>4
<1>32. ConnectBodyRight(c, body, S)
  BY <1>6, <1>25, <1>26, <1>29, <1>30, <1>31 DEF ConnectBodyRight
<1> QED BY <1>3, <1>10, <1>12, <1>21, <1>22, <1>32

LEMMA AtMost ==
  ASSUME NEW x \in 1..5
  PROVE  \E k \in Nat : k = x /\ k <= 5
<1>1. x \in Nat /\ x <= 5
  OBVIOUS
<1> QED BY <1>1

LEMMA ConnectSize ==
  ASSUME NEW c \in ConnectInfo, c.clientId # <<>>, c.will # <<>> => c.will[1].payload \in Text
  PROVE  LET S == Concat(EncodedStrings(ConnectStrings(c))) IN
         /\ S \in Seq(Octet)
         /\ \E n \in Length : n = 10 + Len(S) /\ MQTT_GetConnectPacketSize(c) = Sizes(n)
<1>1. PICK cs : cs = ConnectStrings(c)
  OBVIOUS
<1>2. cs \in Seq(Text) /\ Len(cs) \in 1..5
  <2>1. ConnectPlaces(c, cs)
    BY <1>1, ConnectStringsAre
  <2> QED BY <2>1 DEF ConnectPlaces
<1>3. cs \in Seq(Text)
  BY <1>2
<1>4. PICK parts : parts = EncodedStrings(cs)
  OBVIOUS
<1>5. parts \in Seq(Seq(Octet)) /\ Len(parts) = Len(cs)
  BY <1>3, <1>4, EncodedStringsAre
<1>6. parts \in Seq(Seq(Octet))
  BY <1>5
<1>7. PICK S \in Seq(Octet) : S = Concat(parts)
  BY <1>6, ConcatType
<1>8. PICK N : N = [i \in DOMAIN parts |-> Len(parts[i])]
  OBVIOUS
<1>9. Len(S) = Total(N)
  BY <1>6, <1>7, <1>8, LenConcat
<1>10. PICK k \in Nat : k = Len(cs) /\ k <= 5
  BY <1>2, AtMost
<1>11. \A i \in 1..k : Len(parts[i]) = Len(cs[i]) + 2 /\ Len(cs[i]) \in Word
  <2> SUFFICES ASSUME NEW i \in 1..k PROVE Len(parts[i]) = Len(cs[i]) + 2 /\ Len(cs[i]) \in Word
    OBVIOUS
  <2>1. i \in DOMAIN cs
    BY <1>3, <1>10
  <2>2. cs[i] \in Text
    BY <1>3, <1>10
  <2>3. parts[i] = encodeString(cs[i])
    BY <1>4, <2>1 DEF EncodedStrings
  <2>4. Len(cs[i]) \in Word
    BY <2>2, TextIs
  <2> QED BY <2>2, <2>3, <2>4, EncodedString
<1>12. DOMAIN parts = 1..k /\ DOMAIN cs = 1..k
  BY <1>3, <1>5, <1>10
<1>13. N = [i \in 1..k |-> Len(cs[i]) + 2]
  BY <1>8, <1>11, <1>12
<1>14. \A i \in 1..k : Len(cs[i]) + 2 \in Int /\ Len(cs[i]) + 2 >= 0 /\ Len(cs[i]) + 2 <= 65537
  <2> SUFFICES ASSUME NEW i \in 1..k PROVE Len(cs[i]) + 2 \in Int /\ Len(cs[i]) + 2 >= 0 /\ Len(cs[i]) + 2 <= 65537
    OBVIOUS
  <2>1. Len(cs[i]) \in Nat /\ Len(cs[i]) <= 65535
    BY <1>11, WordIs
  <2> QED BY <2>1
<1>15. N \in Seq(Int) /\ Len(N) = k
  <2>1. N \in [1..k -> Int]
    BY <1>13, <1>14
  <2> QED BY <2>1, SeqOf
<1>16. AllSmall(N)
  <2>1. \A i \in 1..k : N[i] >= 0 /\ N[i] <= 65537
    BY <1>13, <1>14
  <2> QED BY <1>15, <2>1 DEF AllSmall
<1>17. N \in Seq(Int)
  BY <1>15
<1>18. PICK t : t = Total(N)
  OBVIOUS
<1>19. t >= 0 /\ t <= k * 65537 /\ t \in Nat
  <2>1. t >= 0 /\ t <= Len(N) * 65537
    BY <1>16, <1>17, <1>18, TotalBounded
  <2>2. Len(S) \in Nat
    OBVIOUS
  <2> QED BY <1>9, <1>15, <1>18, <2>1, <2>2
<1>20. PICK n : n = 10 + t
  OBVIOUS
<1>21. n \in Length
  <2>1. t <= 327685
    BY <1>10, <1>19
  <2>2. n \in Nat /\ n <= 268435455
    BY SMT, <1>19, <1>20, <2>1
  <2> QED BY <2>2, LengthIs
<1>22. MQTT_GetConnectPacketSize(c) = Sizes(n)
  <2>1. ~(c.will # <<>> /\ Len(c.will[1].payload) > 65535)
    <3> SUFFICES ASSUME c.will # <<>> PROVE ~(Len(c.will[1].payload) > 65535)
      OBVIOUS
    <3>1. c.will[1].payload \in Text
      OBVIOUS
    <3>2. Len(c.will[1].payload) \in Word
      BY <3>1, TextIs
    <3>3. PICK m : m = Len(c.will[1].payload)
      OBVIOUS
    <3>4. m \in Nat /\ m <= 65535
      BY <3>2, <3>3, WordIs
    <3>5. ~(m > 65535)
      BY <3>4
    <3> QED BY <3>3, <3>5
  <2>2. [i \in DOMAIN ConnectStrings(c) |-> Len(ConnectStrings(c)[i]) + 2] = N
    BY <1>1, <1>12, <1>13
  <2>3. MQTT_GetConnectPacketSize(c) = Sizes(10 + Total(N))
    BY <2>1, <2>2 DEF MQTT_GetConnectPacketSize
  <2> QED BY <1>18, <1>20, <2>3
<1>23. n = 10 + Len(S)
  BY <1>9, <1>18, <1>20
<1> QED BY <1>1, <1>4, <1>7, <1>21, <1>22, <1>23

LEMMA ConnectRefused ==
  ASSUME NEW c \in ConnectInfo, c.clientId = <<>> \/ (c.will # <<>> /\ c.will[1].payload \notin Text)
  PROVE  MQTT_GetConnectPacketSize(c) = Refused
<1>1. CASE c.clientId = <<>>
  BY <1>1 DEF MQTT_GetConnectPacketSize
<1>2. CASE c.will # <<>> /\ c.will[1].payload \notin Text
  <2>1. c.will \in Optional(PublishInfo)
    BY DEF ConnectInfo
  <2>2. PICK w : w = c.will
    OBVIOUS
  <2>3. w \in Seq(PublishInfo) /\ w # <<>>
    BY <1>2, <2>1, <2>2, OptionalIs
  <2>4. w[1] \in PublishInfo
    BY <2>3
  <2>5. PICK s \in Seq(Octet) : s = c.will[1].payload
    BY <2>2, <2>4 DEF PublishInfo
  <2>6. PICK m \in Nat : m = Len(s)
    OBVIOUS
  <2>7. ~(m <= 65535)
    <3>1. Len(s) \notin Word
      BY <1>2, <2>5, TextIs
    <3> QED BY <2>6, <3>1, WordIs
  <2>8. m > 65535
    BY <2>7
  <2>9. Len(c.will[1].payload) > 65535
    BY <2>5, <2>6, <2>8
  <2> QED BY <1>2, <2>9 DEF MQTT_GetConnectPacketSize
<1> QED BY <1>1, <1>2

\* The vectors of a CONNECT, end to end.
LEMMA ConnectVectors ==
  ASSUME NEW c \in ConnectInfo, NEW n \in Length, c.will # <<>> => c.will[1].payload \in Text
  PROVE  Concat(sendConnectWithoutCopy(c, n))
           = MQTT_SerializeConnectFixedHeader(c, n) \o Concat(EncodedStrings(ConnectStrings(c)))
<1>1. PICK cs : cs = ConnectStrings(c)
  OBVIOUS
<1>2. cs \in Seq(Text)
  <2>1. ConnectPlaces(c, cs)
    BY <1>1, ConnectStringsAre
  <2> QED BY <2>1 DEF ConnectPlaces
<1>3. PICK k \in Nat : k = Len(cs)
  BY <1>2
<1>4. DOMAIN cs = 1..k
  BY <1>2, <1>3
<1>5. PICK G : G = [i \in DOMAIN cs |-> addEncodedStringToVector(cs[i])]
  OBVIOUS
<1>6. \A i \in 1..k : addEncodedStringToVector(cs[i]) \in Seq(Seq(Octet)) /\ Concat(addEncodedStringToVector(cs[i])) = encodeString(cs[i])
  <2> SUFFICES ASSUME NEW i \in 1..k
               PROVE  addEncodedStringToVector(cs[i]) \in Seq(Seq(Octet)) /\ Concat(addEncodedStringToVector(cs[i])) = encodeString(cs[i])
    OBVIOUS
  <2>1. cs[i] \in Text
    BY <1>2, <1>3
  <2> QED BY <2>1, StringVectors
<1>7. G \in Seq(Seq(Seq(Octet)))
  <2>1. G \in [1..k -> Seq(Seq(Octet))]
    BY <1>4, <1>5, <1>6
  <2> QED BY <2>1, SeqOf
<1>8. PICK D \in Seq(Seq(Octet)) : D = Concat(G)
  BY <1>7, ConcatType
<1>9. Concat(D) = Concat([i \in DOMAIN G |-> Concat(G[i])])
  BY <1>7, <1>8, ConcatFlat
<1>10. [i \in DOMAIN G |-> Concat(G[i])] = EncodedStrings(cs)
  BY <1>4, <1>5, <1>6 DEF EncodedStrings
<1>11. PICK H \in Seq(Octet) : H = MQTT_SerializeConnectFixedHeader(c, n)
  <2>1. <<>> \in Seq(Octet)
    BY EmptySeq
  <2> QED BY <2>1, ConnectBody
<1>12. <<H>> \in Seq(Seq(Octet)) /\ Concat(<<H>>) = H
  BY Single, ConcatOne
<1>13. PICK h : h = <<H>>
  OBVIOUS
<1>14. h \in Seq(Seq(Octet))
  BY <1>12, <1>13
<1>15. Concat(h \o D) = Concat(h) \o Concat(D)
  BY <1>14, ConcatConcat
<1>16. sendConnectWithoutCopy(c, n) = h \o D
  BY <1>1, <1>5, <1>8, <1>11, <1>13 DEF sendConnectWithoutCopy
<1> QED BY <1>1, <1>9, <1>10, <1>11, <1>12, <1>13, <1>15, <1>16

\* A CONNECT is read back, flag by flag and string by string.
LEMMA ConnectIsRight ==
  ASSUME NEW c \in ConnectInfo
  PROVE  ConnectRight(c)
<1>1. PICK size : size = MQTT_GetConnectPacketSize(c)
  OBVIOUS
<1> DEFINE Whole(buffer) == MQTT_SerializeConnect(c, size.remaining, buffer)
           Refusal == c.clientId = <<>> \/ (c.will # <<>> /\ c.will[1].payload \notin Text)
           count(will) == 1 + (IF will THEN 2 ELSE 0) + Len(c.user) + Len(c.password)
           Reads(body, payload, will, n, strings) ==
             /\ SubSeq(body, 1, 7) = <<0, 4, 77, 81, 84, 84, 4>>
             /\ CheckBit(body[8], 1) = c.cleanSession /\ UINT16_DECODE(From(body, 9)) = c.keepAlive
             /\ ~CheckBit(body[8], 0)
             /\ CheckBit(body[8], 7) = (c.user # <<>>) /\ CheckBit(body[8], 6) = (c.password # <<>>)
             /\ will = (c.will # <<>>)
             /\ IF will THEN (body[8] \div 8) % 4 = c.will[1].qos /\ CheckBit(body[8], 5) = c.will[1].retain
                        ELSE (body[8] \div 8) % 8 = 0
             /\ AreAll(payload, n, 0) /\ strings[1] = c.clientId
             /\ will => strings[2] = c.will[1].topic /\ strings[3] = c.will[1].payload
             /\ c.password # <<>> => strings[n] = c.password[1]
             /\ c.user # <<>> => strings[IF will THEN 4 ELSE 2] = c.user[1]
           Good(bytes, body, payload, will) ==
             /\ HeaderRight(bytes, 16, size.remaining) /\ Len(bytes) = size.packet
             /\ Reads(body, payload, will, count(will), Strings(payload, count(will), 0))
             /\ bytes = Concat(sendConnectWithoutCopy(c, size.remaining))
             /\ Whole(size.packet - 1) = [status |-> "MQTTNoMemory"]
           Goodness == LET bytes == Whole(size.packet).bytes
                           body == Body(bytes)
                       IN Good(bytes, body, From(body, 11), CheckBit(body[8], 2))
<1>2. ASSUME Refusal PROVE size = Refused
  BY <1>1, <1>2, ConnectRefused
<1>3. ASSUME ~Refusal PROVE Goodness
  <2>1. PICK cs : cs = ConnectStrings(c)
    OBVIOUS
  <2>2. ConnectPlaces(c, cs)
    BY <1>3, <2>1, ConnectStringsAre
  <2>3. cs \in Seq(Text)
    BY <2>2 DEF ConnectPlaces
  <2>4. PICK parts : parts = EncodedStrings(cs)
    OBVIOUS
  <2>5. PICK S \in Seq(Octet) : S = Concat(parts)
    BY <1>3, <2>1, <2>4, ConnectSize
  <2>6. PICK R \in Length : R = 10 + Len(S) /\ size = Sizes(R)
    BY <1>1, <1>3, <2>1, <2>4, <2>5, ConnectSize
  <2>7. R \in Nat
    BY LengthIs
  <2>8. size.remaining = R
    BY <2>6, <2>7, SizesFacts
  <2>9. PICK k \in Nat : k = size.packet /\ k = 1 + remainingLengthEncodedSize(R) + R /\ k - 1 \in Nat
    BY <2>6, <2>7, SizesFacts
  <2>10. PICK head : head = MQTT_SerializeConnectFixedHeader(c, R)
    OBVIOUS
  <2>11. PICK body \in Seq(Octet) : head \o S = FixedHeader(16, R) \o body /\ Len(body) = 10 + Len(S) /\ ConnectBodyRight(c, body, S)
    BY <2>10, ConnectBody
  <2>12. PICK w : w = head \o S
    OBVIOUS
  <2>13. w = FixedHeader(16, R) \o body
    BY <2>11, <2>12
  <2>14. 16 \in Octet
    BY OctetIs
  <2>15. HeaderRight(w, 16, R)
    BY <2>6, <2>11, <2>13, <2>14, HeaderIsRight
  <2>16. Len(w) = k
    <3>1. Len(w) = 1 + remainingLengthEncodedSize(R) + Len(body)
      BY <2>13, <2>14, PacketFacts
    <3> QED BY <2>6, <2>9, <2>11, <3>1
  <2>17. Body(w) = body
    BY <2>13, <2>14, BodyOf
  <2>18. \A b : Whole(b) = Serialize(w, k, b)
    <3>1. serializeConnectPacket(c, R) = w
      BY <2>1, <2>4, <2>5, <2>10, <2>12 DEF serializeConnectPacket, EncodedStrings
    <3> QED BY <2>6, <2>8, <2>9, <3>1 DEF MQTT_SerializeConnect
  <2>19. Whole(size.packet).bytes = w /\ Whole(size.packet - 1) = [status |-> "MQTTNoMemory"]
    <3>1. k <= k /\ k > k - 1
      OBVIOUS
    <3>2. Serialize(w, k, k).bytes = w /\ Serialize(w, k, k - 1) = [status |-> "MQTTNoMemory"]
      BY <2>9, <3>1, Serialized
    <3>3. Whole(k) = Serialize(w, k, k) /\ Whole(k - 1) = Serialize(w, k, k - 1)
      BY <2>18
    <3> QED BY <2>9, <3>2, <3>3
  <2> HIDE DEF Whole
  <2>20. PICK flags : flags = body[8] /\ flags = ConnectFlags(c)
    BY <2>11 DEF ConnectBodyRight
  <2>21. FlagsRight(c, flags)
    BY <2>20, ConnectFlagsRight
  <2>22. PICK will : will = (c.will # <<>>)
    OBVIOUS
  <2>23. CheckBit(flags, 2) = will
    BY <2>21, <2>22 DEF FlagsRight
  <2>24. PICK n \in Nat : n = Len(cs)
    BY <2>3
  <2>25. count(will) = n
    BY <2>2, <2>22, <2>24 DEF ConnectPlaces
  <2>26. PICK extras : extras = [i \in DOMAIN cs |-> <<>>]
    OBVIOUS
  <2>27. Fields(parts, cs, extras, 0) /\ n = Len(parts)
    BY <2>3, <2>4, <2>24, <2>26, EncodedStringsAre
  <2>28. FieldsReadBack(S, parts, cs, extras, n, 0)
    BY <2>5, <2>27, FieldsRead
  <2>29. AreAll(S, n, 0) /\ Strings(S, n, 0) = [i \in 1..n |-> cs[i]]
    BY <2>28 DEF FieldsReadBack
  <2>30. Strings(S, n, 0) = cs
    <3>1. cs = [i \in 1..n |-> cs[i]]
      BY <2>3, <2>24
    <3> QED BY <2>29, <3>1
  <2>31. Reads(body, S, will, n, cs)
    <3>1. /\ SubSeq(body, 1, 7) = <<0, 4, 77, 81, 84, 84, 4>>
          /\ UINT16_DECODE(From(body, 9)) = c.keepAlive
      BY <2>11 DEF ConnectBodyRight
    <3>2. /\ CheckBit(body[8], 1) = c.cleanSession
          /\ ~CheckBit(body[8], 0)
          /\ CheckBit(body[8], 7) = (c.user # <<>>) /\ CheckBit(body[8], 6) = (c.password # <<>>)
      BY <2>20, <2>21 DEF FlagsRight
    <3>3. IF will THEN (body[8] \div 8) % 4 = c.will[1].qos /\ CheckBit(body[8], 5) = c.will[1].retain
                  ELSE (body[8] \div 8) % 8 = 0
      BY <2>20, <2>21, <2>22 DEF FlagsRight
    <3>4. /\ cs[1] = c.clientId
          /\ will => cs[2] = c.will[1].topic /\ cs[3] = c.will[1].payload
          /\ c.password # <<>> => cs[n] = c.password[1]
          /\ c.user # <<>> => cs[IF will THEN 4 ELSE 2] = c.user[1]
      BY <2>2, <2>22, <2>24 DEF ConnectPlaces
    <3> QED BY <2>22, <2>29, <3>1, <3>2, <3>3, <3>4
  <2>32. w = Concat(sendConnectWithoutCopy(c, size.remaining))
    BY <1>3, <2>1, <2>4, <2>5, <2>8, <2>10, <2>12, ConnectVectors
  <2>33. From(body, 11) = S
    BY <2>11 DEF ConnectBodyRight
  <2> HIDE DEF Reads
  <2>34. Good(w, body, S, will)
    <3>1. Reads(body, S, will, count(will), Strings(S, count(will), 0))
      BY <2>25, <2>30, <2>31
    <3> HIDE DEF count
    <3> QED BY <2>8, <2>9, <2>15, <2>16, <2>19, <2>32, <3>1
  <2> HIDE DEF Good
  <2>35. Good(w, Body(w), From(Body(w), 11), CheckBit(Body(w)[8], 2))
    BY <2>17, <2>20, <2>23, <2>33, <2>34
  <2> QED BY <2>19, <2>35
<1>4. IF Refusal THEN size = Refused ELSE Goodness
  BY <1>2, <1>3
<1>5. ConnectRight(c)
  BY <1>1, <1>4 DEF ConnectRight, Fits
<1> QED BY <1>5

-----------------------------------------------------------------------------
(* SUBSCRIBE and UNSUBSCRIBE *)

\* The calls so far and the vectors filled for the next one; a topic is added
\* to them, or else opens the call after.
Calls(S) == [sent : Seq(Seq(S)), filled : Seq(S)]
Pushed(b, topic, room) ==
  IF Len(b.filled) <= room THEN [sent |-> b.sent, filled |-> b.filled \o topic]
  ELSE [sent |-> Append(b.sent, b.filled), filled |-> topic]
SentBy(b) == Concat(b.sent) \o b.filled
Fit(calls, max) == \A i \in 1..Len(calls) : Len(calls[i]) <= max
CallFits(b, max) == Fit(b.sent, max) /\ Len(b.filled) <= max

LEMMA PushedType ==
  ASSUME NEW S, NEW b \in Calls(S), NEW t \in Seq(S), NEW room
  PROVE  Pushed(b, t, room) \in Calls(S)
<1>1. b.sent \in Seq(Seq(S)) /\ b.filled \in Seq(S)
  BY DEF Calls
<1>2. CASE Len(b.filled) <= room
  <2>1. b.filled \o t \in Seq(S)
    BY <1>1, ConcatProperties
  <2>2. Pushed(b, t, room) = [sent |-> b.sent, filled |-> b.filled \o t]
    BY <1>2 DEF Pushed
  <2> QED BY <1>1, <2>1, <2>2 DEF Calls
<1>3. CASE ~(Len(b.filled) <= room)
  <2>1. Append(b.sent, b.filled) \in Seq(Seq(S))
    BY <1>1, AppendProperties
  <2>2. Pushed(b, t, room) = [sent |-> Append(b.sent, b.filled), filled |-> t]
    BY <1>3 DEF Pushed
  <2> QED BY <2>1, <2>2 DEF Calls
<1> QED BY <1>2, <1>3

LEMMA PushedSends ==
  ASSUME NEW S, NEW b \in Calls(S), NEW t \in Seq(S), NEW room
  PROVE  SentBy(b) \in Seq(S) /\ SentBy(Pushed(b, t, room)) = SentBy(b) \o t
<1>1. b.sent \in Seq(Seq(S)) /\ b.filled \in Seq(S)
  BY DEF Calls
<1>2. PICK A : A = Concat(b.sent)
  OBVIOUS
<1>3. A \in Seq(S)
  BY <1>1, <1>2, ConcatType
<1>4. PICK f \in Seq(S) : f = b.filled
  BY <1>1
<1>5. A \o f \in Seq(S)
  BY <1>3, ConcatProperties
<1>6. CASE Len(b.filled) <= room
  <2>1. Pushed(b, t, room) = [sent |-> b.sent, filled |-> f \o t]
    BY <1>4, <1>6 DEF Pushed
  <2>2. SentBy(Pushed(b, t, room)) = A \o (f \o t)
    BY <1>2, <2>1 DEF SentBy
  <2>3. SameThree(A, f, t)
    BY <1>3, JoinThree
  <2> QED BY <1>2, <1>4, <1>5, <2>2, <2>3 DEF SentBy, SameThree
<1>7. CASE ~(Len(b.filled) <= room)
  <2>1. Pushed(b, t, room) = [sent |-> Append(b.sent, f), filled |-> t]
    BY <1>4, <1>7 DEF Pushed
  <2>2. Concat(Append(b.sent, f)) = A \o f
    BY <1>1, <1>2, <1>4, ConcatAppend
  <2>3. PICK u : u = Pushed(b, t, room)
    OBVIOUS
  <2>4. u.sent = Append(b.sent, f) /\ u.filled = t
    BY <2>1, <2>3
  <2>5. SentBy(u) = (A \o f) \o t
    BY <2>2, <2>4 DEF SentBy
  <2>6. SentBy(b) = A \o f
    BY <1>2, <1>4 DEF SentBy
  <2> QED BY <1>5, <2>3, <2>5, <2>6
<1> QED BY <1>6, <1>7

LEMMA FitAppend ==
  ASSUME NEW S, NEW calls \in Seq(Seq(S)), NEW e \in Seq(S), NEW max, Fit(calls, max), Len(e) <= max
  PROVE  Fit(Append(calls, e), max)
<1>1. PICK g : g = Append(calls, e)
  OBVIOUS
<1>2. PICK n \in Nat : n = Len(calls)
  OBVIOUS
<1>3. Len(g) = n + 1 /\ g[n + 1] = e /\ \A i \in 1..n : g[i] = calls[i]
  BY <1>1, <1>2, AppendProperties
<1>4. \A i \in 1 .. n + 1 : i = n + 1 \/ i \in 1..n
  OBVIOUS
<1>5. ASSUME NEW i \in 1 .. n + 1 PROVE Len(g[i]) <= max
  BY <1>2, <1>3, <1>4 DEF Fit
<1> QED BY <1>1, <1>3, <1>5 DEF Fit

LEMMA PushedFits ==
  ASSUME NEW S, NEW b \in Calls(S), NEW t \in Seq(S), NEW room \in Int, NEW max \in Nat,
         CallFits(b, max), Len(t) <= max, room + Len(t) <= max
  PROVE  CallFits(Pushed(b, t, room), max)
<1>1. b.sent \in Seq(Seq(S)) /\ b.filled \in Seq(S)
  BY DEF Calls
<1>2. CASE Len(b.filled) <= room
  <2>1. PICK f \in Seq(S) : f = b.filled
    BY <1>1
  <2>2. PICK u : u = f \o t
    OBVIOUS
  <2>3. Len(u) = Len(f) + Len(t) /\ Len(f) \in Nat /\ Len(t) \in Nat
    BY <2>2, ConcatProperties
  <2>4. Len(f) <= room
    BY <1>2, <2>1
  <2>5. Len(u) <= max
    BY <2>3, <2>4
  <2>6. Pushed(b, t, room) = [sent |-> b.sent, filled |-> u]
    BY <1>2, <2>1, <2>2 DEF Pushed
  <2> QED BY <2>5, <2>6 DEF CallFits
<1>3. CASE ~(Len(b.filled) <= room)
  <2>1. Pushed(b, t, room) = [sent |-> Append(b.sent, b.filled), filled |-> t]
    BY <1>3 DEF Pushed
  <2>2. Fit(Append(b.sent, b.filled), max)
    BY <1>1, FitAppend DEF CallFits
  <2> QED BY <2>1, <2>2 DEF CallFits
<1> QED BY <1>2, <1>3

Pushes(f, vectors, topics, room) ==
  /\ f[0] = [sent |-> <<>>, filled |-> vectors]
  /\ \A k \in 1..Len(topics) : f[k] = Pushed(f[k - 1], topics[k], room)
LEMMA BatchesAre ==
  ASSUME NEW S, NEW vectors \in Seq(S), NEW topics \in Seq(Seq(S)), NEW room
  PROVE  \E f \in [0..Len(topics) -> Calls(S)] :
           /\ Batches(vectors, topics, room) = Append(f[Len(topics)].sent, f[Len(topics)].filled)
           /\ Pushes(f, vectors, topics, room)
<1> DEFINE push(b, t) == IF Len(b.filled) <= room THEN [sent |-> b.sent, filled |-> b.filled \o t]
                         ELSE [sent |-> Append(b.sent, b.filled), filled |-> t]
<1>1. PICK n \in Nat : n = Len(topics)
  OBVIOUS
<1>2. PICK step : step = [k \in 1..n |-> [b \in Calls(S) |-> push(b, topics[k])]]
  OBVIOUS
<1>3. \A k \in 1..n : \A b \in Calls(S) : push(b, topics[k]) \in Calls(S)
  <2>1. \A k \in 1..n : topics[k] \in Seq(S)
    BY <1>1
  <2>2. \A k \in 1..n : \A b \in Calls(S) : Pushed(b, topics[k], room) \in Calls(S)
    BY <2>1, PushedType
  <2> QED BY <2>2 DEF Pushed
<1>4. PICK first : first = [sent |-> <<>>, filled |-> vectors]
  OBVIOUS
<1>5. first \in Calls(S)
  <2>1. <<>> \in Seq(Seq(S))
    BY EmptySeq
  <2> QED BY <1>4, <2>1 DEF Calls
<1> DEFINE Is(g) == g = [k \in 0..n |-> IF k = 0 THEN first ELSE push(g[k - 1], topics[k])]
<1>6. PICK g : g = CHOOSE h : Is(h)
  OBVIOUS
<1>7. Batches(vectors, topics, room) = Append(g[n].sent, g[n].filled)
  BY <1>1, <1>4, <1>6 DEF Batches
<1>8. \E f \in [0..n -> Calls(S)] : g[n] = f[n] /\ f[0] = first /\ \A k \in 1..n : f[k] = push(f[k - 1], topics[k])
  <2> HIDE DEF push
  <2>1. step \in [1..n -> [Calls(S) -> Calls(S)]]
    BY <1>2, <1>3
  <2>2. PICK f \in [0..n -> Calls(S)] : Iterated(f, first, n, step)
    BY <1>5, <2>1, Iterates
  <2>3. \A k \in 1..n : f[k - 1] \in Calls(S)
    OBVIOUS
  <2>4. f[0] = first /\ \A k \in 1..n : f[k] = push(f[k - 1], topics[k])
    BY <1>2, <2>2, <2>3 DEF Iterated
  <2>5. f = [k \in 0..n |-> IF k = 0 THEN first ELSE push(f[k - 1], topics[k])]
    BY <2>4
  <2>6. Is(g)
    <3>1. Is(f)
      BY <2>5
    <3> HIDE DEF Is
    <3> QED BY <1>6, <3>1
  <2>7. PICK T : T = {k \in 0..n : g[k] = f[k]}
    OBVIOUS
  <2>8. 0 \in T
    BY <2>4, <2>6, <2>7
  <2>9. ASSUME NEW k \in 0..n - 1, k \in T PROVE k + 1 \in T
    <3>1. k + 1 \in 0..n /\ k + 1 # 0 /\ k + 1 \in 1..n /\ k + 1 - 1 = k
      OBVIOUS
    <3>2. g[k + 1] = push(g[k], topics[k + 1])
      BY <2>6, <3>1
    <3>3. f[k + 1] = push(f[k], topics[k + 1])
      BY <2>4, <3>1
    <3> QED BY <2>7, <2>9, <3>1, <3>2, <3>3
  <2>10. \A k \in 0..n : k \in T
    BY <2>8, <2>9, InductionTo
  <2>11. g[n] = f[n]
    BY <2>7, <2>10
  <2> QED BY <2>4, <2>11
<1>9. PICK f \in [0..n -> Calls(S)] : g[n] = f[n] /\ f[0] = first /\ \A k \in 1..n : f[k] = push(f[k - 1], topics[k])
  BY <1>8
<1>10. Pushes(f, vectors, topics, room)
  BY <1>1, <1>4, <1>9 DEF Pushes, Pushed
<1> QED BY <1>1, <1>7, <1>9, <1>10

\* All the topics are sent, in calls of no more vectors than max.
LEMMA BatchesSend ==
  ASSUME NEW S, NEW vectors \in Seq(S), NEW topics \in Seq(Seq(S)), NEW room \in Int, NEW max \in Nat,
         Len(vectors) <= max, \A k \in 1..Len(topics) : Len(topics[k]) <= max /\ room + Len(topics[k]) <= max
  PROVE  /\ Batches(vectors, topics, room) \in Seq(Seq(S))
         /\ Concat(Batches(vectors, topics, room)) = vectors \o Concat(topics)
         /\ Fit(Batches(vectors, topics, room), max)
<1>1. PICK n \in Nat : n = Len(topics)
  OBVIOUS
<1>2. PICK f \in [0..n -> Calls(S)] : /\ Batches(vectors, topics, room) = Append(f[n].sent, f[n].filled)
                                      /\ Pushes(f, vectors, topics, room)
  BY <1>1, BatchesAre
<1> DEFINE Good(k) == SentBy(f[k]) = vectors \o Concat(Prefix(topics, k)) /\ CallFits(f[k], max)
<1>3. PICK T : T = {k \in 0..n : Good(k)}
  OBVIOUS
<1>4. 0 \in T
  <2>1. f[0] = [sent |-> <<>>, filled |-> vectors]
    BY <1>2 DEF Pushes
  <2>2. Concat(Prefix(topics, 0)) = <<>>
    BY PrefixNone, ConcatNone
  <2>3. vectors \o <<>> = vectors /\ <<>> \o vectors = vectors
    BY ConcatEmptySeq
  <2>4. SentBy(f[0]) = vectors \o Concat(Prefix(topics, 0))
    BY <2>1, <2>2, <2>3, ConcatNone DEF SentBy
  <2>5. Fit(<<>>, max)
    <3>1. Len(<<>>) = 0
      BY EmptySeq
    <3> QED BY <3>1 DEF Fit
  <2>6. CallFits(f[0], max)
    BY <2>1, <2>5 DEF CallFits
  <2> QED BY <1>3, <2>4, <2>6
<1>5. ASSUME NEW k \in 0 .. n - 1, k \in T PROVE k + 1 \in T
  <2>1. k + 1 \in 0..n /\ k + 1 \in 1..n /\ k + 1 - 1 = k /\ k \in 0..n
    OBVIOUS
  <2>2. PICK b \in Calls(S) : b = f[k]
    BY <2>1
  <2>3. PICK t \in Seq(S) : t = topics[k + 1]
    BY <1>1, <2>1
  <2>4. f[k + 1] = Pushed(b, t, room)
    BY <1>1, <1>2, <2>1, <2>2, <2>3 DEF Pushes
  <2>5. SentBy(b) = vectors \o Concat(Prefix(topics, k)) /\ CallFits(b, max)
    BY <1>3, <1>5, <2>2
  <2>6. PICK p : p = Prefix(topics, k)
    OBVIOUS
  <2>7. p \in Seq(Seq(S))
    <3>1. k \in 0..Len(topics)
      BY <1>1, <2>1
    <3> QED BY <2>6, <3>1, PrefixFacts
  <2>8. Prefix(topics, k + 1) = Append(p, t)
    <3>1. k \in 0..(Len(topics) - 1)
      BY <1>1
    <3> QED BY <2>3, <2>6, <3>1, PrefixNext
  <2>9. PICK A \in Seq(S) : A = Concat(p)
    BY <2>7, ConcatType
  <2>10. Concat(Prefix(topics, k + 1)) = A \o t
    BY <2>7, <2>8, <2>9, ConcatAppend
  <2>11. SentBy(f[k + 1]) = (vectors \o A) \o t
    <3>1. SentBy(Pushed(b, t, room)) = SentBy(b) \o t
      BY PushedSends
    <3>2. SentBy(b) = vectors \o A
      BY <2>5, <2>6, <2>9
    <3> QED BY <2>4, <3>1, <3>2
  <2>12. SameThree(vectors, A, t)
    BY JoinThree
  <2>13. SentBy(f[k + 1]) = vectors \o Concat(Prefix(topics, k + 1))
    BY <2>10, <2>11, <2>12 DEF SameThree
  <2>14. Len(t) <= max /\ room + Len(t) <= max
    BY <1>1, <2>1, <2>3
  <2>15. CallFits(f[k + 1], max)
    BY <2>4, <2>5, <2>14, PushedFits
  <2> QED BY <1>3, <2>1, <2>13, <2>15
<1>6. n \in T
  <2>1. \A k \in 0..n : k \in T
    BY <1>4, <1>5, InductionTo
  <2> QED BY <2>1
<1>7. PICK b \in Calls(S) : b = f[n]
  OBVIOUS
<1>8. SentBy(b) = vectors \o Concat(topics) /\ CallFits(b, max)
  <2>1. Prefix(topics, n) = topics
    BY <1>1, PrefixAll
  <2> QED BY <1>3, <1>6, <1>7, <2>1
<1>9. b.sent \in Seq(Seq(S)) /\ b.filled \in Seq(S)
  BY DEF Calls
<1>10. PICK calls : calls = Append(b.sent, b.filled)
  OBVIOUS
<1>11. calls \in Seq(Seq(S))
  BY <1>9, <1>10, AppendProperties
<1>12. Concat(calls) = SentBy(b)
  BY <1>9, <1>10, ConcatAppend DEF SentBy
<1>13. Fit(calls, max)
  BY <1>8, <1>9, <1>10, FitAppend DEF CallFits
<1> QED BY <1>2, <1>7, <1>8, <1>10, <1>11, <1>12, <1>13

\* The topics of a request as parts of its payload.
TopicParts(list, type) == [i \in DOMAIN list |-> encodeString(list[i].filter) \o QosByte(type, list[i])]
FiltersOf(list) == [i \in DOMAIN list |-> list[i].filter]
QosBytes(list, type) == [i \in DOMAIN list |-> QosByte(type, list[i])]
Others(type) == IF type = "SUBSCRIBE" THEN 1 ELSE 0

LEMMA QosByteIs ==
  ASSUME NEW x \in SubscribeInfo, NEW type
  PROVE  QosByte(type, x) \in Seq(Octet) /\ Len(QosByte(type, x)) = Others(type) /\ x.filter \in Text /\ x.qos \in Octet
<1>1. x.filter \in Text /\ x.qos \in 0..2
  BY DEF SubscribeInfo
<1>2. PICK q : q = x.qos
  OBVIOUS
<1>3. q \in Octet
  <2>1. q \in 0..2
    BY <1>1, <1>2
  <2>2. q \in Nat /\ q <= 255
    BY <2>1
  <2> QED BY <2>2, OctetIs
<1>4. CASE type = "SUBSCRIBE"
  <2>1. PICK b : b = <<q>>
    OBVIOUS
  <2>2. b \in Seq(Octet) /\ Len(b) = 1
    BY <1>3, <2>1
  <2>3. QosByte(type, x) = b
    BY <1>2, <1>4, <2>1 DEF QosByte
  <2> QED BY <1>1, <1>2, <1>3, <1>4, <2>2, <2>3 DEF Others
<1>5. CASE type # "SUBSCRIBE"
  <2>1. QosByte(type, x) = <<>>
    BY <1>5 DEF QosByte
  <2> QED BY <1>1, <1>2, <1>3, <1>5, <2>1, EmptySeq DEF Others
<1> QED BY <1>4, <1>5

LEMMA TopicFields ==
  ASSUME NEW list \in Seq(SubscribeInfo), NEW type
  PROVE  /\ TopicParts(list, type) \in Seq(Seq(Octet)) /\ Len(TopicParts(list, type)) = Len(list)
         /\ Fields(TopicParts(list, type), FiltersOf(list), QosBytes(list, type), Others(type))
<1>1. PICK n \in Nat : n = Len(list)
  OBVIOUS
<1>2. DOMAIN list = 1..n
  BY <1>1
<1>3. PICK parts : parts = TopicParts(list, type)
  OBVIOUS
<1>4. PICK strings : strings = FiltersOf(list)
  OBVIOUS
<1>5. PICK extras : extras = QosBytes(list, type)
  OBVIOUS
<1>6. ASSUME NEW i \in 1..n
      PROVE  Field(parts[i], strings[i], extras[i]) /\ Len(extras[i]) = Others(type) /\ parts[i] \in Seq(Octet)
  <2>1. PICK x \in SubscribeInfo : x = list[i]
    BY <1>1
  <2>2. i \in DOMAIN list
    BY <1>2
  <2>3. parts[i] = encodeString(x.filter) \o QosByte(type, x)
    BY <1>3, <2>1, <2>2 DEF TopicParts
  <2>4. strings[i] = x.filter
    BY <1>4, <2>1, <2>2 DEF FiltersOf
  <2>5. extras[i] = QosByte(type, x)
    BY <1>5, <2>1, <2>2 DEF QosBytes
  <2>6. Field(parts[i], strings[i], extras[i])
    BY <2>3, <2>4, <2>5, QosByteIs DEF Field
  <2>7. Len(extras[i]) = Others(type)
    BY <2>5, QosByteIs
  <2> QED BY <2>6, <2>7, FieldLen
<1>7. parts \in Seq(Seq(Octet)) /\ Len(parts) = n
  <2>1. parts = [i \in 1..n |-> parts[i]]
    BY <1>2, <1>3 DEF TopicParts
  <2>2. parts \in [1..n -> Seq(Octet)]
    BY <1>6, <2>1
  <2> QED BY <1>1, <2>2, SeqOf
<1>8. Others(type) \in Nat
  BY DEF Others
<1>9. Fields(parts, strings, extras, Others(type))
  BY <1>6, <1>7, <1>8 DEF Fields
<1> QED BY <1>1, <1>3, <1>4, <1>5, <1>7, <1>9

LEMMA TopicsAre ==
  ASSUME NEW list \in Seq(SubscribeInfo), NEW type
  PROVE  /\ Topics(list, type) \in Seq(Octet) /\ Topics(list, type) = Concat(TopicParts(list, type))
         /\ Len(Topics(list, type)) = Total([i \in DOMAIN list |-> Len(list[i].filter) + 2 + Len(QosByte(type, list[i]))])
<1>1. PICK n \in Nat : n = Len(list)
  OBVIOUS
<1>2. DOMAIN list = 1..n
  BY <1>1
<1>3. PICK parts : parts = TopicParts(list, type)
  OBVIOUS
<1>4. parts \in Seq(Seq(Octet)) /\ Len(parts) = n
  BY <1>1, <1>3, TopicFields
<1>5. parts \in Seq(Seq(Octet))
  BY <1>4
<1>6. DOMAIN parts = 1..n
  BY <1>4
<1>7. PICK S \in Seq(Octet) : S = Concat(parts)
  BY <1>5, ConcatType
<1>8. Len(S) = Total([i \in DOMAIN parts |-> Len(parts[i])])
  BY <1>5, <1>7, LenConcat
<1>9. ASSUME NEW i \in 1..n PROVE Len(parts[i]) = Len(list[i].filter) + 2 + Len(QosByte(type, list[i]))
  <2>1. PICK x \in SubscribeInfo : x = list[i]
    BY <1>1
  <2>2. parts[i] = encodeString(x.filter) \o QosByte(type, x)
    BY <1>2, <1>3, <2>1 DEF TopicParts
  <2>3. Field(parts[i], x.filter, QosByte(type, x))
    BY <2>2, QosByteIs DEF Field
  <2>4. PICK part : part = parts[i]
    OBVIOUS
  <2>5. PICK s : s = x.filter
    OBVIOUS
  <2>6. PICK q : q = QosByte(type, x)
    OBVIOUS
  <2>7. Len(part) = Len(s) + 2 + Len(q)
    <3>1. Field(part, s, q)
      BY <2>3, <2>4, <2>5, <2>6
    <3> QED BY <3>1, FieldLen
  <2> QED BY <2>1, <2>4, <2>5, <2>6, <2>7
<1>10. [i \in DOMAIN parts |-> Len(parts[i])] = [i \in DOMAIN list |-> Len(list[i].filter) + 2 + Len(QosByte(type, list[i]))]
  BY <1>2, <1>6, <1>9
<1>11. Topics(list, type) = S
  BY <1>3, <1>7 DEF Topics, TopicParts
<1> QED BY <1>3, <1>7, <1>8, <1>10, <1>11

SizeOf(list, type) == IF list = <<>> THEN Refused ELSE calculateSubscriptionPacketSize(list, type)
LEMMA SizeOfIs ==
  ASSUME NEW list \in Seq(SubscribeInfo), NEW type
  PROVE  /\ SizeOf(list, type).status = "MQTTSuccess" <=> Acceptable(list, type)
         /\ Acceptable(list, type) => \E n \in Length : n = 2 + Len(Topics(list, type)) /\ SizeOf(list, type) = Sizes(n)
<1>1. PICK S \in Seq(Octet) : S = Topics(list, type)
  BY TopicsAre
<1>2. PICK n \in Nat : n = 2 + Len(S)
  OBVIOUS
<1>3. calculateSubscriptionPacketSize(list, type) =
        IF (\E i \in DOMAIN list : list[i].filter = <<>>) \/ n > MQTT_MAX_REMAINING_LENGTH THEN Refused ELSE Sizes(n)
  BY <1>1, <1>2, TopicsAre DEF calculateSubscriptionPacketSize
<1>4. Acceptable(list, type) <=> list # <<>> /\ (\A i \in DOMAIN list : list[i].filter # <<>>) /\ n <= MQTT_MAX_REMAINING_LENGTH
  BY <1>1, <1>2 DEF Acceptable
<1>5. n > MQTT_MAX_REMAINING_LENGTH <=> ~(n <= MQTT_MAX_REMAINING_LENGTH)
  BY DEF MQTT_MAX_REMAINING_LENGTH
<1>6. Acceptable(list, type) => SizeOf(list, type) = Sizes(n)
  BY <1>3, <1>4, <1>5 DEF SizeOf
<1>7. ~Acceptable(list, type) => SizeOf(list, type) = Refused
  BY <1>3, <1>4, <1>5 DEF SizeOf
<1>8. Sizes(n).status = "MQTTSuccess" /\ Refused.status # "MQTTSuccess"
  BY SizesFacts DEF Refused
<1>9. Acceptable(list, type) => n \in Length
  <2>1. Acceptable(list, type) => n <= 268435455
    BY <1>4 DEF MQTT_MAX_REMAINING_LENGTH
  <2> QED BY <2>1, LengthIs
<1> QED BY <1>1, <1>2, <1>6, <1>7, <1>8, <1>9

\* The vectors of a request, in as many calls as it takes, end to end.
LEMMA BatchesAreRight ==
  ASSUME NEW H \in Seq(Octet), NEW groups \in Seq(Seq(Seq(Octet))), NEW width \in 1..3,
         \A k \in 1..Len(groups) : Len(groups[k]) <= width
  PROVE  BatchesRight(Batches(<<H>>, groups, MQTT_SUB_UNSUB_MAX_VECTORS - width),
                      H \o Concat([i \in DOMAIN groups |-> Concat(groups[i])]))
<1>1. PICK max \in Nat : max = MQTT_SUB_UNSUB_MAX_VECTORS /\ max >= 3
  BY VectorsAssumption
<1>2. PICK room \in Int : room = max - width
  OBVIOUS
<1>3. ASSUME NEW k \in 1..Len(groups) PROVE Len(groups[k]) <= max /\ room + Len(groups[k]) <= max
  <2>1. PICK g \in Seq(Seq(Octet)) : g = groups[k]
    OBVIOUS
  <2>2. Len(g) \in Nat /\ Len(g) <= width
    BY <2>1
  <2> QED BY <1>1, <1>2, <2>1, <2>2
<1>4. PICK first : first = <<H>>
  OBVIOUS
<1>5. first \in Seq(Seq(Octet)) /\ Len(first) = 1 /\ Concat(first) = H
  BY <1>4, ConcatOne
<1>6. first \in Seq(Seq(Octet)) /\ Len(first) <= max
  BY <1>1, <1>5
<1>7. PICK calls : calls = Batches(first, groups, room)
  OBVIOUS
<1>8. /\ calls \in Seq(Seq(Seq(Octet))) /\ Concat(calls) = first \o Concat(groups)
      /\ Fit(calls, max)
  BY <1>3, <1>6, <1>7, BatchesSend
<1>9. calls \in Seq(Seq(Seq(Octet)))
  BY <1>8
<1>10. \A i \in DOMAIN calls : Len(calls[i]) <= max
  <2>1. DOMAIN calls = 1..Len(calls)
    BY <1>9
  <2> QED BY <1>8, <2>1 DEF Fit
<1>11. Concat([i \in DOMAIN calls |-> Concat(calls[i])]) = Concat(Concat(calls))
  BY <1>9, ConcatFlat
<1>12. PICK D \in Seq(Seq(Octet)) : D = Concat(groups)
  BY ConcatType
<1>13. Concat(first \o D) = Concat(first) \o Concat(D)
  BY <1>6, ConcatConcat
<1>14. Concat(D) = Concat([i \in DOMAIN groups |-> Concat(groups[i])])
  BY <1>12, ConcatFlat
<1>15. BatchesRight(calls, H \o Concat([i \in DOMAIN groups |-> Concat(groups[i])]))
  BY <1>1, <1>5, <1>8, <1>10, <1>11, <1>12, <1>13, <1>14 DEF BatchesRight
<1> QED BY <1>1, <1>2, <1>4, <1>7, <1>15

\* What RequestRight says of a request that is sent.
RequestGood(list, packetId, code, size, bytes, short, batches, others) ==
  LET payload == From(Body(bytes), 3)
      start == StringStarts(payload, Len(list), others)
  IN /\ HeaderRight(bytes, code, size.remaining) /\ Len(bytes) = size.packet
     /\ UINT16_DECODE(Body(bytes)) = packetId
     /\ AreAll(payload, Len(list), others)
     /\ Strings(payload, Len(list), others) = [i \in DOMAIN list |-> list[i].filter]
     /\ others = 1 => \A i \in DOMAIN list : payload[start[i + 1] - 1] = list[i].qos
     /\ BatchesRight(batches, bytes)
     /\ short = [status |-> "MQTTNoMemory"]

LEMMA RequestIsGood ==
  ASSUME NEW list \in Seq(SubscribeInfo), NEW id \in Word, NEW code \in Octet, NEW type, NEW n \in Length,
         n = 2 + Len(Topics(list, type)),
         NEW w, w = (FixedHeader(code, n) \o UINT16(id)) \o Topics(list, type),
         NEW batches, BatchesRight(batches, w)
  PROVE  RequestGood(list, id, code, Sizes(n), w, [status |-> "MQTTNoMemory"], batches, Others(type))
<1>1. PICK F \in Seq(Octet) : F = FixedHeader(code, n)
  BY FixedHeaderFacts
<1>2. PICK I \in Seq(Octet) : I = UINT16(id) /\ Len(I) = 2
  BY UINT16Facts
<1>3. PICK S \in Seq(Octet) : S = Topics(list, type)
  BY TopicsAre
<1>4. PICK body : Joined(body, I, S)
  BY DEF Joined
<1>5. Places(Octet, body, I, S)
  BY <1>4, JoinedPlaces
<1>6. body \in Seq(Octet) /\ Len(body) = n
  BY <1>2, <1>3, <1>5 DEF Places
<1>7. w = F \o body
  <2>1. SameThree(F, I, S)
    BY JoinThree
  <2> QED BY <1>1, <1>2, <1>3, <1>4, <2>1 DEF SameThree, Joined
<1>8. n \in Nat
  BY LengthIs
<1>9. Sizes(n).remaining = n /\ Sizes(n).packet = 1 + remainingLengthEncodedSize(n) + n
  BY <1>8, SizesFacts
<1>10. HeaderRight(w, code, n)
  BY <1>1, <1>6, <1>7, HeaderIsRight
<1>11. Len(w) = Sizes(n).packet
  <2>1. body \in Seq(Octet)
    BY <1>6
  <2>2. Len(FixedHeader(code, n) \o body) = 1 + remainingLengthEncodedSize(n) + Len(body)
    BY <2>1, PacketFacts
  <2> QED BY <1>1, <1>6, <1>7, <1>9, <2>2
<1>12. Body(w) = body
  <2>1. body \in Seq(Octet)
    BY <1>6
  <2>2. Body(FixedHeader(code, n) \o body) = body
    BY <2>1, BodyOf
  <2> QED BY <1>1, <1>7, <2>2
<1>13. UINT16_DECODE(body) = id
  <2>1. UINT16_DECODE(UINT16(id) \o S) = id
    BY Decode16
  <2> QED BY <1>2, <1>4, <2>1 DEF Joined
<1>14. From(body, 3) = S
  <2>1. From(I \o S, Len(I) + 1) = S
    BY FromJoined
  <2> QED BY <1>2, <1>4, <2>1 DEF Joined
<1>15. PICK k \in Nat : k = Len(list)
  OBVIOUS
<1>16. DOMAIN list = 1..k
  BY <1>15
<1>17. PICK parts : parts = TopicParts(list, type)
  OBVIOUS
<1>18. k = Len(parts) /\ Fields(parts, FiltersOf(list), QosBytes(list, type), Others(type))
  BY <1>15, <1>17, TopicFields
<1>19. S = Concat(parts)
  BY <1>3, <1>17, TopicsAre
<1>20. FieldsReadBack(S, parts, FiltersOf(list), QosBytes(list, type), k, Others(type))
  BY <1>18, <1>19, FieldsRead
<1>21. AreAll(S, k, Others(type))
  BY <1>20 DEF FieldsReadBack
<1>22. Strings(S, k, Others(type)) = [i \in DOMAIN list |-> list[i].filter]
  <2>1. Strings(S, k, Others(type)) = [i \in 1..k |-> FiltersOf(list)[i]]
    BY <1>20 DEF FieldsReadBack
  <2>2. \A i \in 1..k : FiltersOf(list)[i] = list[i].filter
    BY <1>16 DEF FiltersOf
  <2> QED BY <1>16, <2>1, <2>2
<1>23. Others(type) = 1 => \A i \in DOMAIN list : S[StringStarts(S, k, Others(type))[i + 1] - 1] = list[i].qos
  <2> SUFFICES ASSUME Others(type) = 1, NEW i \in 1..k
               PROVE  S[StringStarts(S, k, Others(type))[i + 1] - 1] = list[i].qos
    BY <1>16
  <2>1. S[StringStarts(S, k, Others(type))[i + 1] - 1] = QosBytes(list, type)[i][1]
    BY <1>20 DEF FieldsReadBack
  <2>2. QosBytes(list, type)[i] = QosByte(type, list[i])
    BY <1>16 DEF QosBytes
  <2>3. type = "SUBSCRIBE"
    BY DEF Others
  <2>4. QosByte(type, list[i])[1] = list[i].qos
    BY <2>3 DEF QosByte
  <2> QED BY <2>1, <2>2, <2>4
<1> QED BY <1>9, <1>10, <1>11, <1>12, <1>13, <1>14, <1>15, <1>21, <1>22, <1>23 DEF RequestGood

LEMMA OneOrTwo ==
  ASSUME NEW x \in 1..2
  PROVE  x <= 2 /\ x + 1 <= 3
OBVIOUS

\* The topics' vectors make the topics' bytes.
LEMMA SubscribeVectorsAre ==
  ASSUME NEW list \in Seq(SubscribeInfo)
  PROVE  /\ SubscribeVectors(list) \in Seq(Seq(Seq(Octet)))
         /\ \A k \in 1..Len(SubscribeVectors(list)) : Len(SubscribeVectors(list)[k]) <= 3
         /\ Concat([i \in DOMAIN SubscribeVectors(list) |-> Concat(SubscribeVectors(list)[i])]) = Topics(list, "SUBSCRIBE")
<1>1. PICK n \in Nat : n = Len(list)
  OBVIOUS
<1>2. DOMAIN list = 1..n
  BY <1>1
<1>3. PICK groups : groups = SubscribeVectors(list)
  OBVIOUS
<1>4. ASSUME NEW i \in 1..n
      PROVE  groups[i] \in Seq(Seq(Octet)) /\ Len(groups[i]) <= 3 /\ Concat(groups[i]) = TopicParts(list, "SUBSCRIBE")[i]
  <2>1. PICK x \in SubscribeInfo : x = list[i]
    BY <1>1
  <2>2. x.filter \in Text /\ x.qos \in Octet
    BY QosByteIs
  <2>3. PICK v : v = addEncodedStringToVector(x.filter)
    OBVIOUS
  <2>4. v \in Seq(Seq(Octet)) /\ Len(v) \in 1..2 /\ Concat(v) = encodeString(x.filter)
    BY <2>2, <2>3, StringVectors
  <2>5. PICK q : q = <<x.qos>>
    OBVIOUS
  <2>6. q \in Seq(Octet)
    BY <2>2, <2>5
  <2>7. PICK last : last = <<q>>
    OBVIOUS
  <2>8. last \in Seq(Seq(Octet)) /\ Len(last) = 1
    BY <2>6, <2>7
  <2>9. Concat(last) = q
    BY <2>6, <2>7, ConcatOne
  <2>10. PICK g : g = v \o last
    OBVIOUS
  <2>11. v \in Seq(Seq(Octet)) /\ last \in Seq(Seq(Octet))
    BY <2>4, <2>8
  <2>12. g \in Seq(Seq(Octet)) /\ Len(g) = Len(v) + Len(last)
    BY <2>10, <2>11, ConcatProperties
  <2>13. Len(g) <= 3
    <3>1. PICK m : m = Len(v)
      OBVIOUS
    <3>2. m \in 1..2
      BY <2>4, <3>1
    <3>3. m + 1 <= 3
      BY <3>2, OneOrTwo
    <3> QED BY <2>8, <2>12, <3>1, <3>3
  <2>14. Concat(g) = Concat(v) \o Concat(last)
    BY <2>10, <2>11, ConcatConcat
  <2>15. QosByte("SUBSCRIBE", x) = q
    BY <2>5 DEF QosByte
  <2>16. TopicParts(list, "SUBSCRIBE")[i] = encodeString(x.filter) \o QosByte("SUBSCRIBE", x)
    BY <1>2, <2>1 DEF TopicParts
  <2>17. groups[i] = g
    BY <1>2, <1>3, <2>1, <2>3, <2>5, <2>7, <2>10 DEF SubscribeVectors
  <2> QED BY <2>4, <2>9, <2>12, <2>13, <2>14, <2>15, <2>16, <2>17
<1>5. groups = [i \in 1..n |-> groups[i]]
  BY <1>2, <1>3 DEF SubscribeVectors
<1>6. groups \in Seq(Seq(Seq(Octet))) /\ Len(groups) = n
  <2>1. groups \in [1..n -> Seq(Seq(Octet))]
    BY <1>4, <1>5
  <2> QED BY <2>1, SeqOf
<1>7. DOMAIN groups = 1..n
  BY <1>6
<1>8. [i \in DOMAIN groups |-> Concat(groups[i])] = TopicParts(list, "SUBSCRIBE")
  BY <1>2, <1>4, <1>7 DEF TopicParts
<1>9. Concat([i \in DOMAIN groups |-> Concat(groups[i])]) = Topics(list, "SUBSCRIBE")
  <2>1. Topics(list, "SUBSCRIBE") = Concat(TopicParts(list, "SUBSCRIBE"))
    BY TopicsAre
  <2> QED BY <1>8, <2>1
<1>10. groups \in Seq(Seq(Seq(Octet))) /\ \A k \in 1..Len(groups) : Len(groups[k]) <= 3
  BY <1>4, <1>6
<1> QED BY <1>3, <1>9, <1>10

UnsubscribeVectors(list) == [i \in DOMAIN list |-> addEncodedStringToVector(list[i].filter)]
LEMMA UnsubscribeVectorsAre ==
  ASSUME NEW list \in Seq(SubscribeInfo)
  PROVE  /\ UnsubscribeVectors(list) \in Seq(Seq(Seq(Octet)))
         /\ \A k \in 1..Len(UnsubscribeVectors(list)) : Len(UnsubscribeVectors(list)[k]) <= 2
         /\ Concat([i \in DOMAIN UnsubscribeVectors(list) |-> Concat(UnsubscribeVectors(list)[i])]) = Topics(list, "UNSUBSCRIBE")
<1>1. PICK n \in Nat : n = Len(list)
  OBVIOUS
<1>2. DOMAIN list = 1..n
  BY <1>1
<1>3. PICK groups : groups = UnsubscribeVectors(list)
  OBVIOUS
<1>4. ASSUME NEW i \in 1..n
      PROVE  groups[i] \in Seq(Seq(Octet)) /\ Len(groups[i]) <= 2 /\ Concat(groups[i]) = TopicParts(list, "UNSUBSCRIBE")[i]
  <2>1. PICK x \in SubscribeInfo : x = list[i]
    BY <1>1
  <2>2. x.filter \in Text
    BY QosByteIs
  <2>3. PICK v : v = addEncodedStringToVector(x.filter)
    OBVIOUS
  <2>4. v \in Seq(Seq(Octet)) /\ Len(v) \in 1..2 /\ Concat(v) = encodeString(x.filter)
    BY <2>2, <2>3, StringVectors
  <2>5. Len(v) <= 2
    <3>1. PICK m : m = Len(v)
      OBVIOUS
    <3>2. m \in 1..2
      BY <2>4, <3>1
    <3>3. m <= 2
      BY <3>2, OneOrTwo
    <3> QED BY <3>1, <3>3
  <2>6. QosByte("UNSUBSCRIBE", x) = <<>>
    BY DEF QosByte
  <2>7. TopicParts(list, "UNSUBSCRIBE")[i] = encodeString(x.filter) \o QosByte("UNSUBSCRIBE", x)
    BY <1>2, <2>1 DEF TopicParts
  <2>8. PICK e \in Seq(Octet) : e = encodeString(x.filter)
    BY <2>2, EncodedString
  <2>9. e \o <<>> = e
    BY ConcatEmptySeq
  <2>10. groups[i] = v
    BY <1>2, <1>3, <2>1, <2>3 DEF UnsubscribeVectors
  <2> QED BY <2>4, <2>5, <2>6, <2>7, <2>8, <2>9, <2>10
<1>5. groups = [i \in 1..n |-> groups[i]]
  BY <1>2, <1>3 DEF UnsubscribeVectors
<1>6. groups \in Seq(Seq(Seq(Octet))) /\ Len(groups) = n
  <2>1. groups \in [1..n -> Seq(Seq(Octet))]
    BY <1>4, <1>5
  <2> QED BY <2>1, SeqOf
<1>7. DOMAIN groups = 1..n
  BY <1>6
<1>8. [i \in DOMAIN groups |-> Concat(groups[i])] = TopicParts(list, "UNSUBSCRIBE")
  BY <1>2, <1>4, <1>7 DEF TopicParts
<1>9. Concat([i \in DOMAIN groups |-> Concat(groups[i])]) = Topics(list, "UNSUBSCRIBE")
  <2>1. Topics(list, "UNSUBSCRIBE") = Concat(TopicParts(list, "UNSUBSCRIBE"))
    BY TopicsAre
  <2> QED BY <1>8, <2>1
<1>10. groups \in Seq(Seq(Seq(Octet))) /\ \A k \in 1..Len(groups) : Len(groups[k]) <= 2
  BY <1>4, <1>6
<1> QED BY <1>3, <1>9, <1>10

\* A request that is refused, and one that is sent.
RequestIs(list, id, code, size, bytes, short, batches, others) ==
  IF size.status # "MQTTSuccess" \/ id = 0 THEN batches = <<>>
  ELSE RequestGood(list, id, code, size, bytes, short, batches, others)

LEMMA SubscribeRequest ==
  ASSUME NEW list \in Seq(SubscribeInfo), NEW id \in Word, NEW size, size = MQTT_GetSubscribePacketSize(list)
  PROVE  RequestIs(list, id, 130, size, MQTT_SerializeSubscribe(list, id, size.remaining, size.packet).bytes,
                   MQTT_SerializeSubscribe(list, id, size.remaining, size.packet - 1), MQTT_Subscribe(list, id, TRUE), 1)
<1>1. size = SizeOf(list, "SUBSCRIBE")
  BY DEF MQTT_GetSubscribePacketSize, SizeOf
<1>2. CASE size.status # "MQTTSuccess" \/ id = 0
  <2>1. MQTT_Subscribe(list, id, TRUE) = <<>>
    BY <1>2 DEF MQTT_Subscribe, Requested, validateSubscribeUnsubscribeParams
  <2> QED BY <1>2, <2>1 DEF RequestIs
<1>3. CASE size.status = "MQTTSuccess" /\ id # 0
  <2>1. Acceptable(list, "SUBSCRIBE")
    BY <1>1, <1>3, SizeOfIs
  <2>2. list # <<>>
    BY <2>1 DEF Acceptable
  <2>3. PICK n \in Length : n = 2 + Len(Topics(list, "SUBSCRIBE")) /\ size = Sizes(n)
    BY <1>1, <2>1, SizeOfIs
  <2>4. n \in Nat
    BY LengthIs
  <2>5. size.remaining = n
    BY <2>3, <2>4, SizesFacts
  <2>6. PICK k \in Nat : k = size.packet /\ k = Sizes(n).packet /\ k - 1 \in Nat
    BY <2>3, <2>4, SizesFacts
  <2>7. PICK H : H = MQTT_SerializeSubscribeHeader(n, id)
    OBVIOUS
  <2>8. H = FixedHeader(130, n) \o UINT16(id)
    BY <2>7 DEF MQTT_SerializeSubscribeHeader, Type
  <2>9. 130 \in Octet
    BY OctetIs
  <2>10. H \in Seq(Octet)
    <3>1. PICK F \in Seq(Octet) : F = FixedHeader(130, n)
      BY <2>9, FixedHeaderFacts
    <3>2. PICK I \in Seq(Octet) : I = UINT16(id)
      BY UINT16Facts
    <3> QED BY <2>8, <3>1, <3>2, ConcatProperties
  <2>11. PICK w : w = H \o Topics(list, "SUBSCRIBE")
    OBVIOUS
  <2>12. \A b : MQTT_SerializeSubscribe(list, id, n, b) = Serialize(w, k, b)
    BY <1>3, <2>2, <2>6, <2>7, <2>11 DEF MQTT_SerializeSubscribe, validateSubscriptionSerializeParams
  <2>13. Serialize(w, k, k).bytes = w /\ Serialize(w, k, k - 1) = [status |-> "MQTTNoMemory"]
    <3>1. k <= k /\ k > k - 1
      OBVIOUS
    <3> QED BY <2>6, <3>1, Serialized
  <2>14. PICK batches : batches = MQTT_Subscribe(list, id, TRUE)
    OBVIOUS
  <2>15. PICK groups : groups = SubscribeVectors(list)
    OBVIOUS
  <2>16. batches = Batches(<<H>>, groups, MQTT_SUB_UNSUB_MAX_VECTORS - 3)
    <3>1. batches = sendSubscribeWithoutCopy(list, id, n)
      BY <1>3, <2>2, <2>5, <2>14 DEF MQTT_Subscribe, Requested, validateSubscribeUnsubscribeParams
    <3> QED BY <2>7, <2>15, <3>1 DEF sendSubscribeWithoutCopy
  <2>17. /\ groups \in Seq(Seq(Seq(Octet))) /\ \A i \in 1..Len(groups) : Len(groups[i]) <= 3
         /\ Concat([i \in DOMAIN groups |-> Concat(groups[i])]) = Topics(list, "SUBSCRIBE")
    BY <2>15, SubscribeVectorsAre
  <2>18. BatchesRight(batches, w)
    <3>1. groups \in Seq(Seq(Seq(Octet))) /\ 3 \in 1..3
      BY <2>17
    <3>2. BatchesRight(Batches(<<H>>, groups, MQTT_SUB_UNSUB_MAX_VECTORS - 3),
                       H \o Concat([i \in DOMAIN groups |-> Concat(groups[i])]))
      BY <2>10, <2>17, <3>1, BatchesAreRight
    <3> QED BY <2>11, <2>16, <2>17, <3>2
  <2>19. w = (FixedHeader(130, n) \o UINT16(id)) \o Topics(list, "SUBSCRIBE")
    BY <2>8, <2>11
  <2>20. RequestGood(list, id, 130, Sizes(n), w, [status |-> "MQTTNoMemory"], batches, Others("SUBSCRIBE"))
    BY <2>3, <2>9, <2>18, <2>19, RequestIsGood
  <2>21. Others("SUBSCRIBE") = 1
    BY DEF Others
  <2>22. /\ MQTT_SerializeSubscribe(list, id, size.remaining, size.packet).bytes = w
         /\ MQTT_SerializeSubscribe(list, id, size.remaining, size.packet - 1) = [status |-> "MQTTNoMemory"]
    BY <2>5, <2>6, <2>12, <2>13
  <2>23. RequestGood(list, id, 130, size, MQTT_SerializeSubscribe(list, id, size.remaining, size.packet).bytes,
                     MQTT_SerializeSubscribe(list, id, size.remaining, size.packet - 1), MQTT_Subscribe(list, id, TRUE), 1)
    BY <2>3, <2>14, <2>20, <2>21, <2>22
  <2> QED BY <1>3, <2>23 DEF RequestIs
<1> QED BY <1>2, <1>3

LEMMA UnsubscribeRequest ==
  ASSUME NEW list \in Seq(SubscribeInfo), NEW id \in Word, NEW size, size = MQTT_GetUnsubscribePacketSize(list)
  PROVE  RequestIs(list, id, 162, size, MQTT_SerializeUnsubscribe(list, id, size.remaining, size.packet).bytes,
                   MQTT_SerializeUnsubscribe(list, id, size.remaining, size.packet - 1), MQTT_Unsubscribe(list, id, TRUE), 0)
<1>1. size = SizeOf(list, "UNSUBSCRIBE")
  BY DEF MQTT_GetUnsubscribePacketSize, SizeOf
<1>2. CASE size.status # "MQTTSuccess" \/ id = 0
  <2>1. MQTT_Unsubscribe(list, id, TRUE) = <<>>
    BY <1>2 DEF MQTT_Unsubscribe, Requested, validateSubscribeUnsubscribeParams
  <2> QED BY <1>2, <2>1 DEF RequestIs
<1>3. CASE size.status = "MQTTSuccess" /\ id # 0
  <2>1. Acceptable(list, "UNSUBSCRIBE")
    BY <1>1, <1>3, SizeOfIs
  <2>2. list # <<>>
    BY <2>1 DEF Acceptable
  <2>3. PICK n \in Length : n = 2 + Len(Topics(list, "UNSUBSCRIBE")) /\ size = Sizes(n)
    BY <1>1, <2>1, SizeOfIs
  <2>4. n \in Nat
    BY LengthIs
  <2>5. size.remaining = n
    BY <2>3, <2>4, SizesFacts
  <2>6. PICK k \in Nat : k = size.packet /\ k = Sizes(n).packet /\ k - 1 \in Nat
    BY <2>3, <2>4, SizesFacts
  <2>7. PICK H : H = MQTT_SerializeUnsubscribeHeader(n, id)
    OBVIOUS
  <2>8. H = FixedHeader(162, n) \o UINT16(id)
    BY <2>7 DEF MQTT_SerializeUnsubscribeHeader, Type
  <2>9. 162 \in Octet
    BY OctetIs
  <2>10. H \in Seq(Octet)
    <3>1. PICK F \in Seq(Octet) : F = FixedHeader(162, n)
      BY <2>9, FixedHeaderFacts
    <3>2. PICK I \in Seq(Octet) : I = UINT16(id)
      BY UINT16Facts
    <3> QED BY <2>8, <3>1, <3>2, ConcatProperties
  <2>11. PICK w : w = H \o Topics(list, "UNSUBSCRIBE")
    OBVIOUS
  <2>12. \A b : MQTT_SerializeUnsubscribe(list, id, n, b) = Serialize(w, k, b)
    BY <1>3, <2>2, <2>6, <2>7, <2>11 DEF MQTT_SerializeUnsubscribe, validateSubscriptionSerializeParams
  <2>13. Serialize(w, k, k).bytes = w /\ Serialize(w, k, k - 1) = [status |-> "MQTTNoMemory"]
    <3>1. k <= k /\ k > k - 1
      OBVIOUS
    <3> QED BY <2>6, <3>1, Serialized
  <2>14. PICK batches : batches = MQTT_Unsubscribe(list, id, TRUE)
    OBVIOUS
  <2>15. PICK groups : groups = UnsubscribeVectors(list)
    OBVIOUS
  <2>16. batches = Batches(<<H>>, groups, MQTT_SUB_UNSUB_MAX_VECTORS - 2)
    <3>1. batches = sendUnsubscribeWithoutCopy(list, id, n)
      BY <1>3, <2>2, <2>5, <2>14 DEF MQTT_Unsubscribe, Requested, validateSubscribeUnsubscribeParams
    <3> QED BY <2>7, <2>15, <3>1 DEF sendUnsubscribeWithoutCopy, UnsubscribeVectors
  <2>17. /\ groups \in Seq(Seq(Seq(Octet))) /\ \A i \in 1..Len(groups) : Len(groups[i]) <= 2
         /\ Concat([i \in DOMAIN groups |-> Concat(groups[i])]) = Topics(list, "UNSUBSCRIBE")
    BY <2>15, UnsubscribeVectorsAre
  <2>18. BatchesRight(batches, w)
    <3>1. groups \in Seq(Seq(Seq(Octet))) /\ 2 \in 1..3
      BY <2>17
    <3>2. BatchesRight(Batches(<<H>>, groups, MQTT_SUB_UNSUB_MAX_VECTORS - 2),
                       H \o Concat([i \in DOMAIN groups |-> Concat(groups[i])]))
      BY <2>10, <2>17, <3>1, BatchesAreRight
    <3> QED BY <2>11, <2>16, <2>17, <3>2
  <2>19. w = (FixedHeader(162, n) \o UINT16(id)) \o Topics(list, "UNSUBSCRIBE")
    BY <2>8, <2>11
  <2>20. RequestGood(list, id, 162, Sizes(n), w, [status |-> "MQTTNoMemory"], batches, Others("UNSUBSCRIBE"))
    BY <2>3, <2>9, <2>18, <2>19, RequestIsGood
  <2>21. Others("UNSUBSCRIBE") = 0
    BY DEF Others
  <2>22. /\ MQTT_SerializeUnsubscribe(list, id, size.remaining, size.packet).bytes = w
         /\ MQTT_SerializeUnsubscribe(list, id, size.remaining, size.packet - 1) = [status |-> "MQTTNoMemory"]
    BY <2>5, <2>6, <2>12, <2>13
  <2>23. RequestGood(list, id, 162, size, MQTT_SerializeUnsubscribe(list, id, size.remaining, size.packet).bytes,
                     MQTT_SerializeUnsubscribe(list, id, size.remaining, size.packet - 1), MQTT_Unsubscribe(list, id, TRUE), 0)
    BY <2>3, <2>14, <2>20, <2>21, <2>22
  <2> QED BY <1>3, <2>23 DEF RequestIs
<1> QED BY <1>2, <1>3


\* SUBSCRIBE and UNSUBSCRIBE, of any number of topics.
LEMMA SubscribeIsRight ==
  ASSUME NEW list \in Seq(SubscribeInfo), NEW id \in Word
  PROVE  SubscribeRight(list, id)
<1> DEFINE size == MQTT_GetSubscribePacketSize(list)
           unsize == MQTT_GetUnsubscribePacketSize(list)
           Whole(buffer) == MQTT_SerializeSubscribe(list, id, size.remaining, buffer)
           Unwhole(buffer) == MQTT_SerializeUnsubscribe(list, id, unsize.remaining, buffer)
<1>1. size.status = "MQTTSuccess" <=> Acceptable(list, "SUBSCRIBE")
  BY SizeOfIs DEF SizeOf, MQTT_GetSubscribePacketSize
<1>2. unsize.status = "MQTTSuccess" <=> Acceptable(list, "UNSUBSCRIBE")
  BY SizeOfIs DEF SizeOf, MQTT_GetUnsubscribePacketSize
<1>3. RequestIs(list, id, 130, size, Whole(size.packet).bytes, Whole(size.packet - 1), MQTT_Subscribe(list, id, TRUE), 1)
  BY SubscribeRequest
<1>4. RequestIs(list, id, 162, unsize, Unwhole(unsize.packet).bytes, Unwhole(unsize.packet - 1), MQTT_Unsubscribe(list, id, TRUE), 0)
  BY UnsubscribeRequest
<1>5. RequestRight(list, id, 130, size, Whole, MQTT_Subscribe(list, id, TRUE), 1)
  <2> HIDE DEF size, Whole
  <2> QED BY <1>3 DEF RequestRight, RequestIs, RequestGood, Fits
<1>6. RequestRight(list, id, 162, unsize, Unwhole, MQTT_Unsubscribe(list, id, TRUE), 0)
  <2> HIDE DEF unsize, Unwhole
  <2> QED BY <1>4 DEF RequestRight, RequestIs, RequestGood, Fits
<1> QED BY <1>1, <1>2, <1>5, <1>6 DEF SubscribeRight

-----------------------------------------------------------------------------
(* What comes in *)

\* Two neighbouring pieces make one.
LEMMA SubSeqAt ==
  ASSUME NEW S, NEW s \in Seq(S), NEW a \in Nat, NEW b \in Nat, a <= b, b <= Len(s), NEW u, u = SubSeq(s, a + 1, b)
  PROVE  u \in Seq(S) /\ Len(u) = b - a /\ \A i \in 1 .. b - a : u[i] = s[a + i]
<1>1. Len(s) \in Nat
  OBVIOUS
<1>2. \A i \in a + 1..b : s[i] \in S
  <2>1. \A i \in 1..Len(s) : s[i] \in S
    OBVIOUS
  <2> QED BY <1>1, <2>1
<1>3. a + 1 \in Int /\ b \in Int
  OBVIOUS
<1>4. /\ u \in Seq(S) /\ Len(u) = IF a + 1 <= b THEN b - (a + 1) + 1 ELSE 0
      /\ \A i \in 1 .. b - (a + 1) + 1 : u[i] = s[a + 1 + i - 1]
  BY <1>2, <1>3, SubSeqProperties
<1>5. Len(u) = b - a
  BY <1>4
<1>6. b - (a + 1) + 1 = b - a /\ \A i \in 1 .. b - a : a + 1 + i - 1 = a + i
  OBVIOUS
<1> QED BY <1>4, <1>5, <1>6

LEMMA SubSeqJoin ==
  ASSUME NEW S, NEW s \in Seq(S), NEW a \in Nat, NEW b \in Nat, NEW c \in Nat, a <= b, b <= c, c <= Len(s)
  PROVE  SubSeq(s, a + 1, c) = SubSeq(s, a + 1, b) \o SubSeq(s, b + 1, c)
<1>1. PICK u : u = SubSeq(s, a + 1, b)
  OBVIOUS
<1>2. PICK v : v = SubSeq(s, b + 1, c)
  OBVIOUS
<1>3. PICK w : w = SubSeq(s, a + 1, c)
  OBVIOUS
<1>4. b <= Len(s) /\ a <= c
  OBVIOUS
<1>5. u \in Seq(S) /\ Len(u) = b - a /\ \A i \in 1 .. b - a : u[i] = s[a + i]
  BY <1>1, <1>4, SubSeqAt
<1>6. v \in Seq(S) /\ Len(v) = c - b /\ \A i \in 1 .. c - b : v[i] = s[b + i]
  BY <1>2, SubSeqAt
<1>7. w \in Seq(S) /\ Len(w) = c - a /\ \A i \in 1 .. c - a : w[i] = s[a + i]
  BY <1>3, <1>4, SubSeqAt
<1>8. PICK x : Joined(x, u, v)
  BY DEF Joined
<1>9. Places(S, x, u, v)
  BY <1>5, <1>6, <1>8, JoinedPlaces
<1>10. x \in Seq(S) /\ Len(x) = c - a
  BY <1>5, <1>6, <1>9 DEF Places
<1>11. ASSUME NEW i \in 1 .. c - a PROVE x[i] = w[i]
  <2>1. CASE i \in 1 .. b - a
    BY <1>5, <1>7, <1>9, <2>1 DEF Places
  <2>2. CASE i \notin 1 .. b - a
    <3>1. PICK j \in 1 .. c - b : i = (b - a) + j
      <4>1. i - (b - a) \in 1 .. c - b /\ i = (b - a) + (i - (b - a))
        BY <2>2
      <4> QED BY <4>1
    <3>2. x[(b - a) + j] = v[j]
      BY <1>5, <1>6, <1>9 DEF Places
    <3>3. b + j = a + i
      BY <3>1
    <3> QED BY <1>6, <1>7, <3>1, <3>2, <3>3
  <2> QED BY <2>1, <2>2
<1>12. x = w
  BY <1>7, <1>10, <1>11, SeqEqual
<1> QED BY <1>1, <1>2, <1>3, <1>8, <1>12 DEF Joined

\* A word is read as what was written, and its bytes are those that were read.
LEMMA PairIs ==
  ASSUME NEW S, NEW s \in Seq(S), Len(s) = 2
  PROVE  s = <<s[1], s[2]>>
OBVIOUS
LEMMA WordRead ==
  ASSUME NEW s \in Seq(Octet), Len(s) >= 2
  PROVE  /\ UINT16_DECODE(s) \in Word
         /\ UINT16(UINT16_DECODE(s)) = SubSeq(s, 1, 2)
<1>1. PICK a \in Octet : a = s[1]
  OBVIOUS
<1>2. PICK b \in Octet : b = s[2]
  OBVIOUS
<1>3. a \in Nat /\ a <= 255 /\ b \in Nat /\ b <= 255
  BY OctetIs
<1>4. PICK n : n = a * 256 + b
  OBVIOUS
<1>5. n \in Nat /\ n <= 65535 /\ n \div 256 = a /\ n % 256 = b
  BY <1>3, <1>4
<1>6. n \in Word
  BY <1>5, WordIs
<1>7. UINT16_DECODE(s) = n
  BY <1>1, <1>2, <1>4 DEF UINT16_DECODE
<1>8. UINT16(n) = <<a, b>>
  BY <1>5 DEF UINT16
<1>9. PICK u : u = SubSeq(s, 0 + 1, 2)
  OBVIOUS
<1>10. u \in Seq(Octet) /\ Len(u) = 2 - 0 /\ \A i \in 1 .. 2 - 0 : u[i] = s[0 + i]
  <2>1. 0 \in Nat /\ 2 \in Nat /\ 0 <= 2
    OBVIOUS
  <2> QED BY <1>9, <2>1, SubSeqAt
<1>11. Len(u) = 2 /\ u[1] = a /\ u[2] = b
  BY <1>1, <1>2, <1>10
<1>12. u = <<a, b>>
  BY <1>10, <1>11, PairIs
<1>13. 0 + 1 = 1
  OBVIOUS
<1> QED BY <1>6, <1>7, <1>8, <1>9, <1>12, <1>13
LEMMA WordFirst ==
  ASSUME NEW s \in Seq(Octet), Len(s) >= 2
  PROVE  s = UINT16(UINT16_DECODE(s)) \o From(s, 3)
<1>1. PICK n \in Nat : n = Len(s)
  OBVIOUS
<1>2. SubSeq(s, 0 + 1, n) = SubSeq(s, 0 + 1, 2) \o SubSeq(s, 2 + 1, n)
  <2>1. 0 \in Nat /\ 2 \in Nat /\ 0 <= 2 /\ 2 <= n /\ n <= Len(s)
    BY <1>1
  <2> QED BY <2>1, SubSeqJoin
<1>3. 0 + 1 = 1 /\ 2 + 1 = 3
  OBVIOUS
<1>4. SubSeq(s, 1, n) = s
  BY <1>1, SubSeqFull
<1> QED BY <1>1, <1>2, <1>3, <1>4, WordRead DEF From

LEMMA SmallIsRight == SmallRight
<1>1. Type.PINGREQ = 192 /\ Type.DISCONNECT = 224
  BY DEF Type
<1>2. /\ MQTT_SerializePingreq(2) = Serialize(<<192, 0>>, 2, 2) /\ MQTT_SerializePingreq(1) = Serialize(<<192, 0>>, 2, 1)
      /\ MQTT_SerializeDisconnect(2) = Serialize(<<224, 0>>, 2, 2) /\ MQTT_SerializeDisconnect(1) = Serialize(<<224, 0>>, 2, 1)
  BY <1>1 DEF MQTT_SerializePingreq, MQTT_SerializeDisconnect
<1>3. 2 \in Nat /\ 1 \in Nat /\ 2 <= 2 /\ 2 > 1
  OBVIOUS
<1>4. \A b : /\ Serialize(b, 2, 2).bytes = b /\ Serialize(b, 2, 1) = [status |-> "MQTTNoMemory"]
  BY <1>3, Serialized
<1> QED BY <1>2, <1>4 DEF SmallRight

\* The types of the acknowledgements.
LEMMA TypesAre ==
  /\ Type.CONNACK = 32 /\ Type.PUBLISH = 48 /\ Type.PUBACK = 64 /\ Type.PUBREC = 80 /\ Type.PUBREL = 98
  /\ Type.PUBCOMP = 112 /\ Type.SUBACK = 144 /\ Type.UNSUBACK = 176 /\ Type.PINGRESP = 208
BY DEF Type

LEMMA SimpleAckFor ==
  ASSUME NEW type, type \in {64, 80, 98, 112, 176}, NEW body
  PROVE  MQTT_DeserializeAck(type, body) = deserializeSimpleAck(body)
<1>1. type # 32 /\ type # 144 /\ type # 208
  OBVIOUS
<1>2. type \in {Type.UNSUBACK, Type.PUBACK, Type.PUBREC, Type.PUBREL, Type.PUBCOMP}
  BY TypesAre
<1>3. type # Type.CONNACK /\ type # Type.SUBACK /\ type # Type.PINGRESP
  BY <1>1, TypesAre
<1> QED BY <1>2, <1>3 DEF MQTT_DeserializeAck

LEMMA TwoEncoded == encodeRemainingLength(2) = <<2>>
<1>1. 2 \in Length
  BY LengthIs
<1>2. PICK e : e = encodeRemainingLength(2)
  OBVIOUS
<1>3. PICK size : size = remainingLengthEncodedSize(2)
  OBVIOUS
<1>4. size = 1
  BY <1>3 DEF remainingLengthEncodedSize
<1>5. e \in Seq(Octet) /\ Len(e) = size /\ \A i \in 1..size : e[i] = EncodedDigit(2, i, size)
  BY <1>1, <1>2, <1>3, EncodedFacts
<1>6. EncodedDigit(2, 1, 1) = 2
  <2>1. Weight[1] = 1
    BY DEF Weight
  <2>2. (2 \div 1) % 128 = 2
    OBVIOUS
  <2> QED BY <2>1, <2>2 DEF EncodedDigit
<1>7. e \in Seq(Octet) /\ Len(e) = 1 /\ e[1] = 2
  BY <1>4, <1>5, <1>6
<1>8. e = <<2>>
  BY <1>7
<1> QED BY <1>2, <1>8

\* What is accepted of an acknowledgement of two bytes is what would be sent.
LEMMA AckSentBack ==
  ASSUME NEW type \in Octet, type \in {64, 80, 98, 112}, NEW body \in Seq(Octet),
         MQTT_DeserializeAck(type, body).status = "MQTTSuccess"
  PROVE  MQTT_SerializeAck(type, MQTT_DeserializeAck(type, body).packetId, 4).bytes = FixedHeader(type, Len(body)) \o body
<1>1. MQTT_DeserializeAck(type, body) = deserializeSimpleAck(body)
  BY SimpleAckFor
<1>2. PICK n : n = UINT16_DECODE(body)
  OBVIOUS
<1>3. BadResponse.status # "MQTTSuccess"
  BY DEF BadResponse
<1>4. Len(body) = 2 /\ n # 0 /\ deserializeSimpleAck(body) = [status |-> "MQTTSuccess", packetId |-> n]
  BY <1>1, <1>2, <1>3 DEF deserializeSimpleAck
<1>5. type \in {Type.PUBACK, Type.PUBREC, Type.PUBREL, Type.PUBCOMP}
  BY TypesAre
<1>6. ~(4 < 4)
  OBVIOUS
<1>7. MQTT_SerializeAck(type, n, 4) = [status |-> "MQTTSuccess", bytes |-> <<type, 2>> \o UINT16(n)]
  BY <1>4, <1>5, <1>6 DEF MQTT_SerializeAck
<1>8. UINT16(n) = body
  <2>1. Len(body) >= 2
    BY <1>4
  <2>2. UINT16(n) = SubSeq(body, 1, 2)
    BY <1>2, <2>1, WordRead
  <2>3. SubSeq(body, 1, Len(body)) = body
    BY SubSeqFull
  <2> QED BY <1>4, <2>2, <2>3
<1>9. FixedHeader(type, 2) = <<type, 2>>
  <2>1. FixedHeader(type, 2) = <<type>> \o <<2>>
    BY TwoEncoded DEF FixedHeader
  <2>2. 2 \in Octet
    BY OctetIs
  <2>3. PICK t \in Seq(Octet) : t = <<type>>
    BY <2>2, Single
  <2>4. Append(t, 2) = <<type, 2>>
    BY <2>2, <2>3, Single
  <2>5. Append(t, 2) = t \o <<2>>
    BY <2>2, AppendIsConcat
  <2> QED BY <2>1, <2>3, <2>4, <2>5
<1>10. MQTT_SerializeAck(type, n, 4).bytes = FixedHeader(type, 2) \o body
  <2>1. PICK w : w = <<type, 2>> \o UINT16(n)
    OBVIOUS
  <2>2. MQTT_SerializeAck(type, n, 4).bytes = w
    BY <1>7, <2>1
  <2>3. w = FixedHeader(type, 2) \o body
    BY <1>8, <1>9, <2>1
  <2> QED BY <2>2, <2>3
<1>11. MQTT_DeserializeAck(type, body).packetId = n
  BY <1>1, <1>4
<1> QED BY <1>4, <1>10, <1>11

LEMMA SubackRight ==
  ASSUME NEW body \in Seq(Octet)
  PROVE  LET ack == MQTT_DeserializeAck(144, body)
             codes == From(body, 3)
         IN /\ ack.status \in {"MQTTSuccess", "MQTTServerRefused"} <=>
                 Len(body) > 2 /\ UINT16_DECODE(body) > 0 /\ \A i \in DOMAIN codes : codes[i] \in {0, 1, 2, 128}
            /\ ack.status # "MQTTBadResponse" =>
                 /\ MQTT_GetSubAckStatusCodes(144, body).codes = codes
                 /\ ack.status = "MQTTServerRefused" <=> \E i \in DOMAIN codes : codes[i] = 128
<1>1. MQTT_DeserializeAck(144, body) = deserializeSuback(body)
  <2>1. /\ 144 # Type.CONNACK /\ 144 = Type.SUBACK /\ 144 # Type.PINGRESP
        /\ 144 \notin {Type.UNSUBACK, Type.PUBACK, Type.PUBREC, Type.PUBREL, Type.PUBCOMP}
    BY TypesAre
  <2> QED BY <2>1 DEF MQTT_DeserializeAck
<1>2. PICK codes : codes = From(body, 3)
  OBVIOUS
<1>3. PICK l \in Nat : l = Len(body)
  OBVIOUS
<1>4. PICK n : n = UINT16_DECODE(body)
  OBVIOUS
<1>5. CASE l < 3 \/ n = 0
  <2>1. deserializeSuback(body) = BadResponse
    BY <1>3, <1>4, <1>5 DEF deserializeSuback
  <2>2. ~(l > 2 /\ n > 0)
    BY <1>5
  <2>3. BadResponse.status = "MQTTBadResponse"
    BY DEF BadResponse
  <2>4. "MQTTBadResponse" \notin {"MQTTSuccess", "MQTTServerRefused"}
    OBVIOUS
  <2> QED BY <1>1, <1>3, <1>4, <2>1, <2>2, <2>3, <2>4
<1>6. CASE ~(l < 3 \/ n = 0)
  <2>1. deserializeSuback(body) = [status |-> readSubackStatus(codes), packetId |-> n]
    BY <1>2, <1>3, <1>4, <1>6 DEF deserializeSuback
  <2>2. l > 2 /\ n > 0
    <3>1. l > 2 /\ l >= 2
      BY <1>6
    <3>2. n \in Word
      BY <1>3, <1>4, <3>1, WordRead
    <3>3. n \in Nat
      BY <3>2, WordIs
    <3> QED BY <1>6, <3>1, <3>3
  <2>3. MQTT_GetSubAckStatusCodes(144, body) = [status |-> "MQTTSuccess", codes |-> codes]
    <3>1. ~(144 # Type.SUBACK) /\ ~(Len(body) < 3)
      BY <1>3, <1>6, TypesAre
    <3> QED BY <1>2, <3>1 DEF MQTT_GetSubAckStatusCodes
  <2>4. PICK bad : bad = \E i \in DOMAIN codes : codes[i] \notin {0, 1, 2, 128}
    OBVIOUS
  <2>5. PICK refused : refused = \E i \in DOMAIN codes : codes[i] = 128
    OBVIOUS
  <2>6. bad \in BOOLEAN /\ refused \in BOOLEAN
    BY <2>4, <2>5
  <2>7. readSubackStatus(codes) = IF bad THEN "MQTTBadResponse" ELSE IF refused THEN "MQTTServerRefused" ELSE "MQTTSuccess"
    BY <2>4, <2>5 DEF readSubackStatus
  <2>8. ~bad <=> \A i \in DOMAIN codes : codes[i] \in {0, 1, 2, 128}
    BY <2>4
  <2>9. PICK s : s = readSubackStatus(codes)
    OBVIOUS
  <2>10. /\ s \in {"MQTTSuccess", "MQTTServerRefused"} <=> ~bad
         /\ s # "MQTTBadResponse" => (s = "MQTTServerRefused" <=> refused)
    BY <2>6, <2>7, <2>9
  <2>11. MQTT_DeserializeAck(144, body).status = s
    BY <1>1, <2>1, <2>9
  <2>12. MQTT_GetSubAckStatusCodes(144, body).codes = codes
    BY <2>3
  <2>13. refused <=> \E i \in DOMAIN codes : codes[i] = 128
    BY <2>5
  <2> QED BY <1>2, <1>3, <1>4, <2>2, <2>8, <2>10, <2>11, <2>12, <2>13
<1> QED BY <1>5, <1>6

LEMMA ConnackRight ==
  ASSUME NEW body \in Seq(Octet)
  PROVE  LET ack == MQTT_DeserializeAck(32, body)
         IN /\ ack.status = "MQTTSuccess" <=> body \in {<<0, 0>>, <<1, 0>>}
            /\ ack.status = "MQTTServerRefused" <=> Len(body) = 2 /\ body[1] = 0 /\ body[2] \in 1..5
<1>1. MQTT_DeserializeAck(32, body) = deserializeConnack(body)
  <2>1. /\ 32 = Type.CONNACK /\ 32 # Type.SUBACK /\ 32 # Type.PINGRESP
        /\ 32 \notin {Type.UNSUBACK, Type.PUBACK, Type.PUBREC, Type.PUBREL, Type.PUBCOMP}
    BY TypesAre
  <2> QED BY <2>1 DEF MQTT_DeserializeAck
<1>2. PICK status : status = deserializeConnack(body).status
  OBVIOUS
<1>3. Len(<<0, 0>>) = 2 /\ Len(<<1, 0>>) = 2
  OBVIOUS
<1>4. CASE Len(body) # 2
  <2>1. status = "MQTTBadResponse"
    BY <1>2, <1>4 DEF deserializeConnack, BadResponse
  <2>2. body \notin {<<0, 0>>, <<1, 0>>}
    BY <1>3, <1>4
  <2>3. status # "MQTTSuccess" /\ status # "MQTTServerRefused"
    BY <2>1
  <2> QED BY <1>1, <1>2, <1>4, <2>2, <2>3
<1>5. CASE Len(body) = 2
  <2>6. body[1] \in Octet /\ body[2] \in Octet
    BY <1>5
  <2>1. PICK a \in Octet : a = body[1]
    BY <2>6
  <2>2. PICK b \in Octet : b = body[2]
    BY <2>6
  <2>3. a \in Nat /\ b \in Nat
    BY OctetIs
  <2>4. body = <<a, b>>
    BY <1>5, <2>1, <2>2, PairIs
  <2>5. body \in {<<0, 0>>, <<1, 0>>} <=> (a = 0 /\ b = 0) \/ (a = 1 /\ b = 0)
    BY <2>4
  <2> DEFINE bad == a \notin {0, 1} \/ (a = 1 /\ b # 0) \/ b > 5
  <2>7. status = IF bad THEN "MQTTBadResponse" ELSE IF b > 0 THEN "MQTTServerRefused" ELSE "MQTTSuccess"
    <3>1. CASE bad
      <4>1. Len(body) # 2 \/ body[1] \notin {0, 1} \/ (body[1] = 1 /\ body[2] # 0) \/ body[2] > 5
        BY <2>1, <2>2, <3>1
      <4>2. deserializeConnack(body) = BadResponse
        BY <4>1 DEF deserializeConnack
      <4> QED BY <1>2, <3>1, <4>2 DEF BadResponse
    <3>2. CASE ~bad
      <4>1. ~(Len(body) # 2 \/ body[1] \notin {0, 1} \/ (body[1] = 1 /\ body[2] # 0) \/ body[2] > 5)
        BY <1>5, <2>1, <2>2, <3>2
      <4>2. deserializeConnack(body) = [status |-> IF body[2] > 0 THEN "MQTTServerRefused" ELSE "MQTTSuccess", sessionPresent |-> body[1] = 1]
        BY <4>1 DEF deserializeConnack
      <4> QED BY <1>2, <2>2, <3>2, <4>2
    <3> QED BY <3>1, <3>2
  <2>8. status = "MQTTSuccess" <=> (a = 0 /\ b = 0) \/ (a = 1 /\ b = 0)
    <3>1. status = "MQTTSuccess" <=> ~bad /\ ~(b > 0)
      <4> HIDE DEF bad
      <4> QED BY <2>7
    <3>2. ~bad /\ ~(b > 0) <=> (a = 0 /\ b = 0) \/ (a = 1 /\ b = 0)
      BY <2>3
    <3> QED BY <3>1, <3>2
  <2>9. status = "MQTTServerRefused" <=> a = 0 /\ b \in 1..5
    <3>1. status = "MQTTServerRefused" <=> ~bad /\ b > 0
      <4> HIDE DEF bad
      <4> QED BY <2>7
    <3>2. ~bad /\ b > 0 <=> a = 0 /\ b \in 1..5
      BY <2>3
    <3> QED BY <3>1, <3>2
  <2> QED BY <1>1, <1>2, <1>5, <2>1, <2>2, <2>5, <2>8, <2>9
<1> QED BY <1>4, <1>5

\* Only what may come in is taken for an acknowledgement.
LEMMA AckTypes ==
  ASSUME NEW type, NEW body, MQTT_DeserializeAck(type, body).status # "MQTTBadResponse"
  PROVE  incomingPacketValid(type)
<1>1. type \in {32, 64, 80, 98, 112, 144, 176, 208}
  <2> SUFFICES ASSUME type \notin {32, 64, 80, 98, 112, 144, 176, 208} PROVE FALSE
    OBVIOUS
  <2>1. /\ type # Type.CONNACK /\ type # Type.SUBACK /\ type # Type.PINGRESP
        /\ type \notin {Type.UNSUBACK, Type.PUBACK, Type.PUBREC, Type.PUBREL, Type.PUBCOMP}
    BY TypesAre
  <2>2. MQTT_DeserializeAck(type, body) = BadResponse
    BY <2>1 DEF MQTT_DeserializeAck
  <2> QED BY <2>2 DEF BadResponse
<1>2. CASE type = 98
  <2>1. (type \div 16) * 16 = 96 /\ (type \div 2) % 2 = 1
    BY <1>2
  <2>2. CheckBit(type, 1)
    BY <2>1, CheckBitIs
  <2> QED BY <2>1, <2>2 DEF incomingPacketValid
<1>3. CASE type # 98
  <2>1. (type \div 16) * 16 = type
    BY <1>1, <1>3
  <2>2. type \in {Type.CONNACK, Type.PUBLISH, Type.PUBACK, Type.PUBREC, Type.PUBCOMP, Type.SUBACK, Type.UNSUBACK, Type.PINGRESP}
    BY <1>1, <1>3, TypesAre
  <2> QED BY <2>1, <2>2 DEF incomingPacketValid
<1> QED BY <1>2, <1>3

LEMMA ReadersAgree ==
  ASSUME NEW type \in Octet, NEW body \in Seq(Octet), Len(body) \in Length
  PROVE  LET bytes == FixedHeader(type, Len(body)) \o body
         IN MQTT_GetIncomingPacketTypeAndLength(bytes) = MQTT_ProcessIncomingPacketTypeAndLength(bytes)
<1>1. PICK n \in Length : n = Len(body)
  OBVIOUS
<1>2. PICK bytes : bytes = FixedHeader(type, n) \o body
  OBVIOUS
<1>3. HeaderRight(bytes, type, n)
  BY <1>1, <1>2, HeaderIsRight
<1>4. processRemainingLength(Tail(bytes)) = getRemainingLength(Tail(bytes))
  BY <1>3 DEF HeaderRight
<1>5. MQTT_GetIncomingPacketTypeAndLength(bytes) = MQTT_ProcessIncomingPacketTypeAndLength(bytes)
  BY <1>4 DEF MQTT_GetIncomingPacketTypeAndLength, MQTT_ProcessIncomingPacketTypeAndLength, Incoming
<1> QED BY <1>1, <1>2, <1>5

\* A publish that is accepted: its flags, and its fields one behind the other.
LEMMA AcceptedFlags ==
  ASSUME NEW type \in Octet, type \div 16 = 3, processPublishFlags(type), NEW p,
         p.qos = (type \div 2) % 4, p.retain = CheckBit(type, 0), p.dup = CheckBit(type, 3)
  PROVE  p.qos \in 0..2 /\ PublishFlags(p) = type
<1>1. type \in Nat
  BY OctetIs
<1>2. ~((type \div 2) % 2 = 1 /\ (type \div 4) % 2 = 1)
  BY CheckBitIs DEF processPublishFlags
<1>3. PICK q : q = (type \div 2) % 4
  OBVIOUS
<1>4. /\ q \in 0..2
      /\ type = 48 + (IF q = 1 THEN 2 ELSE 0) + (IF q = 2 THEN 4 ELSE 0)
                  + (IF (type \div 1) % 2 = 1 THEN 1 ELSE 0) + (IF (type \div 8) % 2 = 1 THEN 8 ELSE 0)
  BY <1>1, <1>2, <1>3, FlagsWritten
<1>5. PICK r : r = IF (type \div 1) % 2 = 1 THEN 1 ELSE 0
  OBVIOUS
<1>6. PICK d : d = IF (type \div 8) % 2 = 1 THEN 8 ELSE 0
  OBVIOUS
<1>7. r = IF p.retain THEN 1 ELSE 0
  BY <1>5, CheckBitIs
<1>8. d = IF p.dup THEN 8 ELSE 0
  BY <1>6, CheckBitIs
<1>9. PublishFlags(p) = 48 + (IF q = 1 THEN 2 ELSE 0) + (IF q = 2 THEN 4 ELSE 0) + r + d
  BY <1>3, <1>7, <1>8, PublishFlagsAre
<1> QED BY <1>3, <1>4, <1>5, <1>6, <1>9

\* What is read of an accepted PUBLISH.
Accepted(type, body, qos, t, rest, id, payload) ==
  /\ type \div 16 = 3 /\ processPublishFlags(type)
  /\ qos = (type \div 2) % 4 /\ t = UINT16_DECODE(body) /\ rest = From(body, t + 3)
  /\ Len(body) >= 3 + (IF qos = 0 THEN 0 ELSE 2) /\ Len(body) >= (t + 2) + (IF qos = 0 THEN 0 ELSE 2)
  /\ payload = IF qos = 0 THEN rest ELSE From(rest, 3)
  /\ id = IF qos = 0 THEN 0 ELSE UINT16_DECODE(rest)
PublishRead(type, body, t, payload, qos) ==
  [qos |-> qos, retain |-> CheckBit(type, 0), dup |-> CheckBit(type, 3), topic |-> SubSeq(body, 3, t + 2), payload |-> payload]
LEMMA AcceptedIs ==
  ASSUME NEW type, NEW body, MQTT_DeserializePublish(type, body).status = "MQTTSuccess"
  PROVE  \E qos, t, rest, id, payload :
           /\ Accepted(type, body, qos, t, rest, id, payload)
           /\ MQTT_DeserializePublish(type, body) =
                [status |-> "MQTTSuccess", packetId |-> id, publish |-> PublishRead(type, body, t, payload, qos)]
<1>1. Refused.status # "MQTTSuccess" /\ BadResponse.status # "MQTTSuccess"
  BY DEF Refused, BadResponse
<1>2. type \div 16 = 3 /\ MQTT_DeserializePublish(type, body) = deserializePublish(type, body)
  BY <1>1 DEF MQTT_DeserializePublish
<1>3. PICK qos : qos = (type \div 2) % 4
  OBVIOUS
<1>4. PICK t : t = UINT16_DECODE(body)
  OBVIOUS
<1>5. PICK rest : rest = From(body, t + 3)
  OBVIOUS
<1>6. PICK payload : payload = IF qos = 0 THEN rest ELSE From(rest, 3)
  OBVIOUS
<1>7. PICK id : id = IF qos = 0 THEN 0 ELSE UINT16_DECODE(rest)
  OBVIOUS
<1>8. deserializePublish(type, body) =
        IF ~processPublishFlags(type) THEN BadResponse
        ELSE IF ~checkPublishRemainingLength(Len(body), qos, 3) THEN BadResponse
        ELSE IF ~checkPublishRemainingLength(Len(body), qos, t + 2) THEN BadResponse
        ELSE IF qos > 0 /\ id = 0 THEN BadResponse
        ELSE [status |-> "MQTTSuccess", packetId |-> id, publish |-> PublishRead(type, body, t, payload, qos)]
  BY <1>3, <1>4, <1>5, <1>6, <1>7 DEF deserializePublish, PublishRead
<1>9. /\ processPublishFlags(type) /\ checkPublishRemainingLength(Len(body), qos, 3)
      /\ checkPublishRemainingLength(Len(body), qos, t + 2)
      /\ deserializePublish(type, body) = [status |-> "MQTTSuccess", packetId |-> id, publish |-> PublishRead(type, body, t, payload, qos)]
  BY <1>1, <1>2, <1>8
<1>10. Accepted(type, body, qos, t, rest, id, payload)
  BY <1>2, <1>3, <1>4, <1>5, <1>6, <1>7, <1>9 DEF Accepted, checkPublishRemainingLength
<1> QED BY <1>2, <1>9, <1>10

SentBack(type, body, p, id) == serializePublishCommon(p, Len(body), id, TRUE) = FixedHeader(type, Len(body)) \o body
LEMMA AcceptedPublish ==
  ASSUME NEW type \in Octet, NEW body \in Seq(Octet), Len(body) \in Length,
         NEW qos, NEW t, NEW rest, NEW id, NEW payload, Accepted(type, body, qos, t, rest, id, payload),
         NEW p, p = PublishRead(type, body, t, payload, qos)
  PROVE  SentBack(type, body, p, id)
<1>1. PICK l \in Nat : l = Len(body)
  OBVIOUS
<1>2. PICK n : n = IF qos = 0 THEN 0 ELSE 2
  OBVIOUS
<1>3. n = 0 \/ n = 2
  BY <1>2
<1>4. l >= 3 + n /\ l >= (t + 2) + n
  BY <1>1, <1>2 DEF Accepted
<1>5. l >= 2
  BY <1>3, <1>4
<1>6. t \in Word /\ body = UINT16(t) \o From(body, 3)
  BY <1>1, <1>5, WordRead, WordFirst DEF Accepted
<1>7. t \in Nat
  BY <1>6, WordIs
<1>8. p.qos \in 0..2 /\ PublishFlags(p) = type /\ p.qos = qos /\ p.topic = SubSeq(body, 3, t + 2) /\ p.payload = payload
  <2>1. /\ p.qos = qos /\ p.retain = CheckBit(type, 0) /\ p.dup = CheckBit(type, 3)
        /\ p.topic = SubSeq(body, 3, t + 2) /\ p.payload = payload
    BY DEF PublishRead
  <2>2. type \div 16 = 3 /\ processPublishFlags(type) /\ qos = (type \div 2) % 4
    BY DEF Accepted
  <2> QED BY <2>1, <2>2, AcceptedFlags
<1>9. PICK T : T = SubSeq(body, 2 + 1, t + 2)
  OBVIOUS
<1>10. T \in Seq(Octet) /\ Len(T) = t
  <2>1. 2 \in Nat /\ t + 2 \in Nat /\ 2 <= t + 2 /\ t + 2 <= l
    BY <1>3, <1>4, <1>7
  <2>2. T \in Seq(Octet) /\ Len(T) = (t + 2) - 2
    BY <1>1, <1>9, <2>1, SubSeqAt
  <2> QED BY <1>7, <2>2
<1>11. PICK R : R = SubSeq(body, (t + 2) + 1, l)
  OBVIOUS
<1>12. R \in Seq(Octet) /\ Len(R) = l - (t + 2)
  <2>1. t + 2 \in Nat /\ t + 2 <= l /\ l <= Len(body)
    BY <1>1, <1>3, <1>4, <1>7
  <2> QED BY <1>11, <2>1, SubSeqAt
<1>13. R = rest
  <2>1. (t + 2) + 1 = t + 3
    BY <1>7
  <2> QED BY <1>1, <1>11, <2>1 DEF Accepted, From
<1>14. From(body, 3) = T \o R
  <2>1. 2 \in Nat /\ t + 2 \in Nat /\ 2 <= t + 2 /\ t + 2 <= l /\ l <= Len(body)
    BY <1>1, <1>3, <1>4, <1>7
  <2>2. SubSeq(body, 2 + 1, l) = T \o R
    BY <1>9, <1>11, <2>1, SubSeqJoin
  <2>3. 2 + 1 = 3
    OBVIOUS
  <2> QED BY <1>1, <2>2, <2>3 DEF From
<1>15. PICK U \in Seq(Octet) : U = UINT16(t)
  BY <1>6, UINT16Facts
<1>16. PICK E : E = U \o T
  OBVIOUS
<1>17. E \in Seq(Octet)
  BY <1>10, <1>16, ConcatProperties
<1>18. encodeString(p.topic) = E
  <2>1. p.topic = T
    <3>1. 2 + 1 = 3
      OBVIOUS
    <3> QED BY <1>8, <1>9, <3>1
  <2> QED BY <1>10, <1>15, <1>16, <2>1 DEF encodeString
<1>19. body = E \o R
  <2>1. T \in Seq(Octet) /\ R \in Seq(Octet)
    BY <1>10, <1>12
  <2>2. SameThree(U, T, R)
    BY <2>1, JoinThree
  <2> QED BY <1>6, <1>14, <1>15, <1>16, <2>2 DEF SameThree
<1>20. PICK I : I = PacketId(p, id)
  OBVIOUS
<1>21. I \in Seq(Octet) /\ payload \in Seq(Octet) /\ R = I \o payload
  <2>1. qos \in 0..2
    BY <1>8
  <2>2. CASE qos = 0
    <3>1. I = <<>>
      BY <1>8, <1>20, <2>2 DEF PacketId
    <3>2. payload = R
      BY <1>13, <2>2 DEF Accepted
    <3>3. <<>> \o R = R /\ <<>> \in Seq(Octet)
      BY <1>12, ConcatEmptySeq, EmptySeq
    <3> QED BY <1>12, <3>1, <3>2, <3>3
  <2>3. CASE qos # 0
    <3>1. Len(R) >= 2
      <4>1. n = 2
        BY <1>2, <2>3
      <4> QED BY <1>4, <1>7, <1>12, <4>1
    <3>2. id = UINT16_DECODE(R) /\ payload = From(R, 3)
      BY <1>13, <2>3 DEF Accepted
    <3>3. R \in Seq(Octet)
      BY <1>12
    <3>4. id \in Word /\ R = UINT16(id) \o From(R, 3)
      BY <3>1, <3>2, <3>3, WordRead, WordFirst
    <3>5. qos > 0
      BY <2>1, <2>3
    <3>6. I = UINT16(id)
      BY <1>8, <1>20, <3>5 DEF PacketId
    <3>7. UINT16(id) \in Seq(Octet)
      BY <3>4, UINT16Facts
    <3>8. From(R, 3) \in Seq(Octet)
      <4>1. 3 \in 1..Len(R) + 1
        BY <3>1, <3>3
      <4> QED BY <3>3, <4>1, FromAt
    <3> QED BY <3>2, <3>4, <3>6, <3>7, <3>8
  <2> QED BY <2>2, <2>3
<1>22. PICK F \in Seq(Octet) : F = FixedHeader(type, l)
  BY <1>1, FixedHeaderFacts
<1>23. serializePublishCommon(p, l, id, TRUE) = ((F \o E) \o I) \o payload
  BY <1>8, <1>18, <1>20, <1>22 DEF serializePublishCommon
<1>24. I \in Seq(Octet) /\ payload \in Seq(Octet)
  BY <1>21
<1>25. SameFour(F, E, I, payload)
  BY <1>17, <1>24, JoinFour
<1>26. ((F \o E) \o I) \o payload = F \o body
  BY <1>19, <1>21, <1>25 DEF SameFour
<1> QED BY <1>1, <1>22, <1>23, <1>26 DEF SentBack

\* Of any bytes that come in, what is accepted is what a peer may send.
LEMMA IncomingIsRight ==
  ASSUME NEW type \in Octet, NEW body \in Seq(Octet), Len(body) \in Length
  PROVE  IncomingRight(type, body)
<1> DEFINE ack == MQTT_DeserializeAck(type, body)
           publish == MQTT_DeserializePublish(type, body)
           codes == From(body, 3)
           bytes == FixedHeader(type, Len(body)) \o body
<1>1. type \in {64, 80, 98, 112} /\ ack.status = "MQTTSuccess" => MQTT_SerializeAck(type, ack.packetId, 4).bytes = bytes
  BY AckSentBack
<1>2. type = 144 => /\ ack.status \in {"MQTTSuccess", "MQTTServerRefused"} <=>
                         Len(body) > 2 /\ UINT16_DECODE(body) > 0 /\ \A i \in DOMAIN codes : codes[i] \in {0, 1, 2, 128}
                    /\ ack.status # "MQTTBadResponse" =>
                         /\ MQTT_GetSubAckStatusCodes(type, body).codes = codes
                         /\ ack.status = "MQTTServerRefused" <=> \E i \in DOMAIN codes : codes[i] = 128
  BY SubackRight
<1>3. type = 32 => /\ ack.status = "MQTTSuccess" <=> body \in {<<0, 0>>, <<1, 0>>}
                   /\ ack.status = "MQTTServerRefused" <=> Len(body) = 2 /\ body[1] = 0 /\ body[2] \in 1..5
  BY ConnackRight
<1>4. ASSUME publish.status = "MQTTSuccess"
      PROVE  serializePublishCommon(publish.publish, Len(body), publish.packetId, TRUE) = bytes
  <2>1. PICK qos, t, rest, id, payload :
           /\ Accepted(type, body, qos, t, rest, id, payload)
           /\ publish = [status |-> "MQTTSuccess", packetId |-> id, publish |-> PublishRead(type, body, t, payload, qos)]
    BY <1>4, AcceptedIs
  <2>2. PICK p : p = PublishRead(type, body, t, payload, qos)
    OBVIOUS
  <2>3. publish.publish = p /\ publish.packetId = id
    <3> HIDE DEF publish
    <3> QED BY <2>1, <2>2
  <2>4. serializePublishCommon(p, Len(body), id, TRUE) = bytes
    <3> HIDE DEF publish
    <3>1. Accepted(type, body, qos, t, rest, id, payload)
      BY <2>1
    <3>2. SentBack(type, body, p, id)
      BY <2>2, <3>1, AcceptedPublish
    <3> QED BY <3>2 DEF SentBack
  <2> HIDE DEF publish, bytes
  <2> QED BY <2>3, <2>4
<1>5. MQTT_GetIncomingPacketTypeAndLength(bytes) = MQTT_ProcessIncomingPacketTypeAndLength(bytes)
  BY ReadersAgree
<1>6. ack.status # "MQTTBadResponse" => incomingPacketValid(type)
  BY AckTypes
<1> QED BY <1>1, <1>2, <1>3, <1>4, <1>5, <1>6 DEF IncomingRight

-----------------------------------------------------------------------------
(* Any packet *)

\* What the codec is asked about is one of the inputs.
PacketAsked ==
  \/ packet.kind = "none"
  \/ packet.kind = "publish" /\ packet.value.publish \in Publishes /\ packet.value.packetId \in PacketIds
  \/ packet.kind = "size" /\ packet.value \in PublishSizes
  \/ packet.kind = "connect" /\ packet.value \in Connects
  \/ packet.kind = "subscribe" /\ packet.value.list \in SubscriptionLists /\ packet.value.packetId \in PacketIds
  \/ packet.kind = "length" /\ packet.value \in LengthFields
  \/ packet.kind = "incoming" /\ packet.value \in IncomingPackets

LEMMA PacketAskedKept == PacketAsked /\ [PacketNext]_packet => PacketAsked'
<1> SUFFICES ASSUME PacketAsked, [PacketNext]_packet PROVE PacketAsked'
  OBVIOUS
<1>1. CASE UNCHANGED packet
  BY <1>1 DEF PacketAsked
<1>2. CASE AskPublish
  BY <1>2 DEF PacketAsked, AskPublish, Ask
<1>3. CASE AskSize
  BY <1>3 DEF PacketAsked, AskSize, Ask
<1>4. CASE AskConnect
  BY <1>4 DEF PacketAsked, AskConnect, Ask
<1>5. CASE AskSubscribe
  BY <1>5 DEF PacketAsked, AskSubscribe, Ask
<1>6. CASE AskLength
  BY <1>6 DEF PacketAsked, AskLength, Ask
<1>7. CASE AskIncoming
  BY <1>7 DEF PacketAsked, AskIncoming, Ask
<1> QED BY <1>1, <1>2, <1>3, <1>4, <1>5, <1>6, <1>7 DEF PacketNext

LEMMA AskedIsFaithful == PacketAsked => PacketsFaithful
<1> SUFFICES ASSUME PacketAsked PROVE PacketsFaithful
  OBVIOUS
<1>1. CASE packet.kind = "none"
  BY <1>1, SmallIsRight DEF PacketsFaithful
<1>2. CASE packet.kind = "publish" /\ packet.value.publish \in Publishes /\ packet.value.packetId \in PacketIds
  <2>1. packet.value.publish \in PublishInfo /\ packet.value.packetId \in Word
    BY <1>2, PacketsAssumption
  <2>2. PublishRight(packet.value.publish, packet.value.packetId)
    BY <2>1, PublishIsRight
  <2> QED BY <1>2, <2>2 DEF PacketsFaithful
<1>3. CASE packet.kind = "size" /\ packet.value \in PublishSizes
  <2>1. packet.value \in [topic : Word, payload : Nat, qos : 0..2]
    BY <1>3, PacketsAssumption
  <2>2. packet.value.topic \in Word /\ packet.value.payload \in Nat /\ packet.value.qos \in 0..2
    BY <2>1
  <2>3. SizeRight(packet.value.topic, packet.value.payload, packet.value.qos)
    BY <2>2, SizesAreRight
  <2> QED BY <1>3, <2>3 DEF PacketsFaithful
<1>4. CASE packet.kind = "connect" /\ packet.value \in Connects
  <2>1. ConnectRight(packet.value)
    BY <1>4, PacketsAssumption, ConnectIsRight
  <2> QED BY <1>4, <2>1 DEF PacketsFaithful
<1>5. CASE packet.kind = "subscribe" /\ packet.value.list \in SubscriptionLists /\ packet.value.packetId \in PacketIds
  <2>1. packet.value.list \in Seq(SubscribeInfo) /\ packet.value.packetId \in Word
    BY <1>5, PacketsAssumption
  <2>2. SubscribeRight(packet.value.list, packet.value.packetId)
    BY <2>1, SubscribeIsRight
  <2> QED BY <1>5, <2>2 DEF PacketsFaithful
<1>6. CASE packet.kind = "length" /\ packet.value \in LengthFields
  <2>1. LengthRight(packet.value)
    BY <1>6, PacketsAssumption, LengthsAreRight
  <2> QED BY <1>6, <2>1 DEF PacketsFaithful
<1>7. CASE packet.kind = "incoming" /\ packet.value \in IncomingPackets
  <2>1. PICK body : body = packet.value.data
    OBVIOUS
  <2>2. packet.value.type \in Octet /\ body \in Seq(Octet) /\ Len(body) <= MQTT_MAX_REMAINING_LENGTH
    BY <1>7, <2>1, PacketsAssumption
  <2>3. Len(body) \in Length
    <3>1. PICK n \in Nat : n = Len(body)
      BY <2>2
    <3>2. n <= 268435455
      BY <2>2, <3>1 DEF MQTT_MAX_REMAINING_LENGTH
    <3> QED BY <3>1, <3>2, LengthIs
  <2>4. IncomingRight(packet.value.type, body)
    BY <2>2, <2>3, IncomingIsRight
  <2> QED BY <1>7, <2>1, <2>4 DEF PacketsFaithful
<1> QED BY <1>1, <1>2, <1>3, <1>4, <1>5, <1>6, <1>7 DEF PacketAsked

\* Whatever core_mqtt_serializer.c writes, for any arguments of its types, is
\* read back field by field, has the size announced for it and is what the
\* vectors of core_mqtt.c send, call by call; whatever it accepts is what a
\* peer may have sent, with its meaning; and no length is read in two ways.
THEOREM PacketsAlwaysFaithful == PacketSpec => []PacketsFaithful
<1>1. PacketInit => PacketAsked
  BY DEF PacketInit, PacketAsked
<1> QED BY <1>1, PacketAskedKept, AskedIsFaithful, PTL DEF PacketSpec
=============================================================================
