------------------------------ MODULE DhtSensor ------------------------------
(***************************************************************************)
(* Reading the DHT11 for /dhtSensor.json: dht.c with interrupts off inside *)
(* its critical section, and the handler that reports what came of it.     *)
(*                                                                         *)
(* A byte has ByteBits bits.  The sensor and the wire are external: every  *)
(* pulse lasts what it should, or something else, or for ever.             *)
(***************************************************************************)
EXTENDS Integers

CONSTANTS ByteBits,     \* 8
          LowPulses,    \* what the low pulse before a bit may last, in us
          HighPulses    \* what the high pulse of a bit may last: [0..1 -> sets]

ASSUME SensorAssumption == ByteBits \in Nat \ {0}

VARIABLES pc,        \* where the handler is
          critical,  \* how deep the task is in critical sections
          bit,       \* bits read
          data,      \* the five bytes
          response,  \* the last one
          sent,      \* external: the four bytes and the checksum the sensor sends
          garbled    \* external: the byte in which a pulse went wrong, or -1
sensorVars == <<pc, critical, bit, data, response, sent, garbled>>

DHT_DATA_BYTES == 5
DHT_DATA_BITS == DHT_DATA_BYTES * ByteBits
Byte == 0 .. 2^ByteBits - 1
Bytes == [0 .. DHT_DATA_BYTES - 1 -> Byte]
NoData == [b \in 0 .. DHT_DATA_BYTES - 1 |-> 0]
Failed == [error |-> TRUE, humidity |-> 0, temperature |-> 0]

checksum(d) == (d[0] + d[1] + d[2] + d[3]) % 2^ByteBits

SensorInit == /\ pc = "idle" /\ critical = 0 /\ bit = 0 /\ data = NoData /\ garbled = -1
              /\ response = Failed /\ sent = NoData

-----------------------------------------------------------------------------
\* dht_await_pin_state polls every 2 us, the first time after 2 us.
DHT_TIMER_INTERVAL == 2
Polled(us) == IF us <= 2 THEN 0 ELSE ((us - 1) \div DHT_TIMER_INTERVAL) * DHT_TIMER_INTERVAL
dht_await_pin_state(us, timeout) == us >= 0 /\ Polled(us) < timeout

\* A pulse that lasts what it should tells its bit: the high one is longer than
\* the low one before it for a 1, and not for a 0 (the comment at dht.c:72).
ASSUME PulsesAssumption ==
  \A low \in LowPulses : \A value \in 0..1 : \A high \in HighPulses[value] :
    Polled(high) > Polled(low) <=> value = 1

\* Mutant: the macro returns without leaving the critical section.
CHECK_LOGE_Stays == pc' = "failed" /\ UNCHANGED critical
\* A check that fails: the section is left, and the function returns the error.
CHECK_LOGE == pc' = "failed" /\ critical' = critical - 1

\* A request for /dhtSensor.json.  The sensor sends any reading.
dht_read_data ==
  /\ pc = "idle"
  /\ pc' = "B" /\ critical' = critical + 1 /\ bit' = 0 /\ data' = NoData
  /\ \E reading \in [0..3 -> Byte] :
        sent' = [b \in 0 .. DHT_DATA_BYTES - 1 |-> IF b = 4 THEN checksum(reading) ELSE reading[b]]
  /\ garbled' = -1 /\ response' = Failed

\* The phases before the data; -1 is a pulse without end.
Phase(timeout, next) ==
  /\ \E us \in {timeout, -1} : IF dht_await_pin_state(us, timeout) THEN pc' = next /\ UNCHANGED critical ELSE CHECK_LOGE
  /\ UNCHANGED <<bit, data, response, sent, garbled>>
PhaseB == pc = "B" /\ Phase(40, "C")
PhaseC == pc = "C" /\ Phase(88, "D")
PhaseD == pc = "D" /\ Phase(88, "bits")

SentBit == (sent[bit \div ByteBits] \div 2^(ByteBits - 1 - (bit % ByteBits))) % 2
\* One bit of the loop.  A wrong pulse, which may spoil one byte of a reading:
\* the high one of the other value, or one without end.
dht_fetch_data ==
  /\ pc = "bits" /\ bit < DHT_DATA_BITS
  /\ \E low \in LowPulses \cup {-1}, high \in HighPulses[0] \cup HighPulses[1] \cup {-1} :
       LET b == bit \div ByteBits
           m == bit % ByteBits
           right == low \in LowPulses /\ high \in HighPulses[SentBit]
           value == IF Polled(high) > Polled(low) THEN 1 ELSE 0
       IN /\ right \/ garbled \in {-1, b}
          /\ garbled' = IF right THEN garbled ELSE b
          /\ IF dht_await_pin_state(low, 65) /\ dht_await_pin_state(high, 75)
               THEN /\ data' = [data EXCEPT ![b] = (IF m = 0 THEN 0 ELSE @) + value * 2^(ByteBits - 1 - m)]
                    /\ bit' = bit + 1
                    /\ UNCHANGED <<pc, critical>>
               ELSE CHECK_LOGE /\ UNCHANGED <<bit, data>>
  /\ UNCHANGED <<response, sent>>

\* dht_fetch_data returned ESP_OK: the caller leaves the section.
Fetched == /\ pc = "bits" /\ bit = DHT_DATA_BITS
           /\ pc' = "fetched" /\ critical' = critical - 1
           /\ UNCHANGED <<bit, data, response, sent, garbled>>

dht_convert_data(msb) == msb * 10

\* Mutant: the last byte of the reading is left out of the sum.
sumMatchesShort(d) == d[4] = (d[0] + d[1] + d[2]) % 2^ByteBits
sumMatches(d) == d[4] = checksum(d)
http_server_get_dht_sensor_readings_json_handler ==
  /\ pc \in {"fetched", "failed"}
  /\ response' = IF pc = "fetched" /\ sumMatches(data)
                   THEN [error |-> FALSE, humidity |-> dht_convert_data(data[0]), temperature |-> dht_convert_data(data[2])]
                   ELSE Failed
  /\ pc' = "idle" /\ bit' = 0 /\ data' = NoData
  /\ UNCHANGED <<critical, sent, garbled>>

SensorNext == \/ dht_read_data \/ PhaseB \/ PhaseC \/ PhaseD \/ dht_fetch_data \/ Fetched
              \/ http_server_get_dht_sensor_readings_json_handler
SensorSpec == SensorInit /\ [][SensorNext]_sensorVars
-----------------------------------------------------------------------------
\* Interrupts are off from the call to the end of the pulses and at no other
\* time, whichever pulse does not come.
InterruptsOff == critical = IF pc \in {"B", "C", "D", "bits"} THEN 1 ELSE 0

\* Between two requests interrupts are on, and a reading that was reported is
\* the one the sensor sent, whatever happened to one of its bytes on the wire
\* and whichever pulse did not come.
ReadingServed == pc = "idle" =>
  /\ critical = 0
  /\ ~response.error => /\ response.humidity = dht_convert_data(sent[0])
                        /\ response.temperature = dht_convert_data(sent[2])
=============================================================================
