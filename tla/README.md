# Verification of the ESP32 Wi-Fi, HTTP and OTA firmware

TLA+ models of the firmware in `main/`, of its sensor driver and of the AWS
libraries it is built with (coreMQTT, coreJSON), model-checked with TLC on small
instances, with theorems that TLAPS proves for every value of the constants.
`PROJECT.json` is the index: which definition stands for which lines, which run
checks which property, which change to the code each property notices, and
which hazard each one is there for.

Contents: 1 the system, 2 the modules, 3 the runs, 4 the bounds, 5 fairness and
assumptions, 6 the proofs, 7 where the code and its comments disagree, 8 what
is not modelled, 9 the plan.

## 1. The system

The firmware brings up a soft access point with a web page on it. Through the
page a user gives the device the credentials of another network, reads its
status and the time, and uploads new firmware. Everything runs in FreeRTOS
tasks that exchange messages over two queues of three places
(`wifi_app_queue_handle` and `http_server_monitor_queue_handle`); every send on
either blocks without a timeout.

```
 Wi-Fi driver --notices--> event task            button ISR --semaphore--> button task
      ^                       | GOT_IP, DISCONNECTED           | USER_REQUESTED
      | set_config, connect,  v                                v
      | disconnect        [wifi queue] <-- connect/disconnect requests -- httpd <--> browser
      +------------------ wifi_app_task                                    |  ^
        (the event task      |    |   \--callback--> time task, MQTT       |  | status flags
         connects too)       |    v                      |                 v  |
                   NVS <-----+  [monitor queue] <--------+---- OTA outcome    |
                                  v                                           |
                             http_server_monitor ------- Wi-Fi, OTA, time ----+
                                  \--> restart timer --> bootloader
```

### Components

| Component | State it keeps | Operations | What makes it correct | Status |
|---|---|---|---|---|
| Wi-Fi application (`wifi_app.c`) | queue, four event bits, `g_retry_number`, the shared `wifi_config` | the six messages of `wifi_app_task`; `wifi_app_event_handler` in the event task | a stop stays a stop; the connected bit follows the link; every attempt announced gets one outcome; no send blocks for ever | modelled: `WifiApp` |
| HTTP server monitor (`http_server_monitor.c`) | queue, `g_wifi_connect_status`, `g_fw_update_status`, `g_is_local_time_set` | publish the state each message stands for, arm the restart timer | the queue is there before the first message; with nothing under way the status is true | modelled, by topic: `WifiApp`, `OtaUpdate`, `SntpTimeSync` |
| Wi-Fi request handlers (`http_handlers_wifi.c`) | none; they write `wifi_config` and read the status | connect, disconnect, status, connection info | credentials of two requests do not mix; a handler answers | modelled: `WifiApp`, `StaCreds` |
| Reset button (`wifi_reset_button.c`) | binary semaphore | interrupt, task, 2 s of debounce | a press is served | modelled: `WifiApp` |
| OTA update (`http_handlers_ota.c`, `partitions.csv`) | two partitions, otadata, handle, `g_fw_update_status`, timer | upload, restart; the status handler only reads | always a bootable image, never an older one; success means selected, and ends in a restart | modelled: `OtaUpdate`, `Firmware` |
| Credential store (`app_nvs.c`) | two blobs in NVS | save, load, clear | what is saved has connected; what is cleared stays cleared | modelled: `StaCreds` |
| Time service (`sntp_time_sync.c`, `http_handlers_sntp.c`) | `sntp_op_mode_set`, one task per connection | start at a connection, re-check every 10 s, answer the page | announced only when it runs; a connection leads to a time | modelled: `SntpTimeSync` |
| HTTP server start-up (`http_server.c`) | server handle, monitor task and queue | `http_server_start`; `http_server_stop` is never called | monitor and queue exist whether or not httpd does | partly: `WifiApp` |
| Boot (`main.c`) | the connected callback | order of start-up; the callback's calls | the callback is set before it is needed | partly: `WifiApp`, `SntpTimeSync`; `nvs_flash_init` is left out |
| MQTT client (`aws_iot.c`) | a context on the caller's stack, never initialised | connect, publish, subscribe | nothing can be said of undefined behaviour: it returns or crashes | partly: `WifiApp` |
| MQTT session engine (`core_mqtt_state.c`, the handlers of `core_mqtt.c`) | an array of publish records per direction, the next identifier, the resend cursor | reserve, publish, acknowledge, resume a session, resend | what QoS 1 and 2 promise, over any number of broken connections; records in the order of the sends | partly: `MqttState`, `MqttSession`, `MqttDelivery` |
| MQTT connection (`network_transport.c`, the loops of `core_mqtt.c`) | the TLS handle, the network buffer, five moments in time | connect, send, receive, process, ping, disconnect | the buffer keeps to packet boundaries; a dead broker is found out; every call returns | modelled: `MqttLink` |
| MQTT packets and topics (`core_mqtt_serializer.c`, `MQTT_MatchTopic`) | none | serialise, deserialise, lengths, validation, topic filters | what is written can be read back and has the size announced; a filter matches by its levels | modelled: `MqttPacket`, `PacketCodec`, `TopicMatch`, checked in `Codecs` |
| JSON parser (`core_json.c`) | none | validate, search, iterate | accepts what the grammar does; a search finds the value its path leads to | modelled: `Json`, checked in `Codecs` |
| DHT sensor (`components/dht`, `http_handlers_sensor.c`) | one GPIO, one critical section | start pulse, 40 bits, checksum, the handler's answer | the critical section is left exactly once on every path; a reading that is reported is the one sent | modelled: `DhtSensor`, checked in `Codecs` |
| Web page (`webpage/app.js`) | the countdown and its timers, the connections of the browser | upload, progress events, status request, countdown, the buttons | the countdown ends, and no earlier than the board's | partly: `WebPage` |
| backoffAlgorithm and port helpers | - | vendored; nothing in the firmware calls them | - | not modelled |
| LED, static pages, access-point name | - | output only, or stateless | - | not modelled |
| `hello_world_main.c`, `rgb_led_main.c`, `coding_style.*`, `pytest_hello_world.py` | - | not part of the build | - | not modelled |

The connected callback hands the MQTT client a transport that was never set up,
so in this firmware no packet is ever sent. The libraries are modelled all the
same: they are what the firmware will run on once `aws_iot.c` fills the
transport in, and their state machines are where the hard behaviour is.

### What is hard about it

* **Two tasks drive the station.** The event task retries with
  `esp_wifi_connect` while `wifi_app_task` may be half way through a stop or
  another attempt; both read and write `g_retry_number`.
* **News travels through two queues.** By the time the Wi-Fi task reads "got an
  address" the link may be gone, and what the page reads is later still. Bits
  that remember why an attempt was made are cleared only by some of its ends.
* **Everybody blocks on everybody.** Event task, button and httpd wait for room
  in a queue that only the Wi-Fi task empties; that task waits for room in the
  monitor's queue and twice sends to its own.
* **A crash is an ordinary event.** `ESP_ERROR_CHECK` aborts, the OTA timer
  restarts the device whatever it is doing, power fails between two writes.
* **One buffer, many writers.** `wifi_config` is set to zero and filled by a
  request handler while the Wi-Fi task may be handing it to the driver or to
  NVS.
* **A session outlives its connections.** Publishes, acknowledgements and
  PUBRELs are lost in either direction with every connection; both sides resend
  from their records, and a record that is compacted, moved or searched for
  while another walks the array changes what is resent.
* **Bytes come as they like.** The transport moves any part of what is asked
  for; packets share, fill and exceed the buffer, and the time each call takes
  counts against the keep-alive.
* **Two clocks count down to one restart.** The page and the board each wait
  their seconds, and the page's timers share one counter.
* **Errors that are only logged** (a failed `nvs_commit`, a failed
  `esp_ota_begin`) leave the published status of something earlier behind.

The hazards are listed one by one, at their lines, in `PROJECT.json`.

## 2. The modules

A step is a stretch of one task's code between two points at which another task
can see or change what it touches. Every handler is followed through all its
steps with a program counter (`wifiPc`, `httpPc`, `pc[t]`, ...), so another
task's step can fall between any two. What separates two steps is a call that may
block (a send to a queue, a delay, the lock of the console under a log line), a call
of the driver, the flash or the network, or an access to what another task uses.

**`StaDriver`** - external. The station half of the ESP-IDF Wi-Fi driver: what
`esp_wifi_connect`, `esp_wifi_set_config` and `esp_wifi_disconnect` may answer
in each state of the link, and which notice each change of the link posts. Where
versions of the driver differ, both answers are allowed.

**`WifiApp`** - the control of the Wi-Fi application. `EventTask` is
`wifi_app_event_handler`; what it decides and what it does about it are separate
steps. `GiveUp` is followed by a send that may block. `Retry` tests and raises the
counter, `RetryConnect` calls `esp_wifi_connect`: between the two the handler writes
to the console (`wifi_app.c:95`), and a stop can be carried out meanwhile.
`WifiTask` is `wifi_app_task`: `Receives` takes a message and does the first
thing with it, `Handles` does the rest, one call at a time. `Monitor`,
`ButtonTask`, `Press` and `HttpServer` are the other parties, and `SendOther` puts
what the upload handler and the time task have to say into the monitor's queue. A failed
`ESP_ERROR_CHECK` sets `fault`; `PanicReset` follows, as `PowerCut` may at any
time. Saved credentials are a flag that survives `Reset`. One history serves
the properties: `stopped` (the user's disconnect is the last thing asked for).

**`StaCreds`** - the data of the same task: which request's name and which
request's password are in `wifi_config`, in the driver, in NVS and on their way.
A value is the number of the request it came with. NVS has what `nvs_get_blob`
returns (`stored`) and what survives for certain (`durable`); after a restart
each entry may be either, which is one way to a torn pair. Two histories serve the
properties: `kept`, the entries written since the last committed clear, and `saves`,
whether every save so far has been whole (begun, written and committed without a cut
and without a request rewriting the configuration meanwhile). Of the control of
`WifiApp` only what moves credentials is kept; the connected bit is left to
chance, so `StaCreds` allows more than the code does.

**`OtaUpdate`** - the upload handler from the first `httpd_req_recv` to the
message to the monitor, the monitor's two outcomes, the timer, both partitions
and the bootloader's choice. An image is the number of the upload it came with
or `Broken`. Each call of the flash may fail. An `ota_handle` that was never set
is whatever the stack holds: possibly the number of a handle that an earlier
upload left open (`leaked`).

**`Firmware`** - the abstract specification of the update: a whole image runs; a
newer one is received, perhaps discarded, selected, and installed by a restart.
`OtaUpdate` implements it (`KeepsPromise`): `installed` is the image of the
running partition, `waiting` is what the other one holds if that is newer, and
`selected` says that otadata names the other one.

**`SntpTimeSync`** - one time task per connection as the code creates them, the
test and the setting of the operating mode as separate steps, lwIP's client, the
message to the monitor and what the page shows. The clock survives every restart
but a power cut; the flag for the page survives none.

**`MqttState`** - the operations of `core_mqtt_state.c` on one array of records:
adding behind the others, compacting, moving a record when its PUBREC comes, the
two tables of legal transitions, and the two searches for what to resend. An
operation that can fail returns its status with the array it leaves behind.

**`MqttSession`** - one task that publishes, receives and resends with these
operations over a connection that breaks, and the broker (external, MQTT 3.1.1).
A send that fails, a break between two calls, a reconnection that resumes the
session and one that does not are all steps. `MQTT_Publish` reserves, sends and
updates; `handleIncomingPublish` and `handlePublishAcks` update, send the
acknowledgement and update again, and may break off between. The last record
moves are the library's; the loop over `MQTT_PublishToResend` is the one its
header gives as the example.

**`MqttDelivery`** - the abstract specification of the session: a message is
taken, delivered (once, with QoS 2), reported as done only after that, or dropped
with its session. `MqttSession` implements it (`Delivered`).

**`MqttLink`** - the same client below its packets. A packet is its kind and its
bytes are counted: `index` in the buffer, `skew` into the packet at its front,
`need` still to be read exactly. A stored moment is held as its age up to where
no comparison can tell it from an older one. Every call of the transport may
move any number of the bytes asked for, take time, or fail. All that is sent goes
through the same steps (`StartSending`, `SendChunk`): CONNECT, publishes, PINGREQ,
DISCONNECT, the acknowledgement of a packet that was received, and the PUBRELs that
`MQTT_Connect` sends again when it resumes a session (`ResendPubrel`). `TimedOut` has
the two tests for the end of a send, `>` for a message in vectors and `>=` for the
others. The CONNACK is waited for (`AwaitType`) by the clock or, without a timeout, by
a number of tries; `rounds` counts these and later the PUBRELs.

**`MqttPacket`, `Json`** - the pure algorithms of the libraries, as operators over
sequences of bytes, with the code's own names and its order of tests: what is
refused first decides the status. A loop over a list is a function of how far it is
(`Concat`, `Total`, `Batches`); the loops over the bytes of a length are written by
what stops them, with `Weight` for the multiplier of each round. Sizes are not
reduced to the 32 bits of `size_t`: a list whose sum wrapped would have more than
65000 entries, which the device cannot hold.

**`PacketCodec`** - what the packets have to be, for any argument that the types of
the serializer hold. `HeaderRight` reads a fixed header with both decoders and cuts
it short; `PublishRight` reads a PUBLISH back with the library's own reader,
`ConnectRight` and `RequestRight` read CONNECT, SUBSCRIBE and UNSUBSCRIBE with a reader
of the module's own (`Strings`), since no client reads those; the vectors of `core_mqtt.c`
are joined and compared; `IncomingRight` says of arbitrary bytes what may be accepted.

**`TopicMatch`** - one call of `MQTT_MatchTopic` with any name and any filter, a
round of the loop of `matchTopicFilter` per step: `nameIndex` and `filterIndex` are
the code's (counted from 1), a '+' takes the rest of a level in one round as it does
there. The module also says what a filter means: the levels of a text (`Level`,
`Depth`), which filters are valid, and which names one matches (`Matches`).

**`DhtSensor`** - one reading of a DHT11 by the handler of `/dhtSensor.json`:
start pulse, three phases, forty bits, each wait with its time-out, the critical
section, checksum and conversion. The sensor may send any reading, and any pulse
may be wrong or missing; at most one byte of a reading is garbled, since two
could cancel out in the sum.

**`Codecs`** - chooses inputs for these and states what each should compute by
an independent definition: JSON texts generated from the grammar and documents
built as trees, the packets of `PacketCodec` at the edges of their lengths, the reading that the sensor
sent, and `TopicMatch` with every name and filter of a few characters. The operators of `Json` and `TopicMatch` were also compared with the
compiled C on all short inputs, with the same results.

**`WebPage`** - the page after an upload: progress events, the synchronous status
request, the countdown timers over the shared `seconds`, the buttons whose
requests the board takes and never answers, and the board's own timer and
restart.

`WifiAppProofs`, `OtaUpdateProofs`, `StaCredsProofs`, `SntpTimeSyncProofs`,
`MqttSessionProofs`, `MqttLinkProofs`, `WebPageProofs` and `CodecsProofs` (about
`DhtSensor`, `TopicMatch` and `PacketCodec`) hold the theorems. RECURSIVE operators are
used in `Json` and `Codecs` only, about which nothing is proved.

The parts of the firmware share queues, not variables. In `WifiApp`, `OtaUpdate` and
`SntpTimeSync` the messages of the other modules for the monitor's queue appear as
`"OTHER"` (`SendOther`) and take their place in it.

## 3. The runs

| Run | Question | Answer | States |
|---|---|---|---|
| `wifi_safety` | Do link, bits, status and queues stay consistent, whatever the order of the tasks' steps? | `LinkStaysDown`, `LinkNotLost`, `LossNotMissed`, `StatusTracksLink`, `NoSelfDeadlock`, `MonitorQueueReady`, `AttemptProtocol` hold | 3,403,275 |
| `wifi_live` | Does every attempt, press and blocked send come to an end? | `AttemptResolves`, `StaleBitCleared`, `TaskReturns`, `ButtonServed` hold | 337,886 |
| `wifi_stop_forgets` | Does the user's disconnect forget the credentials? | no, section 7 | |
| `ota_update` | Does the device keep a bootable image, never go back, and report only what is true? | `RunningIntact`, `NoDowngrade`, `KeepsPromise`, `SuccessMeansSelected`, `SuccessEnds`, `HandlerReturns` hold | 21,881 |
| `creds_safety` | Do credentials of different requests stay apart, and cleared ones away? | `PasswordStaysWithNetwork`, `BootUsesSavedSinceClear`, `SavedIsConnected` hold | 920,353 |
| `time_service` | Is the service announced only when it runs, and does it show a time after a cold start? | `AnnouncedRuns`, `ModeSetBeforeRunning`, `ColdStartShowsTime` hold | 29,860 |
| `mqtt_session` | Does a session keep what its QoS promises over connections that break? | `RecordsWellFormed`, `ResendOrder`, `Delivered`, `PublishSettles` hold | 313,259 |
| `mqtt_resend` | Does the documented resend loop give every publish? | no, section 7 | |
| `mqtt_link` | Do bytes become packets, calls return, and dead brokers get noticed? | `Framed`, `DeadPeerFound`, `CallReturns` hold | 2,533,783 |
| `codecs` | Do the pure algorithms compute what they should? | `JsonFaithful`, `TopicFaithful`, `PacketsFaithful`, `ReadingServed` hold | 493,425 |
| `web` | Does the page's countdown end, and not before the board's? | `ReloadsAfterRestart`, `CountdownEnds` hold | 43,803 |
| `web_disconnect` | Does the disconnect button reload the page? | no, section 7 | |

What the main properties say:

* `LinkStaysDown`: once the disconnect has been carried out, and until the next
  connect request, no loss is retried any more, and nothing takes the station back
  to a network but a retry the event handler had decided on before. It depends on
  `g_retry_number` being raised *before* `esp_wifi_disconnect`. That one retry is a
  disagreement of its own (section 7).
* `LinkNotLost` and `LossNotMissed`: the connected bit and the link agree, up to
  news that is still under way (a loss that is about to be retried counts as such),
  and the last news under way is the true one.
  A disconnect request is dropped without that bit, so a bit wrongly clear would
  make the link impossible to leave.
* `AttemptProtocol`: "failed" follows only "connecting"; "connecting" is never
  followed by "disconnected". It depends on a success clearing the bit of the
  request.
* `NoSelfDeadlock`: the Wi-Fi task finds room in its own queue whenever it sends
  to it. Only the button can send before that; its two seconds of debounce are
  what keeps it to one message.
* `RunningIntact`, `NoDowngrade`: a second upload in the eight seconds before
  the restart erases the partition that otadata names. The bootloader then falls
  back to the one that runs, never to an older one.
* `SuccessMeansSelected`: with a success published, queued or acted upon, the
  new partition is the selected one, also when another upload has failed since.
* `PasswordStaysWithNetwork`: however the copying of one request and the work on
  another overlap, of a pair that is announced the driver gets an incomplete one at
  worst, never a mixed one, because the handler clears the buffer first. The pair a
  boot loads is not mixed either as long as every save was whole. A save is two
  writes from the shared buffer and a commit, and nothing keeps a request from
  rewriting the buffer between them (section 7).
* `BootUsesSavedSinceClear`: both entries a boot uses were written after the last
  clear that was committed, however often the power was cut. It does not say that
  the write was a wise one: a GOT_IP behind the stop saves again (`StopForgetsCreds`).
* `PublishSettles`: every publish is acknowledged or dropped with its session, but
  for one the resend loop has passed over, which `ResendComplete` shows to be
  possible. It waits until the connection breaks again.
* `ResendOrder`: what the two cursors walk is the order of the publishes, and of
  the PUBRECs. It depends on a new record going behind all others even when there
  is room in front of them.
* `Delivered`: with QoS 2 it takes the record that outlives the PUBREC, the
  duplicate that is acknowledged without being given to the application, and the
  PUBREL that is sent again until its PUBCOMP is there.
* `DeadPeerFound`: a broker from which nothing comes any more is noticed within
  the two timeouts of the keep-alive and a number of calls (`SilenceAllowed`): one
  for every packet the buffer can hold - a call that takes a packet from the buffer
  may go by without looking at the keep-alive -, the one that sends the PINGREQ and
  the one that finds its answer overdue. Each of them may come after a publish and
  a receive that use up their own timeouts, and may send an acknowledgement
  (`CallTime`). The first wait is for the keep-alive or, in a session that is
  resumed, for the PUBRELs of `MQTT_Connect`, if they take longer (`QuietTime`).
* `Framed`: after every call that reported no error the buffer begins with a
  packet and has room left, and what has been sent ends with one.
* `ReloadsAfterRestart`: a single countdown of the page starts no earlier than
  the board's timer and is longer. Several countdowns share the counter, and then
  the page does reload too early; `CountdownEnds` holds of any number of them.
* `ReadingServed`: interrupts are on between two requests, and a reading that is
  reported is the one that was sent.
* `AnnouncedRuns`: several time tasks may run the start of the service at once;
  the page is told only after one of them has started the client.

Each property has a mutant, a plausible bug in the mapped code with which TLC
finds the property violated under the same configuration: retries not stopped,
a message dropped when the queue is full, the boot partition taken for the
running one, the password copied after the announcement, and so on.

## 4. The bounds, and why they are enough

| Constant | Runs | Code | Why |
|---|---|---|---|
| `QueueLength` | 2 | 3 | fills sooner; 2 is the least with which boot works, and the proofs cover every depth from there |
| `MaxRetries` | 1 | 5 | the code only compares the counter with its bound; 1 has both a retry and the giving up |
| `EventQueueLength` | 2 | set by the build | how far the driver may run ahead of the event task: a loss and the next connection |
| `MaxRequests` (`WifiApp`) | 3 in `wifi_safety`, 2 in the others | - | an attempt, its stop and another attempt between two resets; resets start the count again |
| `MaxRequests` (`StaCreds`) | 3 | - | credentials stored, credentials being tried, credentials being copied |
| `Pieces` | 2 | up to 1984 | a first receive, one that is not the last of the image, and the end of the form |
| `MaxUploads` | 3 | - | one that leaks a handle or leaves a stale image, one that succeeds, one before the restart |
| `MaxOthers` (`OtaUpdate`, `SntpTimeSync`) | 2 | - | fills the monitor's queue between two starts; `WifiApp` needs no such bound |
| `Tasks` | 2 | one per connection | two inside the start of the service at once; with none left, a connection finds no heap for another |
| messages of `MqttSession` | one with QoS 1 and two with QoS 2 to the broker, one with QoS 2 from it | - | both flows, two of the same flow whose order matters, and both directions at once |
| `OutgoingSlots`, `IncomingSlots`, `MaxPacketId` | 3, 1, 2 (3 in `mqtt_resend`) | the caller's arrays, 65535 | the array is compacted with the resend cursor in it, and refuses; identifiers come round to ones still in use |
| `MaxDrops`, `MaxLosses` | 2, 1 | - | a connection that breaks during the resumption after the first; a session lost at any point |
| `BufferSize` | 4 | set by the caller | the least that holds a CONNACK: packets of 2 and 3 bytes share it, one fills it up with the header of the next, one exceeds it |
| `MaxInFlight` | 2 | - | a packet behind the one that is being read, and both in the buffer |
| `ConnackRetries` | 1 | 3 or 5, by which Kconfig applies | a second try, and giving up after it |
| `MaxPubrels` | 2 | the outgoing array | a PUBREL behind one whose send took its whole time |
| times of `MqttLink` | 1 or 2 | ms | the code only compares ages with them; 2 tells "not yet" from "just now" for the keep-alive |
| `MaxTokens`, `JSON_MAX_DEPTH` | 6, 2 | -, 32 | texts that nest deeper than the stack, on both kinds of bracket |
| `MaxUnits`, `MaxName`, `MaxFilter` | 3, 3, 5 | - | a surrogate pair and what follows it; a name of three levels against every wildcard place |
| `ByteBits` (`DhtSensor`) | 2 | 8 | the sum of four bytes overflows; the conversion of the sign bit is the same |
| `Chains`, `Connections`, `MaxEvents`, `MaxLate` | 3, 2, 3, 1 | one per progress event, 6, -, - | countdowns together; every connection kept by a request without an answer; a count that has stepped over zero |

Three outgoing slots are the least with which a compaction moves a record past the
resend cursor. `mqtt_session` and `mqtt_resend` both have them: the one shows that
nothing but settling in time is lost with the record that is skipped, the other that
it is skipped.

`EventTaskFirst = FALSE` in `wifi_safety` lets the tasks' steps come in any order.
`wifi_live` uses `TRUE`: all tasks that share state with the event task run on
the same core at a lower priority (`tasks_common.h`), so none runs while the
event task can. The event task can also be kept waiting at its log line, by the time
task of core 1, which writes to the same console; `wifi_live` assumes that the wait
is over before another task has run. `AttemptResolves` needs both: were the event task
suspended between its decision to retry or to give up and what it does about it, a
second attempt could begin meanwhile, whose bit the late message uses up or whose
outcome the late retry takes away. Safety is shown without the assumption.

## 5. Fairness and assumptions

* *Tasks* (`EventTask`, `WifiTask`, `Monitor`, `ButtonTask`, `TimeTask`) have
  weak fairness: FreeRTOS runs a ready task of lower priority whenever the
  higher ones block, and all of these block after each message. Delays end.
* *The Wi-Fi task's reports* (`Reports`, with strong fairness): the messages of
  other tasks may fill the monitor's queue again and again. When a place is free,
  FreeRTOS wakes the waiting task with the highest priority, which is the Wi-Fi task,
  so it is not passed over for ever. Nothing is assumed of the others' messages.
* *The radio* (`LinkSettles`): an attempt succeeds or fails, a disconnection
  completes. A link that is up need not ever be lost.
* *The upload* (`Handles`): only what the handler does without the browser. A
  receive either times out or, with the body read, returns at once. Data, errors
  and new uploads are never obliged to come.
* *Restarts*: the timer fires, and a panic restarts. A power cut is never
  obliged to come.
* *The time server* (`Answer`): one that can be reached all the time answers in
  the end.
* *The MQTT task* (`TakesPacket`, `RecvFailed`, `Resend`, `Connect`,
  `handleSessionResumption`): it goes on calling the library, as the loop in the
  header does, and reconnects. *The broker* (`BrokerStep`) answers. Connections
  break at most `MaxDrops` times.
* *Calls of `MqttLink`* (`InCall`): only the steps inside a call of the library,
  which run to its end by themselves; nothing is assumed of the transport, the
  broker or the caller.
* *The page* (`Fire`, with strong fairness): a due timer is not kept waiting for
  ever behind other handlers of the page. Ticks, answers, the browser's time
  limits and the board's tasks have weak fairness. The user need not do anything,
  and begins no upload on a page that counts down or to a board about to restart.
* Nothing else is assumed of users, access points and the power supply.

Three switches state assumptions on timing that the code relies on without
enforcing them (`EventTaskFirst` is explained in section 4).

* `TimedBoot` (constant of `WifiApp`): the radio's first change and the two
  seconds of debounce take longer than the handling of the first message. All
  runs of `WifiApp` make this assumption; of the theorems only
  `StartNeverBlocks` and `MonitorQueueComesFirst` do.
* `timed` (chosen once in `SntpTimeSync`): connecting takes longer than the rest
  of `app_main` and than a time task takes to start the client.
* `patient` (chosen once in `StaCreds`): the user sends a connect request only
  while nothing is connected or being tried.

With `timed` and `patient` both values are explored in the same run, and the
properties that need one of them say so in their statement.

The external parts are the driver (`StaDriver`), the bootloader and
`esp_ota_*` (an erased or incomplete image fails the check at `esp_ota_end` and
at boot; writing otadata is atomic), NVS (what is committed stays; what is not
may or may not, entry by entry), lwIP's SNTP (a second `sntp_init` has no
effect; setting the mode of a running client asserts) and the clock.

## 6. The proofs

All theorems are of the form `Spec => []P` or `Spec => [][A]_vars` (or the
abstract specification), for all values of the constants that satisfy the named
assumptions.

| Theorem | Property | Argument |
|---|---|---|
| `WifiAppProofs!TypeCorrect` | `TypeOK` | queues grow only through a send that tests for room |
| `WifiAppProofs!StopKeepsLinkDown` | `LinkStaysDown` | `StopInv`: an action property, from the invariant |
| `WifiAppProofs!LinkIsNotLost` | `LinkNotLost` | `LinkInv` |
| `WifiAppProofs!LossIsNotMissed` | `LossNotMissed` | `LinkInv` |
| `WifiAppProofs!StatusFollowsLink` | `StatusTracksLink` | `StatusInv`, under `LinkInv` |
| `WifiAppProofs!AttemptsAreAnswered` | `AttemptProtocol` | `ProtocolInv` |
| `WifiAppProofs!StartNeverBlocks` | `NoSelfDeadlock` | `StartInv`, from `TimedBoot` |
| `WifiAppProofs!MonitorQueueComesFirst` | `MonitorQueueReady` | `StartInv`, from `TimedBoot` |
| `OtaUpdateProofs!OtaTypeCorrect` | `TypeOK` | with `ReceivingInv` |
| `OtaUpdateProofs!RunningStaysIntact` | `RunningIntact` | `VersionsInv` |
| `OtaUpdateProofs!NeverDowngrades` | `NoDowngrade` | `VersionsInv` |
| `OtaUpdateProofs!SuccessIsSelected` | `SuccessMeansSelected` | inductive with `TypeOK` |
| `OtaUpdateProofs!UpdateKeepsPromise` | `KeepsPromise` | refinement, under `VersionsInv` |
| `StaCredsProofs!PasswordsStay` | `PasswordStaysWithNetwork` | `ConfigInv`, `WholeInv` |
| `StaCredsProofs!BootUsesSaved` | `BootUsesSavedSinceClear` | `KeptInv` |
| `StaCredsProofs!SavedPairConnected` | `SavedIsConnected` | `PatientInv` |
| `SntpTimeSyncProofs!AnnouncedServiceRuns` | `AnnouncedRuns` | `AnnounceInv` |
| `SntpTimeSyncProofs!ModeComesFirst` | `ModeSetBeforeRunning` | `ModeInv` |
| `MqttSessionProofs!RecordsStayWellFormed` | `RecordsWellFormed` | `RecordsInv` |
| `MqttSessionProofs!RecordsInResendOrder` | `ResendOrder` | `OrderInv`, under `DeliveryInv` and `RecordsInv` |
| `MqttSessionProofs!SessionDelivers` | `Delivered` | refinement, under `DeliveryInv` and `RecordsInv` |
| `MqttLinkProofs!BuffersHoldWholePackets` | `Framed` | `FrameInv` |
| `MqttLinkProofs!SilenceIsFoundOut` | `DeadPeerFound` | `SilenceInv`, under `FrameInv` |
| `WebPageProofs!PageReloadsLater` | `ReloadsAfterRestart` | `CountInv` |
| `CodecsProofs!SectionBalanced` | `InterruptsOff` (part of what `ReadingServed` says) | `SectionInv` |
| `CodecsProofs!ReadingIsTheOneSent` | `ReadingServed` | `ReadingInv` |
| `CodecsProofs!MatchesByLevels` | `TopicFaithful` | `MatchInv` |
| `CodecsProofs!PacketsAlwaysFaithful` | `PacketsFaithful` | lemmas about lists of any length, per packet |

Why the strengthenings are needed:

* **`StopInv`.** `LinkStaysDown` is a property of steps: it needs to know of the state
  before the step that no retry can be decided on and that the Wi-Fi task cannot
  connect. `StopHolds` says that after a stop the counter is at its bound and
  the task is at no place from which it connects. The load of the saved
  credentials also connects and knows nothing of stops, so `LoadOnce` and
  `LoadComesFirst` add that it happens once, before the station can have been
  connected, and that only the button's message can stand beside it.
* **`LinkInv`.** `LinkNotLost` and `LossNotMissed` are inductive together but not
  alone: when the last news reaches the task, each needs the other to know that
  the link is as the news says. The argument is about the news, in three places
  (`NewsKept`, `NewsEnds`): every step keeps the latest news the latest, or it is
  the task's receipt of the last message there is. A retry that has been decided on
  stands for the news of the loss until it is called.
* **`StatusInv`.** While the link is up and no news is under way, either the task
  is about to send the success or the last status the monitor has been told is
  "success"; and the
  task is not about to announce an attempt, since the attempt it started has
  taken the link away. Since messages of other modules stand between those of the
  Wi-Fi task, "the status before the k-th message" is a relation, `StatusIs(k, st)`,
  found at the nearest message of the Wi-Fi task, and `LastIs(st)` is the one behind
  the last.
* **`ProtocolInv`.** The bit of the request is set exactly while `LastIs("connecting")`
  holds, but for the stretches between the change of the one and of the
  other (`Announced`); and each queued message may follow the one before it
  (`Chained`).
* **`StartInv`.** Until START_HTTP_SERVER has been sent, the queue holds no more
  than the load and one press (`BootQueue`, which counts the press through
  `buttonPc = "delay"`). From then until it is handled, only disconnect
  requests, without effect so far, stand before it (`StartAhead`).
* **`VersionsInv`.** What this start's uploads left in the target is newer than
  what runs or not an image; a partition never holds a version that has not been
  uploaded; at `set_boot` the target is whole. The case that makes it necessary
  is the stale handle: an upload without data may end an earlier upload's handle
  and select that image, which must then be newer too.
* **`ConfigInv`.** A request that is being read has the buffer to itself: first
  empty, then with its own name and no password. At any time the password in
  the buffer is missing or came with the name, or else no request is being read,
  announced or given to the driver: then the buffer may hold a pair that was
  loaded torn.
* **`WholeInv`.** As long as every save has been whole, no two entries that may be
  found together after a power cut came with different requests, and the
  configuration is not mixed either. A save that has begun writes an unmixed
  configuration; one that is cut or rewritten is not whole, and the claim about boots
  ends there.
* **`KeptInv`.** An entry that NVS returns or keeps has been written since the last
  committed clear, and a clear commits only what it has emptied.
* **`PatientInv`.** While a request is under way, announced or being handed to
  the driver there is no link and no news of one; while there is a link the
  buffer is what the driver was given.
* **`AnnounceInv`, `ModeInv`.** Past `init` the client runs, which is all that
  `AnnouncedRuns` needs. With `timed`, a task that is about to set the mode is
  alone in the start of the service: a second one starts with it only if the
  mode or the clock is set already, and then neither of them sets the mode.
* **`RecordsInv`.** `RecordsWellFormed` with the fields of every slot. The work is
  in the lemmas about one array: two records slide to different places because
  their ranks are the places (`CompactKeeps`); writing one slot keeps the array
  if no other has the identifier (`WriteKeeps`), from which adding and updating
  follow (`AddKeeps`, `UpdateKeeps`); and an acknowledgement leads only to states
  of its own direction and of QoS 2 (`AckState`). Nothing is assumed of the
  packets that come in.
* **`OrderInv`.** `ResendOrder` is inductive beside `DeliveryInv` and `RecordsInv`,
  which say which record a packet finds; what has to be shown is what each operation
  of `core_mqtt_state.c` does to the order. From one array to the next all records
  but one keep their order (`Shifts`), and a record that is added, or moved at its
  PUBREC, ends behind all others (`EndsWith`): compacting moves every record to its
  rank, which grows with its place. The list of what was sent then loses one
  identifier, gains one at its end, or stays as it is (`ListsWithout`,
  `ListsAppend`, `ListsKept`).
* **`DeliveryInv`.** That a message reported as done was delivered rests on four
  things at once: the client's record, the packet about it on the way, what the
  broker holds and what the receiver has counted. `OutOK` and `InOK` say, for
  each identifier and direction, how they agree: a PUBACK on the way finds a
  record that waits for it and a message that has been delivered; a QoS 2 message
  waits in the outgoing array in a publish state with the broker holding nothing
  exactly while it has no copy. `OneAtATime` says that at most one packet about
  an identifier is on the way between a sender and its receiver, which is what
  keeps a late reply from finding the identifier used again; `Resumption` keeps
  that through a reconnection, in which what is sent again must have nothing on
  the way: every outgoing publish while the PUBRELs are resent, and the records
  behind the cursor in either loop. There the compaction of `addRecord` matters:
  it moves records only towards the front (`CompactRecs`), so a record behind
  the cursor afterwards was behind it before. Skipping one (section 7) does not
  disturb the invariant, sending one twice would. `MessagesAssumption` (a message
  goes one way, with one QoS) is the only assumption beside the sizes.
* **`CountInv`.** A countdown that runs alone shows at least as much as the board
  has left and the timer has still to wait (`Ahead`). It is established because
  nothing counts while the board receives an update (`QuietUpload`): its one
  server task answers no status request then.
* **`FrameInv`.** `Framed` speaks of the moments between two calls. Its invariant
  says, at each place of the code, where the task is in the stream of packets:
  nothing has come before the CONNECT is out; then the CONNACK and nothing else,
  of which `skew` bytes are read and `need` are left; then packets of which the
  buffer holds the first `index` bytes; and in a discard the packet that exceeds
  the buffer. That a packet is whole in the buffer, or the room left is not zero,
  then follows from the lengths: `LengthTail` and `LengthAppend` say what
  the number of bytes does when a packet leaves or comes, and a packet longer than
  the buffer can only be `BIG`.
* **`SilenceInv`.** How long nothing has come is bounded in three stages: since the
  last packet (`ReceivedInv`), until a call sees that it is too long and pings, and
  from the ping until its answer is overdue (`BetweenInv`). The bound moves with the
  buffer: `Past(i)` allows one `CallTime` for each packet that can have left it
  while `i` bytes are still there, so that a call that takes a packet out, which
  resets the age of the last packet and looks at nothing else, pays for itself. A
  call that leaves a whole packet in the buffer (`Complete`) has been made with it
  there, and the silence is then at most what went by since. An acknowledgement is
  paid for by the call that read its packet (`AckingInv`); the PUBRELs of a resumed
  session by their number, counted from the CONNACK (`ResumingInv`, `ResendingInv`),
  which is why the first stage is `QuietTime` and not `RxWait`. A smaller bound, with
  a call counted as the gap and one timeout, holds on the instance of the run and
  not for longer send timeouts: the proof found it.
* **`SectionInv`.** Interrupts are off exactly at the phases between the start
  pulse and the last bit.
* **`ReadingInv`.** After `bit` bits each byte read is the leading bits of the one
  sent or spoilt by the wire, and at most one is spoilt. With all bits read, the sum
  of four bytes differs from the fifth if one of the five was changed, because
  a change of one byte by less than 2^w is not a multiple of 2^w. Powers of two are
  handled through their meaning, the number of subsets (`PowerFacts`).
  `PulsesAssumption` (a 1 is longer than the pause before it and a 0 shorter, `dht.c:72`) is
  the only assumption beside the width.
* **`MatchInv`.** The loop knows two positions; the invariant finds the levels they
  are in (`Placed`). The same levels start at `i` and `j`, those before them agree
  (`Reached`: the filter's is a '+' or the same text), and so do the characters from
  there to the positions (`Agree`), or a '+' has just taken the end of the name
  (`AfterPlus`). From that alone a result can be wrong where the name is used up and
  the filter is not: `UsedUp` keeps what the last round has seen, that the end of
  the filter was none of the special cases, or that the name ended with the '/'
  behind a '+'. It is what tells the misses of section 7 from the names rightly
  refused. Each way the loop returns has a lemma (`SpecialIsRight` ...
  `FilterGoesOnAfterPlus`): TRUE shows a match level by level (`MatchesWhen`), FALSE
  finds the one level that cannot be read (`MatchAt`). That a level has an end is the
  one use of induction, by the least element of a set of naturals (`LeastMember`,
  from the library's `WFMin`). The positions have no width in the model: the
  code's `uint16_t` indices stop at the lengths, which fit. The assumption on names,
  no wildcards, is that of `core_mqtt.h:886`.

* **`PacketAsked`.** The invariant says only that the question is one of the inputs;
  the work is in what each packet is, for every input. A loop's function is known by
  its first value and its step (`Together`, `Summed`, `Pushes`), and what holds of it
  after every round follows from the least round where it would not (`LeastMember`, in
  `InductionTo`). From there: the bytes of joined parts are found at their places
  (`JoinedAt`, `ConcatRest`), and a list of fields is read back one behind the other
  (`StartsAre`, `FieldsRead`), which serves CONNECT, SUBSCRIBE and UNSUBSCRIBE alike
  (`ConnectIsRight`, `SubscribeIsRight`). A length is the sum of its digits
  (`DigitsMake`), has as many bytes as announced (`EncodedFacts`), is read back whatever
  follows it (`DecodeEncoded`), not from a part of it (`DecodePart`), and bytes that
  are accepted for it are its only encoding (`ReadIsEncoded`): the test of the size
  after the loop, `core_mqtt_serializer.c:905`, is what excludes the longer ones. The
  calls of a long subscription send all of it (`BatchesSend`), with 3 vectors or
  more as `VectorsAssumption` asks: a topic takes up to three. What is accepted of a
  PUBLISH or an acknowledgement is put together again and found to be what came in
  (`AcceptedPublish`, `AckSentBack`). `PacketsAssumption` gives each argument its C
  type and nothing else: a topic or a string has at most 65535 bytes, and what follows a
  header no more than a header can announce.

The proofs about sequences rest on lemmas (what `Append` and `Tail` do to the
places of a queue), stated once and cited.

Model-checked only: every liveness property (fairness and `ENABLED` are beyond
the prover), and what `Json` computes (`JsonFaithful`): recursive operators over texts,
measured against a grammar. All other invariants and action properties of the runs are
proved.

## 7. Where the code and its comments disagree

Three runs check what a comment promises and find a behaviour in which the code
does something else.

* `StopForgetsCreds` - `wifi_reset_button.c:40`, "disconnect and clear
  credentials". A GOT_IP message queued behind the disconnect request is handled
  after the clear and saves the credentials again (`wifi_app.c:309`).
* `ResendComplete` - `core_mqtt_state.h:222`, "repeatedly until packet id is 0
  will give all the packets". `MQTT_Publish` of the duplicate reserves its state
  first, and `addRecord` compacts the array when its last slot is taken, even
  though it then finds the identifier and adds nothing. With a free slot in
  front, every record moves ahead of the caller's cursor, and the next publish is
  skipped until another reconnection.
* `DisconnectReloads` - `app.js:270`, "and reloads the page". The handler returns
  without sending a response (`http_handlers_wifi.c:124`), so the request stays
  open until the browser gives it up and the success callback never runs.

Disagreements that the models contain and no run of their own shows:

* `wifi_app.c:332`, "Set the retry number to max to force disconnect": a retry that the
  event handler has decided on, and not yet called because it waits for the console,
  takes the station back to the network. `LinkStaysDown` allows exactly this.
* `http_handlers_wifi.c:81`, "ESP_OK if successful, otherwise ESP_FAIL": the
  status stays "success" after a loss; the connection info handler then asks for
  the access point under `ESP_ERROR_CHECK` and the firmware aborts.
* `wifi_app.c:35`, the counter is "for retries when a connection attempt fails":
  it counts losses of good links too and is not reset by a success.
* `http_handlers_ota.c:68`, "Retry": `continue` in a `do ... while` evaluates the
  condition, `recv_len > 0`, which is false. A real retry would violate
  `HandlerReturns` instead: a stalled browser would hold httpd's only task.
* `app.js:90`, "1, else -1": a failed begin or write returns without setting the
  status or telling the monitor.
* `app_nvs.h:8`, "ESP_OK on success, or an error code": a failed commit is logged
  and reported as `ESP_OK`.
* `app.js:302`, "the time will be updated": after a restart that keeps the clock,
  the client is not started and the page's flag stays clear.
* `core_mqtt.h:872`, which levels a wildcard matches: the match misses names whose
  last level (or the '/' after it) a '+' has used up with a wildcard still to come,
  such as "+/#" for "a" and "+/+" for "a/". `TopicFaithful` excepts them.
* `core_json.c:1120`: the validator accepts collections without the comma or the
  key between two collections, such as `{ { } }` and `[ [ ] [ ] ]`. `JsonFaithful`
  therefore asks that texts of the grammar are accepted, and of other accepted
  texts only that their brackets match.

Behaviour that no property excludes, because nothing in the repository promises
otherwise:

* *Wi-Fi.* Credentials are saved on every reconnection (`wifi_app.c:304`; the
  comment on line 303 says only for a connection from the page); a connect request
  during an attempt aborts the firmware (`wifi_app.c:217`); a save that a power cut ends or
  a second request overtakes between its two writes (`app_nvs.c:32`, `39`) leaves the
  network of one request with the password of another, and the next boot tries
  them; a retry that waits long for the console can take an announced attempt
  with it, and the page stays at "connecting"; the monitor's task is created
  before its queue (`http_server.c:39`), which only its lower priority makes safe.
* *Update and time.* A second upload may start before the restart; the page's time
  flag is set before the first answer (`sntp_time_sync.c:28`); each connection
  leaves one more task behind.
* *Page.* The connect, disconnect and update handlers never send a response: the
  polling of the connection status (with the handle of `app.js:178`) is never
  reached, and each such request keeps one of the browser's connections until it
  gives up. Two countdowns share `seconds`, so the page reloads after about five
  seconds and not eight; the fresh page reads the success again and counts once
  more. If the synchronous status request of a loading page fails, no handler is
  ever installed.
* *MQTT.* A publish the resend loop has passed over stays unsettled until the
  connection breaks again. `MQTT_Init` is called over an uninitialised transport (`main.c:29`).
  `KeepAliveTimeout` may be reported while the PINGRESP is in the buffer; the
  keep-alive is not looked at while every receive returns data. A PUBREL for an
  identifier without a record is `MQTTBadResponse` and gets no PUBCOMP.
  `xTlsDisconnect` leaves `pxTls` dangling; `espTlsTransportRecv` returns -1 for a
  length of 0. Of a list of subscriptions only the first QoS is validated.
* *JSON.* `JSONPartial` is never returned for a text such as `[1,`; an escaped
  control character is accepted and `\u0000` refused; a hex escape needs a byte
  after it; the query `a[0].` is accepted.
* *Sensor.* It is read in the request handler, since nothing starts the task of
  `dht11.c`; the decimals of a DHT11 are dropped.

## 8. What is not modelled

* Lengths and contents of headers, JSON and time strings; a missing header
  crashes in `StaCreds`, an oversized one is not modelled.
* Memory: leaks in the event handler and the loader, stack sizes. Exhaustion is
  modelled only where a task is created (`SntpTimeSync`).
* The soft access point, LED, static pages: settings and output.
* The page's clients in the models of the firmware: there any request comes at any
  time, which includes every page. `WebPage` leaves out what is only displayed and
  the polling of the connection status, which is never reached (section 7).
* MQTT: QoS 0 in `MqttSession` (it keeps no state), `MQTT_CancelCallback` with
  `MQTT_RemoveStateRecord`, hooks for several threads (this build defines none),
  two tasks that share one context, arguments that are NULL.
* JSON: `JSON_SearchT`'s added type, arguments that are NULL.
* Sensor: the types other than DHT11, `dht_read_float_data` and the task of
  `dht11.c`, which nothing calls; two garbled bytes in one reading.
* `http_server_stop`: nothing calls it.
* `backoffAlgorithm` and the port helpers, which nothing calls, and files that the
  build leaves out.

## 9. The plan

Done, in this order: `WifiApp` (with `StaDriver`), `OtaUpdate` (with `Firmware`),
`StaCreds`, `SntpTimeSync`, and a proof module for each; `MqttState`,
`MqttSession` (with `MqttDelivery`), `MqttLink`; `Json`, `MqttPacket` (with
`PacketCodec`), `TopicMatch`, `DhtSensor` under `Codecs`; `WebPage`; and the proofs about
`MqttSession`, `MqttLink`, `WebPage`, `DhtSensor`, `TopicMatch` and `PacketCodec`.

Next, most important first:

1. **`LinkMirror`**: an abstract specification of what the page may believe
   about the link - a sequence of attempts, each resolved, with losses - to be
   implemented by `WifiApp`.
2. **`StaCreds` as an implementation** of the flag `savedCreds` of `WifiApp`.
3. **`Json` without recursion**: `skipSpace`, `skipString` and the loops over scalars as
   functions of how far they are, as in `MqttPacket`, and that a skipped string or number
   is one of the grammar.
