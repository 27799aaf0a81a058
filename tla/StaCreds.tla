------------------------------ MODULE StaCreds -------------------------------
(***************************************************************************)
(* The way of the station's credentials: from the headers of a request     *)
(* (main/http_handlers_wifi.c) through the wifi_config that wifi_app.c     *)
(* shares with everyone, to the driver and to NVS (main/app_nvs.c), and    *)
(* back at the next boot.                                                  *)
(*                                                                         *)
(* A name and a password are each the number of the request they came      *)
(* with, Missing if there is none.  WifiApp has the Wi-Fi task's control   *)
(* in full; here only the messages that move credentials remain, and the   *)
(* connected bit is left to chance.                                        *)
(***************************************************************************)
EXTENDS Naturals, Sequences

CONSTANTS
  MaxRequests,   \* connect requests in the life of the device (a bound)
  QueueLength    \* depth of wifi_app_queue

ASSUME MaxRequestsAssumption == MaxRequests \in Nat
ASSUME QueueLengthAssumption == QueueLength \in Nat \ {0}

VARIABLES
  config,       \* *wifi_config
  patient,      \* the user, once and for all, asks only while nothing is connected or tried
  requests,     \* requests so far: the number of the current one
  httpPc,       \* where http_server_wifi_connect_json_handler is
  queue,        \* wifi_app_queue_handle
  wifiPc,       \* where wifi_app_task is
  usingSaved,   \* WIFI_APP_CONNECTING_USING_SAVED_CREDS_BIT
  driver,       \* the credentials last given to the driver
  link,         \* state of the driver's station
  network,      \* history: the credentials of the last link that came up
  stored,       \* what nvs_get_blob returns
  durable,      \* what NVS has committed
  kept,         \* history: the entries written since the last clear that was committed
  saves,        \* history: how the saves went: "whole" while all are, "begun" from the
                \*   first entry of one to its commit, "torn" once one has been cut short
                \*   or overlapped by a request
  up            \* FALSE after a crash, until the restart

httpVars == <<patient, requests, httpPc>>
taskVars == <<wifiPc, usingSaved>>
driverVars == <<driver, link, network>>
nvsVars == <<stored, durable, kept, saves>>
vars == <<config, httpVars, queue, taskVars, driverVars, nvsVars, up>>

Missing == 0
Numbers == Missing..MaxRequests
Creds == [ssid : Numbers, password : Numbers]
NoCreds == [ssid |-> Missing, password |-> Missing]
IsComplete(creds) == creds.ssid # Missing /\ creds.password # Missing

Messages == {"connect", "got_ip", "stop", "disconnected"}
WifiPcs == {"load", "load_set_config", "receive", "set_config", "save_ssid", "save_password",
            "save_commit", "clear_erase", "clear_commit"}

TypeOK ==
  /\ config \in Creds /\ driver \in Creds /\ network \in Creds
  /\ stored \in Creds /\ durable \in Creds
  /\ requests \in 0..MaxRequests
  /\ httpPc \in {"idle", "ssid", "password", "send"}
  /\ queue \in Seq(Messages) /\ Len(queue) <= QueueLength
  /\ wifiPc \in WifiPcs
  /\ link \in {"none", "trying", "up", "leaving"}
  /\ patient \in BOOLEAN /\ usingSaved \in BOOLEAN /\ up \in BOOLEAN
  /\ kept \subseteq {"ssid", "password"} /\ saves \in {"whole", "begun", "torn"}

-----------------------------------------------------------------------------
(* Starting *)

Init ==
  /\ config = NoCreds /\ httpPc = "idle" /\ queue = <<>>
  /\ wifiPc = "load" /\ usingSaved = FALSE /\ up = TRUE
  /\ driver = NoCreds /\ link = "none" /\ network = NoCreds
  /\ stored = NoCreds /\ durable = NoCreds /\ kept = {} /\ saves = "whole"
  /\ requests = 0 /\ patient \in BOOLEAN

\* What has been written but not committed may or may not survive, entry by entry.
Restart ==
  /\ config' = NoCreds /\ httpPc' = "idle" /\ queue' = <<>>
  /\ wifiPc' = "load" /\ usingSaved' = FALSE /\ up' = TRUE
  /\ driver' = NoCreds /\ link' = "none" /\ network' = NoCreds
  /\ \E ssid \in {stored.ssid, durable.ssid}, password \in {stored.password, durable.password} :
       stored' = [ssid |-> ssid, password |-> password]
  /\ durable' = stored'
  /\ UNCHANGED <<patient, requests, kept, saves>>

PowerCut == up /\ Restart
PanicRestart == ~up /\ Restart

HasRoom == Len(queue) < QueueLength

Send(msg) == HasRoom /\ queue' = Append(queue, msg)

-----------------------------------------------------------------------------
(* http_server_wifi_connect_json_handler *)

Serving == up /\ wifiPc \notin {"load", "load_set_config"}
Unconnected == link = "none" /\ queue = <<>> /\ wifiPc = "receive"

\* Mutant of Request: the configuration is not set to zero first.
RequestKeepsConfig ==
  /\ Serving /\ httpPc = "idle" /\ requests < MaxRequests
  /\ patient => Unconnected
  /\ requests' = requests + 1 /\ httpPc' = "ssid"
  /\ saves' = IF wifiPc = "save_password" THEN "torn" ELSE saves
  /\ UNCHANGED <<patient, config, queue, taskVars, driverVars, stored, durable, kept, up>>

Request ==
  /\ Serving /\ httpPc = "idle" /\ requests < MaxRequests
  /\ patient => Unconnected
  /\ requests' = requests + 1 /\ httpPc' = "ssid"
  /\ config' = NoCreds
  /\ saves' = IF wifiPc = "save_password" THEN "torn" ELSE saves
  /\ UNCHANGED <<patient, queue, taskVars, driverVars, stored, durable, kept, up>>

\* The copy of one header; without it the handler reads from NULL.
Copy(from, to, key) ==
  /\ up /\ httpPc = from
  /\ \/ config' = [config EXCEPT ![key] = requests] /\ httpPc' = to /\ UNCHANGED up
     \/ up' = FALSE /\ UNCHANGED <<config, httpPc>>
  /\ UNCHANGED <<patient, requests, queue, taskVars, driverVars, nvsVars>>

\* Mutant of CopySsid: the task is told before the password is copied.
CopySsidAnnounces ==
  /\ up /\ httpPc = "ssid"
  /\ config' = [config EXCEPT !.ssid = requests] /\ httpPc' = "password"
  /\ Send("connect")
  /\ UNCHANGED <<patient, requests, taskVars, driverVars, nvsVars, up>>

CopySsid == Copy("ssid", "password", "ssid")
CopyPassword == Copy("password", "send", "password")

Announce ==
  /\ up /\ httpPc = "send"
  /\ Send("connect")
  /\ httpPc' = "idle"
  /\ UNCHANGED <<patient, config, requests, taskVars, driverVars, nvsVars, up>>

\* The button and /wifiDisconnect.json.
RequestStop ==
  /\ up
  /\ Send("stop")
  /\ UNCHANGED <<config, httpVars, taskVars, driverVars, nvsVars, up>>

-----------------------------------------------------------------------------
(* The driver and the event handler *)

\* The message for the task, if the change is one that the event handler reports.
Change(from, to, news) ==
  /\ up /\ link = from /\ link' = to
  /\ IF news = "none" THEN UNCHANGED queue ELSE Send(news)
  /\ UNCHANGED <<config, httpVars, taskVars, driver, nvsVars, up>>

Connected == Change("trying", "up", "got_ip") /\ network' = driver
Retried == Change("up", "trying", "none") /\ UNCHANGED network
GivenUp ==
  /\ \E from \in {"trying", "up", "leaving"} : Change(from, "none", "disconnected")
  /\ UNCHANGED network

Driver == Connected \/ Retried \/ GivenUp

-----------------------------------------------------------------------------
(* app_nvs_load_sta_creds, and what wifi_app_task does with it *)

\* A missing entry or an error of NVS ends the load where it occurs.
Load ==
  /\ up /\ wifiPc = "load"
  /\ \/ /\ config' = stored
        /\ wifiPc' = IF IsComplete(stored) THEN "load_set_config" ELSE "receive"
        /\ usingSaved' = IsComplete(stored)
     \/ /\ config' \in {NoCreds, [stored EXCEPT !.password = Missing]}
        /\ wifiPc' = "receive"
        /\ UNCHANGED usingSaved
  /\ UNCHANGED <<httpVars, queue, driverVars, nvsVars, up>>

\* wifi_app_connect_sta: during an attempt the driver refuses and the firmware aborts.
SetConfig(from) ==
  /\ up /\ wifiPc = from
  /\ \/ /\ link # "trying"
        /\ driver' = config /\ link' = "trying" /\ wifiPc' = "receive"
        /\ UNCHANGED up
     \/ link # "none" /\ up' = FALSE /\ UNCHANGED <<driver, link, wifiPc>>
  /\ UNCHANGED <<config, httpVars, queue, usingSaved, network, nvsVars>>

LoadSetConfig == SetConfig("load_set_config")
HttpSetConfig == SetConfig("set_config")

-----------------------------------------------------------------------------
(* wifi_app_task: the messages that move credentials *)

Receive(msg) ==
  /\ up /\ wifiPc = "receive" /\ queue # <<>> /\ Head(queue) = msg
  /\ queue' = Tail(queue)

ReceiveConnect ==
  /\ Receive("connect")
  /\ wifiPc' = "set_config"
  /\ UNCHANGED <<config, httpVars, usingSaved, driverVars, nvsVars, up>>

\* Saved unless they are the saved ones.
ReceiveGotIp ==
  /\ Receive("got_ip")
  /\ wifiPc' = IF usingSaved THEN "receive" ELSE "save_ssid"
  /\ usingSaved' = FALSE
  /\ UNCHANGED <<config, httpVars, driverVars, nvsVars, up>>

\* Dropped, unless the connected bit is set.
ReceiveStop ==
  /\ Receive("stop")
  /\ \/ UNCHANGED <<wifiPc, link>>
     \/ /\ wifiPc' = "clear_erase"
        /\ link' = IF link = "none" THEN "none" ELSE "leaving"
  /\ UNCHANGED <<config, httpVars, usingSaved, driver, network, nvsVars, up>>

\* Saved credentials that do not work are cleared.
ReceiveDisconnected ==
  /\ Receive("disconnected")
  /\ wifiPc' = IF usingSaved THEN "clear_erase" ELSE "receive"
  /\ usingSaved' = FALSE
  /\ UNCHANGED <<config, httpVars, driverVars, nvsVars, up>>

Receives == ReceiveConnect \/ ReceiveGotIp \/ ReceiveStop \/ ReceiveDisconnected

-----------------------------------------------------------------------------
(* app_nvs_save_sta_creds and app_nvs_clear_sta_creds *)

\* A call of NVS fails: the function ends there.
Fail == wifiPc' = "receive" /\ UNCHANGED <<stored, kept, saves>>

\* nvs_set_blob of what the configuration holds at that moment.
SetBlob(from, to, key) ==
  /\ up /\ wifiPc = from
  /\ \/ /\ stored' = [stored EXCEPT ![key] = config[key]]
        /\ wifiPc' = to /\ kept' = kept \union {key}
        /\ saves' = IF key = "password" THEN saves
                    ELSE IF saves = "whole" THEN "begun" ELSE "torn"
     \/ Fail
  /\ UNCHANGED <<config, httpVars, queue, usingSaved, driverVars, durable, up>>

SaveSsid == SetBlob("save_ssid", "save_password", "ssid")
SavePassword == SetBlob("save_password", "save_commit", "password")

ClearErase ==
  /\ up /\ wifiPc = "clear_erase"
  /\ \/ stored' = NoCreds /\ wifiPc' = "clear_commit" /\ UNCHANGED <<kept, saves>>
     \/ Fail
  /\ UNCHANGED <<config, httpVars, queue, usingSaved, driverVars, durable, up>>

\* The history of a commit that went well.
Committed(from) ==
  /\ kept' = IF from = "clear_commit" THEN {} ELSE kept
  /\ saves' = IF from = "save_commit" /\ saves = "begun" THEN "whole" ELSE saves

\* Mutant of Commit: nothing is committed, closing is taken to be enough.
CommitNothing(from) ==
  /\ up /\ wifiPc = from
  /\ Committed(from)
  /\ wifiPc' = "receive"
  /\ UNCHANGED <<config, httpVars, queue, usingSaved, driverVars, stored, durable, up>>

\* nvs_commit, whose failure is logged and then reported as a success.
Commit(from) ==
  /\ up /\ wifiPc = from
  /\ \/ durable' = stored /\ Committed(from)
     \/ UNCHANGED <<durable, kept, saves>>
  /\ wifiPc' = "receive"
  /\ UNCHANGED <<config, httpVars, queue, usingSaved, driverVars, stored, up>>

SaveCommit == Commit("save_commit")
ClearCommit == Commit("clear_commit")

Nvs == SaveSsid \/ SavePassword \/ SaveCommit \/ ClearErase \/ ClearCommit

-----------------------------------------------------------------------------
Next ==
  \/ Request \/ CopySsid \/ CopyPassword \/ Announce \/ RequestStop
  \/ Load \/ LoadSetConfig \/ HttpSetConfig \/ Receives \/ Nvs
  \/ Driver
  \/ PowerCut \/ PanicRestart

Spec == Init /\ [][Next]_vars

-----------------------------------------------------------------------------
(* Properties *)

\* However the handler of one request and the task's work on another overlap, no pair
\* that is announced reaches the driver with the password of one request for the network
\* of another: the configuration is set to zero in between (http_handlers_wifi.c:53-57).
\* The same holds of the pair that a boot loads as long as every save has been whole; a
\* save that is cut short, or during which a request rewrites the configuration, leaves
\* a mixed pair for the next boot, and nothing in app_nvs.c prevents it.
PasswordStaysWithNetwork ==
  [][(HttpSetConfig \/ saves = "whole") /\ driver' # driver /\ IsComplete(driver') =>
       driver'.ssid = driver'.password]_vars

\* A boot uses only entries that were written after the last clear that was committed,
\* wherever the power was cut (app_nvs.c:125-143, wifi_app.c:258-266).  The save may be
\* that of a GOT_IP that was queued behind the stop: StopForgetsCreds of WifiApp.
BootUsesSavedSinceClear ==
  [][wifiPc = "load" /\ wifiPc' = "load_set_config" => kept = {"ssid", "password"}]_vars

\* Of a user who waits, the credentials of the network that answered are saved, not
\* others that the configuration has come to hold (wifi_app.c:302-309).
SavedIsConnected == patient /\ wifiPc = "save_commit" => stored = network
==============================================================================
