------------------------------- MODULE WifiApp -------------------------------
(***************************************************************************)
(* The Wi-Fi application of the firmware (main/wifi_app.c) with everything *)
(* that exchanges messages with it: the default event loop that runs       *)
(* wifi_app_event_handler, the HTTP server monitor task                    *)
(* (main/http_server_monitor.c), the request handlers of                   *)
(* main/http_handlers_wifi.c, the reset button (main/wifi_reset_button.c)  *)
(* and the callback app_main registers (main/main.c).                      *)
(*                                                                         *)
(* A step is a stretch of one task's code between two points at which      *)
(* another task can observe or change what it touches.  Saved credentials  *)
(* are one flag: present and complete, or not.                             *)
(***************************************************************************)
EXTENDS Naturals, Sequences, StaDriver

CONSTANTS
  MaxRetries,        \* MAX_CONNECTION_RETRIES
  QueueLength,       \* depth of wifi_app_queue and of the monitor's queue
  EventQueueLength,  \* how many notices the driver may run ahead (a bound)
  MaxRequests,       \* how much the user may ask for between two resets (a bound)
  EventTaskFirst,    \* TRUE: no other task runs while the event task can
  TimedBoot          \* TRUE: the radio and the 2 s debounce are slower than boot

ASSUME MaxRetriesAssumption == MaxRetries \in Nat \ {0}
ASSUME QueueLengthAssumption == QueueLength \in Nat /\ QueueLength >= 2
ASSUME EventQueueAssumption == EventQueueLength \in Nat \ {0}
ASSUME MaxRequestsAssumption == MaxRequests \in Nat
ASSUME SchedulingAssumption == EventTaskFirst \in BOOLEAN /\ TimedBoot \in BOOLEAN

VARIABLES
  wifiQueue,      \* wifi_app_queue_handle
  eventBits,      \* wifi_app_event_group
  retryNumber,    \* g_retry_number
  wifiPc,         \* where wifi_app_task is
  sta,            \* state of the driver's station
  notices,        \* notices posted to the default event loop
  eventPc,        \* where wifi_app_event_handler is
  savedCreds,     \* NVS holds a complete pair of credentials
  buttonPc,       \* where wifi_reset_button_task is
  buttonSem,      \* wifi_reset_semaphore
  serverUp,       \* "down", "monitor" (no httpd) or "up"
  monitorQueue,   \* http_server_monitor_queue_handle
  connectStatus,  \* g_wifi_connect_status
  requests,       \* presses and page requests so far, for the bound MaxRequests
  fault,          \* why the firmware aborted, "none" while it runs
  stopped         \* history: the user's disconnect is the last thing asked for

taskVars == <<wifiQueue, eventBits, retryNumber, wifiPc>>
driverVars == <<sta, notices, eventPc>>
userVars == <<buttonPc, buttonSem, requests>>
serverVars == <<serverUp, monitorQueue, connectStatus>>
restVars == <<savedCreds, fault, stopped>>
vars == <<taskVars, driverVars, userVars, serverVars, restVars>>

-----------------------------------------------------------------------------
(* Messages, bits and program counters *)

WifiMessages == {"LOAD_SAVED_CREDENTIALS", "START_HTTP_SERVER",
                 "CONNECTING_FROM_HTTP_SERVER", "STA_CONNECTED_GOT_IP",
                 "USER_REQUESTED_STA_DISCONNECT", "STA_DISCONNECTED"}

Bits == {"USING_SAVED_CREDS", "FROM_HTTP_SERVER", "USER_REQUESTED", "GOT_IP"}

WifiPcs == {"boot", "receive",
            "load_set_config", "load_connect", "send_start",
            "http_set_config", "http_connect", "reset_retry", "send_init",
            "send_success", "save_creds", "callback",
            "stop_retries", "stop_link", "stop_creds",
            "send_fail", "send_user_disconnect", "clear_connected"}

\* The status each message of the Wi-Fi task makes the monitor publish.
StatusAfter == [CONNECT_INIT |-> "connecting", CONNECT_SUCCESS |-> "success",
                CONNECT_FAIL |-> "failed", USER_DISCONNECT |-> "disconnected"]

\* "OTHER": an outcome of an update or the start of the time service.
MonitorMessages == DOMAIN StatusAfter \union {"OTHER"}
Statuses == {"none", "connecting", "success", "failed", "disconnected"}

Faults == {"none", "set_config", "connect", "queue_null", "ap_info", "callback"}

TypeOK ==
  /\ wifiQueue \in Seq(WifiMessages) /\ Len(wifiQueue) <= QueueLength
  /\ eventBits \subseteq Bits
  /\ retryNumber \in 0..MaxRetries
  /\ wifiPc \in WifiPcs
  /\ sta \in StaStates
  /\ notices \in Seq(Notices) /\ Len(notices) <= EventQueueLength
  /\ eventPc \in {"idle", "retry_connect", "send_got_ip", "send_disconnected"}
  /\ savedCreds \in BOOLEAN
  /\ buttonPc \in {"wait", "send", "delay"}
  /\ buttonSem \in BOOLEAN
  /\ requests \in 0..MaxRequests
  /\ serverUp \in {"down", "monitor", "up"}
  /\ monitorQueue \in Seq(MonitorMessages) /\ Len(monitorQueue) <= QueueLength
  /\ connectStatus \in Statuses
  /\ fault \in Faults
  /\ stopped \in BOOLEAN

-----------------------------------------------------------------------------
(* Boot *)

Running == fault = "none"

Init ==
  /\ wifiQueue = <<>> /\ eventBits = {} /\ retryNumber = 0 /\ wifiPc = "boot"
  /\ sta = "idle" /\ notices = <<>> /\ eventPc = "idle"
  /\ buttonPc = "wait" /\ buttonSem = FALSE /\ requests = 0
  /\ serverUp = "down" /\ monitorQueue = <<>> /\ connectStatus = "none"
  /\ fault = "none" /\ stopped = FALSE
  /\ savedCreds \in BOOLEAN

\* A reset starts everything over but NVS.
Reset ==
  /\ wifiQueue' = <<>> /\ eventBits' = {} /\ retryNumber' = 0 /\ wifiPc' = "boot"
  /\ sta' = "idle" /\ notices' = <<>> /\ eventPc' = "idle"
  /\ buttonPc' = "wait" /\ buttonSem' = FALSE /\ requests' = 0
  /\ serverUp' = "down" /\ monitorQueue' = <<>> /\ connectStatus' = "none"
  /\ fault' = "none" /\ stopped' = FALSE
  /\ UNCHANGED savedCreds

PowerCut == Running /\ Reset
PanicReset == ~Running /\ Reset

-----------------------------------------------------------------------------
(* Queues and helpers *)

HasRoom(queue) == Len(queue) < QueueLength

\* wifi_app_send_message: blocks until the queue has room.
SendWifi(msg) == HasRoom(wifiQueue) /\ wifiQueue' = Append(wifiQueue, msg)


\* Until START_HTTP_SERVER has been sent.
Booting ==
  \/ wifiPc \in {"boot", "load_set_config", "load_connect", "send_start"}
  \/ \E i \in 1..Len(wifiQueue) : wifiQueue[i] = "LOAD_SAVED_CREDENTIALS"

\* A retry counts as ready: that the console, which a task of core 1 may hold, does
\* not keep the event task waiting is part of what EventTaskFirst assumes.
EventTaskReady ==
  \/ eventPc = "idle" /\ notices # <<>>
  \/ eventPc = "retry_connect"
  \/ eventPc \in {"send_got_ip", "send_disconnected"} /\ HasRoom(wifiQueue)

\* Every other task that touches this state shares core 0 with the event task
\* and has a lower priority.
Preempted == EventTaskFirst /\ EventTaskReady
Scheduled == Running /\ ~Preempted

\* wifi_app_task is at a place of its code, and goes from there to another.
At(pc) == Scheduled /\ wifiPc = pc
Goto(from, to) == At(from) /\ wifiPc' = to

-----------------------------------------------------------------------------
(* The driver *)

\* The driver changes the link and posts the notice.
LinkChange ==
  \E change \in LinkChanges :
    /\ Running /\ sta = change.from
    /\ Len(notices) < EventQueueLength
    /\ TimedBoot => ~Booting
    /\ sta' = change.to
    /\ notices' = Append(notices, change.notice)
    /\ UNCHANGED <<taskVars, eventPc, userVars, serverVars, restVars>>

\* The changes of the link that are bound to happen.
LinkSettles == IsPending(sta) /\ LinkChange

-----------------------------------------------------------------------------
(* wifi_app_event_handler, run by the default event loop's task *)

TakeNotice(notice) ==
  /\ Running /\ eventPc = "idle" /\ notices # <<>> /\ Head(notices) = notice
  /\ notices' = Tail(notices)

\* Mutant of Retry: the bound on the retries is not tested.
RetryUnbounded ==
  /\ TakeNotice("disconnected")
  /\ retryNumber' = retryNumber + 1
  /\ eventPc' = "retry_connect"
  /\ UNCHANGED <<wifiQueue, eventBits, wifiPc, sta, userVars, serverVars, restVars>>

\* WIFI_EVENT_STA_DISCONNECTED with retries left: count one and say so.  Writing
\* to the console may block, with the decision taken and the call still to come.
Retry ==
  /\ TakeNotice("disconnected")
  /\ retryNumber < MaxRetries
  /\ retryNumber' = retryNumber + 1
  /\ eventPc' = "retry_connect"
  /\ UNCHANGED <<wifiQueue, eventBits, wifiPc, sta, userVars, serverVars, restVars>>

\* The call itself, whatever esp_wifi_connect answers.
RetryConnect ==
  /\ Running /\ eventPc = "retry_connect"
  /\ \E answer \in ConnectAnswers : answer.from = sta /\ sta' = answer.to
  /\ eventPc' = "idle"
  /\ UNCHANGED <<taskVars, notices, userVars, serverVars, restVars>>

\* Mutant of GiveUp: a loss the user asked for is not reported.
GiveUpUnlessStopping ==
  /\ TakeNotice("disconnected")
  /\ retryNumber >= MaxRetries
  /\ eventPc' = IF "USER_REQUESTED" \in eventBits THEN eventPc ELSE "send_disconnected"
  /\ UNCHANGED <<taskVars, sta, userVars, serverVars, restVars>>

\* Mutant of GiveUp: only the loss of an established connection is reported.
GiveUpOnlyIfConnected ==
  /\ TakeNotice("disconnected")
  /\ retryNumber >= MaxRetries
  /\ eventPc' = IF "GOT_IP" \in eventBits THEN "send_disconnected" ELSE eventPc
  /\ UNCHANGED <<taskVars, sta, userVars, serverVars, restVars>>

\* No retries left: the task is told; the send may block after this decision.
GiveUp ==
  /\ TakeNotice("disconnected")
  /\ retryNumber >= MaxRetries
  /\ eventPc' = "send_disconnected"
  /\ UNCHANGED <<taskVars, sta, userVars, serverVars, restVars>>

GotIp ==
  /\ TakeNotice("got_ip")
  /\ eventPc' = "send_got_ip"
  /\ UNCHANGED <<taskVars, sta, userVars, serverVars, restVars>>

\* Mutant of EventSend: the message is dropped when the queue is full.
EventSendNoWait(pc, msg) ==
  /\ Running /\ eventPc = pc
  /\ wifiQueue' = IF HasRoom(wifiQueue) THEN Append(wifiQueue, msg) ELSE wifiQueue
  /\ eventPc' = "idle"
  /\ UNCHANGED <<eventBits, retryNumber, wifiPc, sta, notices, userVars, serverVars, restVars>>

EventSend(pc, msg) ==
  /\ Running /\ eventPc = pc
  /\ SendWifi(msg)
  /\ eventPc' = "idle"
  /\ UNCHANGED <<eventBits, retryNumber, wifiPc, sta, notices, userVars, serverVars, restVars>>

EventSendGotIp == EventSend("send_got_ip", "STA_CONNECTED_GOT_IP")
EventSendDisconnected == EventSend("send_disconnected", "STA_DISCONNECTED")

EventTask == Retry \/ RetryConnect \/ GiveUp \/ GotIp \/ EventSendGotIp \/ EventSendDisconnected

-----------------------------------------------------------------------------
(* wifi_app_task: taking a message, up to the first thing it does with it *)

Receive(msg) ==
  /\ At("receive") /\ wifiQueue # <<>> /\ Head(wifiQueue) = msg
  /\ wifiQueue' = Tail(wifiQueue)

SendLoad ==
  /\ Goto("boot", "receive")
  /\ SendWifi("LOAD_SAVED_CREDENTIALS")
  /\ UNCHANGED <<eventBits, retryNumber, driverVars, userVars, serverVars, restVars>>

ReceiveLoad ==
  /\ Receive("LOAD_SAVED_CREDENTIALS")
  /\ IF savedCreds
     THEN wifiPc' = "load_set_config" /\ eventBits' = eventBits \union {"USING_SAVED_CREDS"}
     ELSE wifiPc' = "send_start" /\ UNCHANGED eventBits
  /\ UNCHANGED <<retryNumber, driverVars, userVars, serverVars, restVars>>

\* Mutant of ReceiveStart: the monitor is only kept when httpd starts.
ReceiveStartAllOrNothing ==
  /\ Receive("START_HTTP_SERVER")
  /\ serverUp' \in {serverUp, "up"}
  /\ UNCHANGED <<eventBits, retryNumber, wifiPc, driverVars, userVars, monitorQueue,
                 connectStatus, restVars>>

\* http_server_start: the monitor and its queue always, httpd if it starts.
ReceiveStart ==
  /\ Receive("START_HTTP_SERVER")
  /\ serverUp' \in IF serverUp = "up" THEN {"up"} ELSE {"monitor", "up"}
  /\ UNCHANGED <<eventBits, retryNumber, wifiPc, driverVars, userVars, monitorQueue,
                 connectStatus, savedCreds, fault, stopped>>

ReceiveConnecting ==
  /\ Receive("CONNECTING_FROM_HTTP_SERVER")
  /\ eventBits' = eventBits \union {"FROM_HTTP_SERVER"}
  /\ wifiPc' = "http_set_config"
  /\ stopped' = FALSE
  /\ UNCHANGED <<retryNumber, driverVars, userVars, serverVars, savedCreds, fault>>

\* Mutant of ReceiveGotIp: a second address in a row is taken for a repetition.
ReceiveGotIpOnce ==
  /\ Receive("STA_CONNECTED_GOT_IP")
  /\ eventBits' = eventBits \union {"GOT_IP"}
  /\ wifiPc' = IF "GOT_IP" \in eventBits THEN "receive" ELSE "send_success"
  /\ UNCHANGED <<retryNumber, driverVars, userVars, serverVars, restVars>>

ReceiveGotIp ==
  /\ Receive("STA_CONNECTED_GOT_IP")
  /\ eventBits' = eventBits \union {"GOT_IP"}
  /\ wifiPc' = "send_success"
  /\ UNCHANGED <<retryNumber, driverVars, userVars, serverVars, savedCreds, fault, stopped>>

\* A disconnect request is dropped unless the connected bit is set.
ReceiveUserRequest ==
  /\ Receive("USER_REQUESTED_STA_DISCONNECT")
  /\ IF "GOT_IP" \in eventBits
     THEN wifiPc' = "stop_retries" /\ eventBits' = eventBits \union {"USER_REQUESTED"}
     ELSE UNCHANGED <<wifiPc, eventBits>>
  /\ UNCHANGED <<retryNumber, driverVars, userVars, serverVars, restVars>>

\* app_nvs_clear_sta_creds, whose failures the task ignores.
ClearCreds == savedCreds' \in {FALSE, savedCreds}

\* The first bit of this order that is set names the reason and is cleared.
DisconnectReason ==
  IF "USING_SAVED_CREDS" \in eventBits THEN [bit |-> {"USING_SAVED_CREDS"}, next |-> "clear_connected"]
  ELSE IF "FROM_HTTP_SERVER" \in eventBits THEN [bit |-> {"FROM_HTTP_SERVER"}, next |-> "send_fail"]
  ELSE IF "USER_REQUESTED" \in eventBits THEN [bit |-> {"USER_REQUESTED"}, next |-> "send_user_disconnect"]
  ELSE [bit |-> {}, next |-> "clear_connected"]

ReceiveDisconnected ==
  /\ Receive("STA_DISCONNECTED")
  /\ eventBits' = eventBits \ DisconnectReason.bit
  /\ wifiPc' = DisconnectReason.next
  /\ IF "USING_SAVED_CREDS" \in eventBits THEN ClearCreds ELSE UNCHANGED savedCreds
  /\ UNCHANGED <<retryNumber, driverVars, userVars, serverVars, fault, stopped>>

-----------------------------------------------------------------------------
(* wifi_app_task: the rest of each handler *)

\* ESP_ERROR_CHECK: the firmware aborts.
Abort(reason) == fault' = reason /\ UNCHANGED wifiPc

\* The two calls of wifi_app_connect_sta, each under ESP_ERROR_CHECK.
SetConfig(from, to) ==
  /\ At(from)
  /\ IF SetConfigAccepted(sta) THEN wifiPc' = to /\ UNCHANGED fault ELSE Abort("set_config")
  /\ UNCHANGED <<wifiQueue, eventBits, retryNumber, driverVars, userVars, serverVars,
                 savedCreds, stopped>>

Connect(from, to) ==
  /\ At(from)
  /\ \E answer \in ConnectAnswers :
       /\ answer.from = sta /\ sta' = answer.to
       /\ IF answer.ok THEN wifiPc' = to /\ UNCHANGED fault ELSE Abort("connect")
  /\ UNCHANGED <<wifiQueue, eventBits, retryNumber, notices, eventPc, userVars, serverVars,
                 savedCreds, stopped>>

LoadSetConfig == SetConfig("load_set_config", "load_connect")
LoadConnect == Connect("load_connect", "send_start")
HttpSetConfig == SetConfig("http_set_config", "http_connect")
HttpConnect == Connect("http_connect", "reset_retry")

SendStart ==
  /\ Goto("send_start", "receive")
  /\ SendWifi("START_HTTP_SERVER")
  /\ UNCHANGED <<eventBits, retryNumber, driverVars, userVars, serverVars, restVars>>

ResetRetry ==
  /\ Goto("reset_retry", "send_init")
  /\ retryNumber' = 0
  /\ UNCHANGED <<wifiQueue, eventBits, driverVars, userVars, serverVars, restVars>>

\* Mutant of TellMonitor: without httpd nobody makes room in the monitor's queue.
TellMonitorNeedsHttpd(from, to, msg) ==
  /\ At(from)
  /\ serverUp = "up" /\ HasRoom(monitorQueue)
  /\ monitorQueue' = Append(monitorQueue, msg)
  /\ wifiPc' = to
  /\ UNCHANGED <<wifiQueue, eventBits, retryNumber, driverVars, userVars, serverUp,
                 connectStatus, restVars>>

\* http_server_monitor_send_message; the queue handle is NULL before the server starts.
TellMonitor(from, to, msg) ==
  /\ At(from)
  /\ \/ /\ serverUp = "down"
        /\ Abort("queue_null")
        /\ UNCHANGED monitorQueue
     \/ /\ serverUp # "down"
        /\ HasRoom(monitorQueue)
        /\ monitorQueue' = Append(monitorQueue, msg)
        /\ wifiPc' = to
        /\ UNCHANGED fault
  /\ UNCHANGED <<wifiQueue, eventBits, retryNumber, driverVars, userVars, serverUp,
                 connectStatus, savedCreds, stopped>>

SendInit == TellMonitor("send_init", "receive", "CONNECT_INIT")
SendSuccess == TellMonitor("send_success", "save_creds", "CONNECT_SUCCESS")
SendFail == TellMonitor("send_fail", "clear_connected", "CONNECT_FAIL")
SendUserDisconnect == TellMonitor("send_user_disconnect", "clear_connected", "USER_DISCONNECT")

\* Mutant of SaveCreds: the bit of the request stays set.
SaveCredsKeepsRequest ==
  /\ Goto("save_creds", "callback")
  /\ IF "USING_SAVED_CREDS" \in eventBits THEN UNCHANGED savedCreds
                                          ELSE savedCreds' \in {TRUE, savedCreds}
  /\ eventBits' = eventBits \ {"USING_SAVED_CREDS"}
  /\ UNCHANGED <<wifiQueue, retryNumber, driverVars, userVars, serverVars, fault, stopped>>

\* Credentials are saved unless they are the saved ones; saving may fail unnoticed.
SaveCreds ==
  /\ Goto("save_creds", "callback")
  /\ IF "USING_SAVED_CREDS" \in eventBits THEN UNCHANGED savedCreds
                                          ELSE savedCreds' \in {TRUE, savedCreds}
  /\ eventBits' = eventBits \ {"USING_SAVED_CREDS", "FROM_HTTP_SERVER"}
  /\ UNCHANGED <<wifiQueue, retryNumber, driverVars, userVars, serverVars, fault, stopped>>

\* The callback, if app_main has set it by now, publishes over an MQTT context
\* nobody initialised: it returns or crashes.
Callback ==
  /\ At("callback")
  /\ \/ wifiPc' = "receive" /\ UNCHANGED fault
     \/ Abort("callback")
  /\ UNCHANGED <<wifiQueue, eventBits, retryNumber, driverVars, userVars, serverVars,
                 savedCreds, stopped>>

\* Mutant of StopRetries: the retries are left as they are.
StopRetriesForgotten ==
  /\ Goto("stop_retries", "stop_link")
  /\ UNCHANGED <<wifiQueue, eventBits, retryNumber, driverVars, userVars, serverVars, restVars>>

StopRetries ==
  /\ Goto("stop_retries", "stop_link")
  /\ retryNumber' = MaxRetries
  /\ UNCHANGED <<wifiQueue, eventBits, driverVars, userVars, serverVars, restVars>>

StopLink ==
  /\ Goto("stop_link", "stop_creds")
  /\ sta' = AfterDisconnect(sta)
  /\ stopped' = TRUE
  /\ UNCHANGED <<wifiQueue, eventBits, retryNumber, notices, eventPc, userVars, serverVars,
                 savedCreds, fault>>

StopCreds ==
  /\ Goto("stop_creds", "receive")
  /\ ClearCreds
  /\ UNCHANGED <<wifiQueue, eventBits, retryNumber, driverVars, userVars, serverVars,
                 fault, stopped>>

ClearConnected ==
  /\ Goto("clear_connected", "receive")
  /\ eventBits' = eventBits \ {"GOT_IP"}
  /\ UNCHANGED <<wifiQueue, retryNumber, driverVars, userVars, serverVars, restVars>>

Receives == ReceiveLoad \/ ReceiveStart \/ ReceiveConnecting \/ ReceiveGotIp
              \/ ReceiveUserRequest \/ ReceiveDisconnected
Handles == SendLoad \/ LoadSetConfig \/ LoadConnect \/ SendStart
             \/ HttpSetConfig \/ HttpConnect \/ ResetRetry \/ SendInit
             \/ SendSuccess \/ SaveCreds \/ Callback
             \/ StopRetries \/ StopLink \/ StopCreds
             \/ SendFail \/ SendUserDisconnect \/ ClearConnected
WifiTask == Receives \/ Handles

\* What the task has to say to the monitor.
Reports == SendInit \/ SendSuccess \/ SendFail \/ SendUserDisconnect

-----------------------------------------------------------------------------
(* The HTTP server monitor, the reset button and the request handlers *)

\* The upload handler and the time task, which runs on core 1, send to the same
\* queue, both at a lower priority than the Wi-Fi task's.
SendOther ==
  /\ Running /\ serverUp # "down"
  /\ HasRoom(monitorQueue)
  /\ monitorQueue' = Append(monitorQueue, "OTHER")
  /\ UNCHANGED <<taskVars, driverVars, userVars, serverUp, connectStatus, restVars>>

\* http_server_monitor: the next message of the Wi-Fi task becomes the published
\* status; the others set variables of their own.
Monitor ==
  /\ Scheduled /\ serverUp # "down" /\ monitorQueue # <<>>
  /\ connectStatus' = IF Head(monitorQueue) = "OTHER" THEN connectStatus
                                                    ELSE StatusAfter[Head(monitorQueue)]
  /\ monitorQueue' = Tail(monitorQueue)
  /\ UNCHANGED <<taskVars, driverVars, userVars, serverUp, restVars>>

\* The user asks for something.
Ask == Running /\ requests < MaxRequests /\ requests' = requests + 1

\* wifi_reset_button_isr_handler: the semaphore is binary.
Press ==
  /\ Ask
  /\ buttonSem' = TRUE
  /\ UNCHANGED <<taskVars, driverVars, buttonPc, serverVars, restVars>>

ButtonTake ==
  /\ Scheduled /\ buttonPc = "wait" /\ buttonSem
  /\ buttonPc' = "send" /\ buttonSem' = FALSE
  /\ UNCHANGED <<taskVars, driverVars, requests, serverVars, restVars>>

\* Mutant of ButtonSend: no debounce delay.
ButtonSendNoDelay ==
  /\ Scheduled /\ buttonPc = "send"
  /\ SendWifi("USER_REQUESTED_STA_DISCONNECT")
  /\ buttonPc' = "wait"
  /\ UNCHANGED <<eventBits, retryNumber, wifiPc, driverVars, buttonSem, requests, serverVars, restVars>>

ButtonSend ==
  /\ Scheduled /\ buttonPc = "send"
  /\ SendWifi("USER_REQUESTED_STA_DISCONNECT")
  /\ buttonPc' = "delay"
  /\ UNCHANGED <<eventBits, retryNumber, wifiPc, driverVars, buttonSem, requests, serverVars, restVars>>

\* The end of the 2 s vTaskDelay.
ButtonDelayOver ==
  /\ Scheduled /\ buttonPc = "delay"
  /\ TimedBoot => ~Booting
  /\ buttonPc' = "wait"
  /\ UNCHANGED <<taskVars, driverVars, buttonSem, requests, serverVars, restVars>>

ButtonTask == ButtonTake \/ ButtonSend \/ ButtonDelayOver

\* /wifiConnect.json and /wifiDisconnect.json post to the Wi-Fi task.
Request(msg) ==
  /\ Scheduled /\ serverUp = "up" /\ Ask
  /\ SendWifi(msg)
  /\ UNCHANGED <<eventBits, retryNumber, wifiPc, driverVars, buttonPc, buttonSem, serverVars, restVars>>

RequestConnect == Request("CONNECTING_FROM_HTTP_SERVER")
RequestDisconnect == Request("USER_REQUESTED_STA_DISCONNECT")

\* /wifiConnectInfo.json: with the status "success" it asks the driver for the
\* access point under ESP_ERROR_CHECK; without a link the driver has none.
RequestConnectInfo ==
  /\ Scheduled /\ serverUp = "up" /\ connectStatus = "success" /\ sta # "up"
  /\ fault' = "ap_info"
  /\ UNCHANGED <<taskVars, driverVars, userVars, serverVars, savedCreds, stopped>>

HttpServer == RequestConnect \/ RequestDisconnect \/ RequestConnectInfo

-----------------------------------------------------------------------------
Next ==
  \/ LinkChange \/ EventTask \/ WifiTask
  \/ Press \/ ButtonTask \/ SendOther \/ Monitor \/ HttpServer
  \/ PowerCut
  \/ PanicReset

\* Tasks run when they can and the radio resolves what it started.  Of those that
\* wait for room in the monitor's queue the Wi-Fi task has the highest priority and
\* is woken first, so it is not passed over for ever.  Nothing obliges the user, the
\* access point or the power supply.
Fairness ==
  /\ WF_vars(LinkSettles)
  /\ WF_vars(EventTask)
  /\ WF_vars(WifiTask)
  /\ SF_vars(Reports)
  /\ WF_vars(Monitor)
  /\ WF_vars(ButtonTask)
  /\ WF_vars(PanicReset)

Spec == Init /\ [][Next]_vars
FairSpec == Spec /\ Fairness

-----------------------------------------------------------------------------
(* Properties: the link and what is known of it *)

\* Once the user's disconnect has been carried out, and until the next connect
\* request, no loss is retried and nothing connects the station but one retry the
\* event handler had decided on before the stop (wifi_app.c:328-333, 92-98).
Down == {"idle", "leaving"}
LinkStaysDown ==
  [][stopped /\ stopped' =>
       /\ eventPc' = "retry_connect" => eventPc = "retry_connect"
       /\ sta \in Down /\ sta' \notin Down => eventPc = "retry_connect"]_vars

\* Why LinkStaysDown holds: after the stop there is no retry left and the task is
\* not about to connect; the load of the saved credentials, which also connects,
\* comes once, before anything has been asked of the station.
ConnectingPcs == {"load_set_config", "load_connect", "http_set_config", "http_connect", "reset_retry"}

StopHolds ==
  /\ stopped => retryNumber = MaxRetries /\ wifiPc \notin ConnectingPcs
  /\ wifiPc = "stop_link" => retryNumber = MaxRetries

LoadQueued(i) == wifiQueue[i] = "LOAD_SAVED_CREDENTIALS"
LoadPending == wifiPc = "boot" \/ \E i \in 1..Len(wifiQueue) : LoadQueued(i)

LoadOnce ==
  /\ \A i, j \in 1..Len(wifiQueue) : LoadQueued(i) /\ LoadQueued(j) => i = j
  /\ wifiPc = "boot" => \A i \in 1..Len(wifiQueue) : ~LoadQueued(i)

LoadComesFirst ==
  LoadPending =>
    /\ wifiPc \in {"boot", "receive"} /\ eventBits = {} /\ ~stopped /\ serverUp = "down"
    /\ sta = "idle" /\ notices = <<>> /\ eventPc = "idle"
    /\ \A i \in 1..Len(wifiQueue) :
         wifiQueue[i] \in {"LOAD_SAVED_CREDENTIALS", "USER_REQUESTED_STA_DISCONNECT"}

StopInv == StopHolds /\ LoadOnce /\ LoadComesFirst

\* The link notices that have left the driver and not yet reached the task: with
\* the event loop, in the event handler's hands (where a loss may be answered by a
\* retry instead of a message), in the task's queue.
MessageOf == [got_ip |-> "STA_CONNECTED_GOT_IP", disconnected |-> "STA_DISCONNECTED"]
HandlingOf == [got_ip |-> {"send_got_ip"}, disconnected |-> {"send_disconnected", "retry_connect"}]
LinkMessages == {"STA_CONNECTED_GOT_IP", "STA_DISCONNECTED"}
NoLinkMessageFrom(k) == \A i \in k..Len(wifiQueue) : wifiQueue[i] \notin LinkMessages

NoNews == notices = <<>> /\ eventPc = "idle" /\ NoLinkMessageFrom(1)
LatestNews(notice) ==
  \/ notices # <<>> /\ notices[Len(notices)] = notice
  \/ notices = <<>> /\ eventPc \in HandlingOf[notice]
  \/ /\ notices = <<>> /\ eventPc = "idle"
     /\ \E i \in 1..Len(wifiQueue) : wifiQueue[i] = MessageOf[notice] /\ NoLinkMessageFrom(i + 1)

Disconnecting == wifiPc \in {"send_fail", "send_user_disconnect", "clear_connected"}

\* A link that is up is known to be up, or will be: if notices are under way the
\* last of them says so, else the task has the connected bit set and is not about
\* to clear it (wifi_app.c:114-118, 296, 369-372).
LinkNotLost ==
  sta = "up" => LatestNews("got_ip") \/ (NoNews /\ "GOT_IP" \in eventBits /\ ~Disconnecting)

\* A loss is known of, or will be, or is about to be retried: if notices are under
\* way the last of them says so, else the connected bit is clear or about to be
\* (wifi_app.c:92-103, 341-372).
LossNotMissed ==
  sta = "idle" => LatestNews("disconnected") \/ (NoNews /\ ("GOT_IP" \in eventBits => Disconnecting))

Settled ==
  /\ Running /\ wifiPc = "receive" /\ eventPc = "idle"
  /\ wifiQueue = <<>> /\ monitorQueue = <<>> /\ notices = <<>>

\* With nothing under way, a link that is up is published as "success" whatever
\* attempts, losses and requests came before (http_server_monitor.c:26-47).
StatusTracksLink == Settled /\ sta = "up" => connectStatus = "success"

-----------------------------------------------------------------------------
(* Properties: start-up and the queues *)

\* wifi_app_task never waits for room in its own queue, which only it empties
\* (wifi_app.c:244, 271, portMAX_DELAY at 386).
NoSelfDeadlock == wifiPc \in {"boot", "send_start"} => HasRoom(wifiQueue)

\* No message goes to the monitor before http_server_start has made its queue
\* (wifi_app.c:271-276, http_server.c:50).
MonitorQueueReady == fault # "queue_null"

\* The Wi-Fi task comes back to its queue: no send of it blocks for ever.
TaskReturns == wifiPc # "receive" ~> wifiPc = "receive"

\* A press of the button is taken, however busy the queue its task sends to.
ButtonServed == buttonSem ~> ~buttonSem

-----------------------------------------------------------------------------
(* Properties: what the page is told of an attempt *)

\* Every announced attempt gets one outcome: "failed" is published only of an
\* attempt announced as "connecting", and "connecting" is followed by "success"
\* or "failed", never by a disconnection (wifi_app.c:283-290, 312-315, 352-363).
AttemptProtocol ==
  [][connectStatus' # connectStatus /\ wifiPc' # "boot" =>
       /\ connectStatus' = "failed" => connectStatus = "connecting"
       /\ connectStatus = "connecting" => connectStatus' \in {"success", "failed"}]_vars

\* An announced attempt does not stay "connecting" for ever: the page polls
\* until it reads something else (wifi_app.c:290, 300, 356).
AttemptResolves == connectStatus = "connecting" ~> connectStatus # "connecting"

\* The connected bit of a link that is gone does not last (wifi_app.c:369-372).
StaleBitCleared ==
  (sta = "idle" /\ "GOT_IP" \in eventBits) ~> (sta # "idle" \/ "GOT_IP" \notin eventBits)

-----------------------------------------------------------------------------
(* What a comment of the source claims and the code does not do *)

\* wifi_reset_button.c:40: the user's disconnect clears the credentials; nothing
\* saves them again before the next connect request.
StopForgetsCreds == [][stopped /\ stopped' /\ ~savedCreds => ~savedCreds']_vars
==============================================================================
