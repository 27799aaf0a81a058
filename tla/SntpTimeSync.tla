---------------------------- MODULE SntpTimeSync -----------------------------
(***************************************************************************)
(* The local time: the callback of main/main.c that starts a time task at  *)
(* every connection, the tasks themselves (main/sntp_time_sync.c), the     *)
(* monitor's message about them (main/http_server_monitor.c) and what the  *)
(* page then reads (main/http_handlers_sntp.c).                            *)
(*                                                                         *)
(* The system clock is "set" once it is past 2016.  It survives every      *)
(* restart but a loss of power.                                            *)
(***************************************************************************)
EXTENDS Naturals, Sequences

CONSTANTS
  Tasks,         \* the time tasks the heap has room for
  QueueLength,   \* depth of http_server_monitor_queue
  MaxOthers      \* other messages for the monitor between two starts (a bound)

ASSUME QueueLengthAssumption == QueueLength \in Nat \ {0}
ASSUME MaxOthersAssumption == MaxOthers \in Nat

VARIABLES
  clock,         \* the system clock: "unset" or "set"
  timed,         \* once and for all, connecting takes longer than app_main and a task's start
  callbackSet,   \* wifi_connected_event_cb is set
  connected,     \* the station has a link
  calling,       \* wifi_app_task is in the MQTT calls of the callback
  pc,            \* where each time task is, "none" before it exists
  opModeSet,     \* sntp_op_mode_set
  running,       \* lwIP's SNTP client runs
  queue,         \* http_server_monitor_queue_handle
  others,        \* other messages so far, for the bound MaxOthers
  timeSet,       \* g_is_local_time_set
  fault          \* why the firmware aborted, "none" while it runs

wifiVars == <<timed, callbackSet, connected, calling>>
sntpVars == <<pc, opModeSet, running>>
monitorVars == <<queue, others, timeSet>>
vars == <<clock, wifiVars, sntpVars, monitorVars, fault>>

Messages == {"TIME_SERVICE_INITIALIZED", "OTHER"}
StartingPcs == {"check", "read_mode", "set_mode", "init", "send"}

TypeOK ==
  /\ clock \in {"unset", "set"}
  /\ timed \in BOOLEAN /\ callbackSet \in BOOLEAN /\ connected \in BOOLEAN /\ calling \in BOOLEAN
  /\ pc \in [Tasks -> StartingPcs \union {"none", "delay"}]
  /\ opModeSet \in BOOLEAN /\ running \in BOOLEAN /\ timeSet \in BOOLEAN
  /\ queue \in Seq(Messages) /\ Len(queue) <= QueueLength
  /\ others \in 0..MaxOthers
  /\ fault \in {"none", "set_mode", "mqtt"}

-----------------------------------------------------------------------------
(* Starting *)

Up == fault = "none"

Init ==
  /\ clock = "unset" /\ callbackSet = FALSE /\ connected = FALSE /\ calling = FALSE
  /\ pc = [t \in Tasks |-> "none"] /\ opModeSet = FALSE /\ running = FALSE
  /\ queue = <<>> /\ others = 0 /\ timeSet = FALSE /\ fault = "none" /\ timed \in BOOLEAN

Restart ==
  /\ callbackSet' = FALSE /\ connected' = FALSE /\ calling' = FALSE
  /\ pc' = [t \in Tasks |-> "none"] /\ opModeSet' = FALSE /\ running' = FALSE
  /\ queue' = <<>> /\ others' = 0 /\ timeSet' = FALSE /\ fault' = "none"
  /\ UNCHANGED timed

PowerCut == Restart /\ clock' = "unset"

\* An update's restart, or one after a crash.
SoftRestart == Up /\ Restart /\ UNCHANGED clock
PanicRestart == ~Up /\ Restart /\ UNCHANGED clock

\* The last statement of app_main.
SetCallback ==
  /\ Up /\ ~callbackSet
  /\ callbackSet' = TRUE
  /\ UNCHANGED <<clock, timed, connected, calling, sntpVars, monitorVars, fault>>

-----------------------------------------------------------------------------
(* The link, and the callback it leads to *)

Starting(t) == pc[t] \in StartingPcs
RoomForTask == \E t \in Tasks : pc[t] = "none"

\* sntp_time_sync_task_start, which does not look at whether there was room.
StartTask ==
  \/ \E t \in Tasks : pc[t] = "none" /\ pc' = [pc EXCEPT ![t] = "check"]
  \/ ~RoomForTask /\ UNCHANGED pc

\* The station has got an address: the callback, if it is set by now.
Connect ==
  /\ Up /\ ~connected /\ ~calling
  /\ timed => callbackSet /\ \A t \in Tasks : ~Starting(t)
  /\ connected' = TRUE
  /\ IF callbackSet THEN StartTask /\ calling' = TRUE ELSE UNCHANGED <<pc, calling>>
  /\ UNCHANGED <<clock, timed, callbackSet, opModeSet, running, monitorVars, fault>>

LoseLink ==
  /\ Up /\ connected
  /\ connected' = FALSE
  /\ UNCHANGED <<clock, timed, callbackSet, calling, sntpVars, monitorVars, fault>>

\* The MQTT calls over a context nobody initialised return or crash.
CallMqtt ==
  /\ Up /\ calling
  /\ calling' = FALSE
  /\ fault' \in {"none", "mqtt"}
  /\ UNCHANGED <<clock, timed, callbackSet, connected, sntpVars, monitorVars>>

-----------------------------------------------------------------------------
(* A time task *)

Goto(t, from, to) == Up /\ pc[t] = from /\ pc' = [pc EXCEPT ![t] = to]

\* SNTP is only started while the clock is not set.
Check(t) ==
  /\ Goto(t, "check", IF clock = "unset" THEN "read_mode" ELSE "delay")
  /\ UNCHANGED <<clock, wifiVars, opModeSet, running, monitorVars, fault>>

\* Mutant of ReadMode: a mode that is set is taken for a service that runs.
ReadModeAndSkip(t) ==
  /\ Goto(t, "read_mode", IF opModeSet THEN "send" ELSE "set_mode")
  /\ UNCHANGED <<clock, wifiVars, opModeSet, running, monitorVars, fault>>

ReadMode(t) ==
  /\ Goto(t, "read_mode", IF opModeSet THEN "init" ELSE "set_mode")
  /\ UNCHANGED <<clock, wifiVars, opModeSet, running, monitorVars, fault>>

\* Mutant of SetMode: the task does not note that it has set the mode.
SetModeUnnoted(t) ==
  /\ \/ /\ ~running
        /\ Goto(t, "set_mode", "init") /\ UNCHANGED fault
     \/ /\ running
        /\ Up /\ pc[t] = "set_mode" /\ fault' = "set_mode"
        /\ UNCHANGED pc
  /\ UNCHANGED <<clock, wifiVars, opModeSet, running, monitorVars>>

\* lwIP asserts that the mode is not set while its client runs.
SetMode(t) ==
  /\ \/ /\ ~running
        /\ Goto(t, "set_mode", "init") /\ opModeSet' = TRUE /\ UNCHANGED fault
     \/ /\ running
        /\ Up /\ pc[t] = "set_mode" /\ fault' = "set_mode"
        /\ UNCHANGED <<pc, opModeSet>>
  /\ UNCHANGED <<clock, wifiVars, running, monitorVars>>

\* A second sntp_init has no effect.
InitSntp(t) ==
  /\ Goto(t, "init", "send")
  /\ running' = TRUE
  /\ UNCHANGED <<clock, wifiVars, opModeSet, monitorVars, fault>>

HasRoom == Len(queue) < QueueLength

\* Mutant of Announce: the message is dropped when the queue is full.
AnnounceNoWait(t) ==
  /\ Goto(t, "send", "delay")
  /\ queue' = IF HasRoom THEN Append(queue, "TIME_SERVICE_INITIALIZED") ELSE queue
  /\ UNCHANGED <<clock, wifiVars, opModeSet, running, others, timeSet, fault>>

Announce(t) ==
  /\ Goto(t, "send", "delay") /\ HasRoom
  /\ queue' = Append(queue, "TIME_SERVICE_INITIALIZED")
  /\ UNCHANGED <<clock, wifiVars, opModeSet, running, others, timeSet, fault>>

\* The end of the 10 s vTaskDelay.
DelayOver(t) ==
  /\ Goto(t, "delay", "check")
  /\ UNCHANGED <<clock, wifiVars, opModeSet, running, monitorVars, fault>>

TimeTask(t) == Check(t) \/ ReadMode(t) \/ SetMode(t) \/ InitSntp(t) \/ Announce(t) \/ DelayOver(t)

\* A time server answers lwIP's client.
Answer ==
  /\ Up /\ running /\ connected /\ clock = "unset"
  /\ clock' = "set"
  /\ UNCHANGED <<wifiVars, sntpVars, monitorVars, fault>>

-----------------------------------------------------------------------------
(* The monitor *)

\* Messages of the Wi-Fi task and of the update share the queue.
SendOther ==
  /\ Up /\ others < MaxOthers /\ HasRoom
  /\ queue' = Append(queue, "OTHER") /\ others' = others + 1
  /\ UNCHANGED <<clock, wifiVars, sntpVars, timeSet, fault>>

Monitor ==
  /\ Up /\ queue # <<>>
  /\ queue' = Tail(queue)
  /\ timeSet' = (timeSet \/ Head(queue) = "TIME_SERVICE_INITIALIZED")
  /\ UNCHANGED <<clock, wifiVars, sntpVars, others, fault>>

-----------------------------------------------------------------------------
Next ==
  \/ SetCallback \/ Connect \/ LoseLink \/ CallMqtt
  \/ \E t \in Tasks : TimeTask(t)
  \/ Answer \/ SendOther \/ Monitor
  \/ PowerCut \/ SoftRestart \/ PanicRestart

\* Tasks run when they can, delays end, and a time server that can be reached
\* answers in the end.
Fairness ==
  /\ \A t \in Tasks : WF_vars(TimeTask(t))
  /\ WF_vars(Monitor)
  /\ WF_vars(Answer)
  /\ WF_vars(PanicRestart)

Spec == Init /\ [][Next]_vars
FairSpec == Spec /\ Fairness

-----------------------------------------------------------------------------
(* Properties *)

\* What /localTime.json answers with a time: the flag is set and the clock is.
Shown == timeSet /\ clock = "set"

\* The page is told of the time service only when lwIP's client runs, however many
\* tasks start it at once (sntp_time_sync.c:20-28).
AnnouncedRuns ==
  timeSet \/ (\E i \in 1..Len(queue) : queue[i] = "TIME_SERVICE_INITIALIZED") => running

\* No task sets the operating mode of a client that runs: the flag that remembers
\* it outlives the task that set it (sntp_time_sync.c:13-25).
ModeSetBeforeRunning == timed => fault # "set_mode"

\* After a loss of power a connection that lasts leads to a time on the page
\* (sntp_time_sync.c:42-45, http_handlers_sntp.c:21-24).
ColdStartShowsTime == (timed /\ connected /\ clock = "unset") ~> (Shown \/ ~connected)
==============================================================================
