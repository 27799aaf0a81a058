------------------------------ MODULE WebPage ------------------------------
(***************************************************************************)
(* The page of app.js with the board that serves it: the countdown after a *)
(* firmware update against the board's own reset, the synchronous request  *)
(* for the update's status, and the requests that the board takes and never *)
(* answers, each of which keeps one of the browser's connections.          *)
(*                                                                         *)
(* A tick is one second.  A timer of the page fires after the next tick or *)
(* any time later; the board's reset fires on time.                        *)
(***************************************************************************)
EXTENDS Integers, FiniteSets

CONSTANTS Chains,       \* bound: the countdowns of one page
          Connections,  \* what the browser opens to one host
          MaxEvents,    \* bound: progress events of one upload
          MaxLate       \* bound: how far below zero the count is shown

ASSUME PageAssumption == Connections \in Nat \ {0} /\ MaxEvents \in Nat /\ MaxLate \in Nat
ASSUME ChainsAssumption == IsFiniteSet(Chains)

VARIABLES page,         \* "loading", "ready", "dead", "reloading" or "error"
          sync,         \* the handler that waits in a synchronous request, or "none"
          seconds,      \* the globals of app.js
          otaTimerVar,
          timer,        \* the timers of the countdowns: "off", "armed", "due"
          events,       \* progress events the browser has still to deliver
          pending,      \* unanswered requests, by what they ask for
          up,           \* the board: it answers
          uploading,    \* its one server task is in the update handler
          update,       \* g_fw_update_status
          resetIn       \* seconds to the reset after an update
pageVars == <<page, sync, seconds, otaTimerVar, timer, events>>
boardVars == <<up, uploading, update, resetIn>>
vars == <<pageVars, pending, boardVars>>

Requests == {"connect", "disconnect", "update"}
NoRequests == [r \in Requests |-> 0]
NoTimers == [c \in Chains |-> "off"]
Running == {c \in Chains : timer[c] # "off"}
Connected == pending["connect"] + pending["disconnect"] + pending["update"] < Connections
\* Scripts of a page run one at a time, and not while one waits.
Runs == page \in {"ready", "reloading"} /\ sync = "none"
ResetAfter == 8

Init == /\ page = "loading" /\ sync = "load" /\ seconds = 0 /\ otaTimerVar = "null" /\ timer = NoTimers
        /\ events = 0 /\ pending = NoRequests
        /\ up = TRUE /\ uploading = FALSE /\ update = 0 /\ resetIn = 0

-----------------------------------------------------------------------------
\* Mutant: the timer is not set again.
otaRebootTimerOnce(c, count) ==
  /\ seconds' = count - 1
  /\ timer' = [timer EXCEPT ![c] = "off"]
  /\ page' = IF count - 1 = 0 THEN "reloading" ELSE page
  /\ UNCHANGED otaTimerVar
\* The countdown.  c is the timer of the countdown that runs.
otaRebootTimer(c, count) ==
  /\ seconds' = count - 1
  /\ IF count - 1 = 0
       THEN /\ timer' = [k \in Chains |-> IF k \in {c, otaTimerVar} THEN "off" ELSE timer[k]]
            /\ page' = "reloading" /\ UNCHANGED otaTimerVar
       ELSE /\ timer' = [timer EXCEPT ![c] = "armed"] /\ otaTimerVar' = c /\ UNCHANGED page
Fire(c) ==
  /\ Runs /\ timer[c] = "due" /\ seconds > -MaxLate
  /\ otaRebootTimer(c, seconds)
  /\ UNCHANGED <<sync, events, pending, boardVars>>

\* Mutant: the count starts with the board's.
getUpdateStatusFromEight(status) ==
  IF status # 1 THEN UNCHANGED <<seconds, otaTimerVar, timer>>
  ELSE \E c \in Chains \ Running : seconds' = 7 /\ timer' = [timer EXCEPT ![c] = "armed"] /\ otaTimerVar' = c
\* What the status leads to: one more countdown over the same count.
getUpdateStatus(status) ==
  IF status # 1 THEN UNCHANGED <<seconds, otaTimerVar, timer>>
  ELSE \E c \in Chains \ Running : seconds' = 9 /\ timer' = [timer EXCEPT ![c] = "armed"] /\ otaTimerVar' = c

\* A progress event asks for the status, and waits.
updateProgress ==
  /\ Runs /\ events > 0
  /\ events' = events - 1 /\ sync' = "progress"
  /\ UNCHANGED <<page, seconds, otaTimerVar, timer, pending, boardVars>>
\* The answer, when a connection is free and the server's task is.  The page
\* that was loading goes on to install its intervals and its buttons.
StatusAnswered ==
  /\ sync # "none" /\ up /\ ~uploading /\ Connected
  /\ getUpdateStatus(update)
  /\ sync' = "none" /\ page' = IF sync = "load" THEN "ready" ELSE page
  /\ UNCHANGED <<events, pending, boardVars>>
\* No answer: the handler ends there, and ready() with it.
StatusFailed ==
  /\ sync # "none" /\ ~up
  /\ sync' = "none" /\ page' = IF sync = "load" THEN "dead" ELSE page
  /\ UNCHANGED <<seconds, otaTimerVar, timer, events, pending, boardVars>>

\* A document is loaded, by the countdown or by the user.
Load ==
  /\ page # "loading" /\ sync = "none"
  /\ IF up THEN page' = "loading" /\ sync' = "load" ELSE page' = "error" /\ sync' = "none"
  /\ seconds' = 0 /\ otaTimerVar' = "null" /\ timer' = NoTimers /\ events' = 0 /\ pending' = NoRequests
  /\ UNCHANGED boardVars

-----------------------------------------------------------------------------
\* Buttons.  The handlers of the three requests return without a response.
Ask(request) ==
  /\ page = "ready" /\ sync = "none" /\ up /\ Connected
  /\ pending' = [pending EXCEPT ![request] = @ + 1]
  /\ UNCHANGED <<page, sync, seconds, otaTimerVar, timer>>
connectWifi == Ask("connect") /\ UNCHANGED <<events, boardVars>>
disconnectWifi == Ask("disconnect") /\ UNCHANGED <<events, boardVars>>
\* The user begins no update on a page that counts down, or for a board about to restart.
updateFirmware ==
  /\ update # 1 /\ ~uploading /\ Running = {}
  /\ Ask("update") /\ uploading' = TRUE /\ events' = MaxEvents
  /\ UNCHANGED <<up, update, resetIn>>
\* The browser gives a request up; the handler of the error shows a message.
GiveUp ==
  /\ \E r \in Requests : pending[r] > 0 /\ pending' = [pending EXCEPT ![r] = @ - 1]
  /\ UNCHANGED <<pageVars, boardVars>>

-----------------------------------------------------------------------------
\* The board.
http_server_OTA_update_handler ==
  /\ uploading /\ uploading' = FALSE
  /\ \/ update' = 1 /\ resetIn' = ResetAfter
     \/ update' = -1 /\ UNCHANGED resetIn
     \/ UNCHANGED <<update, resetIn>>
  /\ UNCHANGED <<pageVars, pending, up>>
http_server_fw_update_reset_callback ==
  /\ update = 1 /\ resetIn = 0
  /\ up' = FALSE /\ update' = 0 /\ uploading' = FALSE /\ pending' = NoRequests
  /\ UNCHANGED <<pageVars, resetIn>>
Boot == ~up /\ up' = TRUE /\ UNCHANGED <<pageVars, pending, uploading, update, resetIn>>

Tick ==
  /\ ~(update = 1 /\ resetIn = 0)
  /\ resetIn' = IF update = 1 THEN resetIn - 1 ELSE resetIn
  /\ timer' = [c \in Chains |-> IF timer[c] = "armed" THEN "due" ELSE timer[c]]
  /\ UNCHANGED <<page, sync, seconds, otaTimerVar, events, pending, up, uploading, update>>

Next == \/ updateProgress \/ StatusAnswered \/ StatusFailed \/ Load
        \/ (\E c \in Chains : Fire(c))
        \/ connectWifi \/ disconnectWifi \/ updateFirmware \/ GiveUp
        \/ http_server_OTA_update_handler \/ http_server_fw_update_reset_callback \/ Boot \/ Tick
\* Timers, answers, the board's tasks and the browser's time limits do not
\* wait for ever, and a timer not behind other handlers; the user does.
Fairness == /\ WF_vars(Tick) /\ \A c \in Chains : SF_vars(Fire(c))
            /\ WF_vars(StatusAnswered) /\ WF_vars(StatusFailed) /\ WF_vars(GiveUp)
            /\ WF_vars(page = "reloading" /\ Load)
            /\ WF_vars(http_server_OTA_update_handler) /\ WF_vars(http_server_fw_update_reset_callback) /\ WF_vars(Boot)
Spec == Init /\ [][Next]_vars /\ Fairness
-----------------------------------------------------------------------------
\* A countdown that runs alone does not reload the page before the board has
\* restarted into the firmware it counts for.
ReloadsAfterRestart ==
  [][(page = "ready" /\ page' = "reloading" /\ Cardinality(Running) = 1) => update # 1]_vars

\* A page that counts comes to its end, however many countdowns share the
\* count and start it again, and whatever its synchronous requests wait for.
CountdownEnds == (page = "ready" /\ Running # {}) ~> (page # "ready")

\* "Disconnects the WiFi once the disconnect button is clicked and reloads the
\* page." (app.js:270)
DisconnectReloads == (pending["disconnect"] > 0) ~> (page # "ready")
=============================================================================
