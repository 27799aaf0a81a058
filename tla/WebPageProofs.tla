---------------------------- MODULE WebPageProofs ----------------------------
(***************************************************************************)
(* That a countdown which runs alone never ends before the board's own, for *)
(* any number of countdowns, connections and progress events.              *)
(***************************************************************************)
EXTENDS WebPage, FiniteSetTheorems, TLAPS

\* The types of what the argument counts with.
CountsOK ==
  /\ seconds \in Int /\ resetIn \in 0..ResetAfter /\ update \in {-1, 0, 1}
  /\ timer \in [Chains -> {"off", "armed", "due"}]

\* While the board's task receives an update it answers no status request, so
\* that nothing counts from an earlier one.
QuietUpload == uploading => Running = {}

\* Seconds that a timer has still to wait before it takes one off the count.
Lead(c) == IF timer[c] = "armed" THEN 1 ELSE 2
\* A countdown that runs alone shows more than the board has left.
Ahead == page = "ready" /\ update = 1 =>
           \A c \in Chains : Running = {c} => resetIn <= seconds - Lead(c)

CountInv == CountsOK /\ QuietUpload /\ Ahead

-----------------------------------------------------------------------------
LEMMA CountInit == Init => CountInv
BY DEF Init, CountInv, CountsOK, QuietUpload, Ahead, NoTimers, ResetAfter, Running

\* A timer that fires on takes one off the count and is set again, its lead
\* one second smaller.
LEMMA CountFire ==
  ASSUME CountInv, NEW c \in Chains, Fire(c)
  PROVE  CountInv'
<1>1. /\ seconds' = seconds - 1 /\ timer[c] = "due" /\ c \in Running
      /\ UNCHANGED <<resetIn, update, uploading>>
  BY DEF Fire, otaRebootTimer, boardVars, Running
<1>2. CASE seconds - 1 = 0
  <2>1. timer' = [k \in Chains |-> IF k \in {c, otaTimerVar} THEN "off" ELSE timer[k]] /\ page' = "reloading"
    BY <1>2 DEF Fire, otaRebootTimer
  <2>2. CountsOK' /\ ~uploading
    BY <1>1, <2>1 DEF CountInv, CountsOK, QuietUpload
  <2> QED BY <1>1, <2>1, <2>2 DEF CountInv, QuietUpload, Ahead
<1>3. CASE seconds - 1 # 0
  <2>1. timer' = [timer EXCEPT ![c] = "armed"] /\ page' = page
    BY <1>3 DEF Fire, otaRebootTimer
  <2>2. CountsOK' /\ ~uploading /\ c \in Running'
    BY <1>1, <2>1 DEF CountInv, CountsOK, QuietUpload, Running
  <2>3. Running' = Running
    BY <1>1, <2>1 DEF CountInv, CountsOK, Running
  <2>4. ASSUME page = "ready", update = 1, NEW d \in Chains, Running' = {d}
        PROVE  resetIn' <= seconds' - Lead(d)'
    <3>1. d = c
      BY <2>2, <2>4
    <3>2. resetIn <= seconds - 2
      BY <1>1, <2>3, <2>4, <3>1 DEF CountInv, Ahead, Lead
    <3>3. Lead(d)' = 1
      BY <2>1, <3>1 DEF Lead, CountInv, CountsOK
    <3> QED BY <1>1, <3>2, <3>3 DEF CountInv, CountsOK, ResetAfter
  <2> QED BY <1>1, <2>1, <2>2, <2>4 DEF CountInv, QuietUpload, Ahead
<1> QED BY <1>2, <1>3

\* The status starts a countdown from nine, and the board has eight at most.
LEMMA CountStatus ==
  ASSUME CountInv, StatusAnswered
  PROVE  CountInv'
<1>1. ~uploading /\ UNCHANGED <<resetIn, update, uploading>>
  BY DEF StatusAnswered, boardVars
<1>2. CASE update # 1
  <2>1. UNCHANGED <<seconds, timer>>
    BY <1>2 DEF StatusAnswered, getUpdateStatus
  <2> QED BY <1>1, <1>2, <2>1 DEF CountInv, CountsOK, QuietUpload, Ahead, Running
<1>3. CASE update = 1
  <2>1. PICK c \in Chains : seconds' = 9 /\ timer' = [timer EXCEPT ![c] = "armed"]
    BY <1>3 DEF StatusAnswered, getUpdateStatus
  <2>2. CountsOK' /\ timer'[c] = "armed"
    BY <1>1, <2>1 DEF CountInv, CountsOK
  <2>3. c \in Running'
    BY <2>2 DEF Running
  <2>4. ASSUME NEW d \in Chains, Running' = {d}
        PROVE  resetIn' <= seconds' - Lead(d)'
    <3>1. d = c
      BY <2>3, <2>4
    <3> QED BY <1>1, <2>1, <2>2, <3>1 DEF Lead, CountInv, CountsOK, ResetAfter
  <2> QED BY <1>1, <2>2, <2>4 DEF CountInv, QuietUpload, Ahead
<1> QED BY <1>2, <1>3

\* A second less for the board is a second less of lead for a timer just set.
LEMMA CountTick ==
  ASSUME CountInv, Tick
  PROVE  CountInv'
<1>1. /\ timer' = [c \in Chains |-> IF timer[c] = "armed" THEN "due" ELSE timer[c]]
      /\ resetIn' = IF update = 1 THEN resetIn - 1 ELSE resetIn
      /\ ~(update = 1 /\ resetIn = 0)
      /\ UNCHANGED <<page, seconds, update, uploading>>
  BY DEF Tick
<1>2. CountsOK'
  BY <1>1 DEF CountInv, CountsOK, ResetAfter
<1>3. Running' = Running
  BY <1>1 DEF CountInv, CountsOK, Running
<1>4. ASSUME page = "ready", update = 1, NEW c \in Chains, Running = {c}
      PROVE  resetIn' <= seconds' - Lead(c)'
  <2>1. resetIn <= seconds - Lead(c)
    BY <1>4 DEF CountInv, Ahead
  <2>2. Lead(c)' = 2 /\ Lead(c) \in {1, 2}
    BY <1>1 DEF Lead
  <2> QED BY <1>1, <1>4, <2>1, <2>2 DEF CountInv, CountsOK, ResetAfter
<1> QED BY <1>1, <1>2, <1>3, <1>4 DEF CountInv, QuietUpload, Ahead

\* The other steps start no countdown, change no count and begin an update
\* only where nothing counts.
LEMMA CountRest ==
  ASSUME CountInv,
         \/ updateProgress \/ StatusFailed \/ Load \/ connectWifi \/ disconnectWifi \/ updateFirmware \/ GiveUp
         \/ http_server_OTA_update_handler \/ http_server_fw_update_reset_callback \/ Boot
  PROVE  CountInv'
<1> USE DEF CountInv, CountsOK, QuietUpload, Ahead, Running, Lead
<1>1. CASE updateProgress \/ GiveUp \/ Boot
  BY <1>1 DEF updateProgress, GiveUp, Boot, pageVars, boardVars
<1>2. CASE connectWifi \/ disconnectWifi \/ updateFirmware
  BY <1>2 DEF connectWifi, disconnectWifi, updateFirmware, Ask, boardVars
<1>3. CASE StatusFailed
  BY <1>3 DEF StatusFailed, boardVars
<1>4. CASE Load
  BY <1>4 DEF Load, NoTimers, boardVars
<1>5. CASE http_server_OTA_update_handler
  BY <1>5 DEF http_server_OTA_update_handler, pageVars, ResetAfter
<1>6. CASE http_server_fw_update_reset_callback
  BY <1>6 DEF http_server_fw_update_reset_callback, pageVars
<1> QED BY <1>1, <1>2, <1>3, <1>4, <1>5, <1>6

LEMMA CountNext == CountInv /\ [Next]_vars => CountInv'
<1> SUFFICES ASSUME CountInv, [Next]_vars PROVE CountInv'
  OBVIOUS
<1>1. CASE UNCHANGED vars
  BY <1>1 DEF vars, pageVars, boardVars, CountInv, CountsOK, QuietUpload, Ahead, Running, Lead
<1>2. CASE Next
  BY <1>2, CountFire, CountStatus, CountTick, CountRest DEF Next
<1> QED BY <1>1, <1>2

\* Only a timer that fires leaves a page that is ready for its reload.
LEMMA ReloadStep ==
  ASSUME CountInv, Next, page = "ready", page' = "reloading", Cardinality(Running) = 1
  PROVE  update # 1
<1>1. PICK c \in Chains : Fire(c)
  BY DEF Next, updateProgress, StatusAnswered, StatusFailed, Load, connectWifi, disconnectWifi, updateFirmware, Ask,
         GiveUp, http_server_OTA_update_handler, http_server_fw_update_reset_callback, Boot, Tick, pageVars
<1>2. seconds = 1 /\ timer[c] = "due" /\ c \in Running
  BY <1>1 DEF Fire, otaRebootTimer, Running, CountInv, CountsOK
<1>3. IsFiniteSet(Running)
  BY ChainsAssumption, FS_Subset DEF Running
<1>4. Running = {c}
  BY <1>2, <1>3, FS_Singleton
<1> QED BY <1>2, <1>4 DEF CountInv, CountsOK, Ahead, Lead

\* The page that counts down alone is reloaded after the board's restart.
THEOREM PageReloadsLater == Spec => ReloadsAfterRestart
<1>1. CountInv /\ [Next]_vars
        => [(page = "ready" /\ page' = "reloading" /\ Cardinality(Running) = 1) => update # 1]_vars
  BY ReloadStep DEF vars
<1> QED BY <1>1, CountInit, CountNext, PTL DEF Spec, ReloadsAfterRestart
=============================================================================
