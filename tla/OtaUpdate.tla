------------------------------ MODULE OtaUpdate ------------------------------
(***************************************************************************)
(* The firmware update over the air: the upload handler of                 *)
(* main/http_handlers_ota.c, the monitor task that publishes its outcome   *)
(* (main/http_server_monitor.c), the timer that restarts the device, and   *)
(* the two application partitions of partitions.csv with the bootloader    *)
(* that chooses between them.                                              *)
(*                                                                         *)
(* An image is the number of the upload that stored it; Broken stands for  *)
(* an erased, incomplete or corrupt one.  The calls of esp_ota_ops and     *)
(* httpd_req_recv are inlined with the answers they may give.              *)
(***************************************************************************)
EXTENDS Naturals, Sequences

CONSTANTS
  Pieces,       \* receives it takes to transfer the image itself
  MaxUploads,   \* uploads in the life of the device (a bound)
  QueueLength,  \* depth of http_server_monitor_queue
  MaxOthers     \* other messages for the monitor between two starts (a bound)

ASSUME PiecesAssumption == Pieces \in Nat \ {0}
ASSUME MaxUploadsAssumption == MaxUploads \in Nat
ASSUME QueueLengthAssumption == QueueLength \in Nat \ {0}
ASSUME MaxOthersAssumption == MaxOthers \in Nat

VARIABLES
  image,         \* what each application partition holds
  boot,          \* the partition otadata names
  running,       \* the partition the firmware runs from
  httpPc,        \* where http_server_OTA_update_handler is
  received,      \* pieces stored by this upload (content_received)
  handle,        \* ota_handle: "unset" until esp_ota_begin, then "open"
  recvResult,    \* recv_len of the last receive
  leaked,        \* a handle of an earlier upload was never ended
  uploads,       \* uploads so far: the version of the current one less Factory
  status,        \* g_fw_update_status
  queue,         \* http_server_monitor_queue_handle
  others,        \* other messages so far, for the bound MaxOthers
  monitorPc,     \* where http_server_monitor is
  armed,         \* a fw_update_reset timer runs
  up             \* FALSE after a crash, until the restart

flashVars == <<image, boot, running>>
uploadVars == <<httpPc, received, handle, recvResult, leaked, uploads>>
monitorVars == <<queue, others, monitorPc, armed>>
vars == <<flashVars, uploadVars, status, monitorVars, up>>

Partitions == {"ota_0", "ota_1"}
Broken == 0
Factory == 1
Version == Factory + uploads      \* of the upload being handled
Versions == Factory..(Factory + MaxUploads)

HttpPcs == {"idle", "recv", "end", "set_boot", "send_successful", "send_failed"}
RecvResults == {"none", "data", "zero", "timeout", "error"}
Statuses == {"pending", "successful", "failed"}
Outcomes == {"OTA_UPDATE_SUCCESSFUL", "OTA_UPDATE_FAILED"}
Messages == Outcomes \union {"OTHER"}

TypeOK ==
  /\ image \in [Partitions -> Versions \union {Broken}]
  /\ boot \in Partitions /\ running \in Partitions
  /\ httpPc \in HttpPcs
  /\ received \in 0..(Pieces + 1)
  /\ handle \in {"unset", "open"} /\ leaked \in BOOLEAN
  /\ recvResult \in RecvResults
  /\ uploads \in 0..MaxUploads
  /\ status \in Statuses
  /\ queue \in Seq(Messages) /\ Len(queue) <= QueueLength
  /\ others \in 0..MaxOthers
  /\ monitorPc \in {"receive", "arm"}
  /\ armed \in BOOLEAN /\ up \in BOOLEAN

-----------------------------------------------------------------------------
(* Starting *)

Other(partition) == IF partition = "ota_0" THEN "ota_1" ELSE "ota_0"

Init ==
  /\ image = [p \in Partitions |-> IF p = "ota_0" THEN Factory ELSE Broken]
  /\ boot = "ota_0" /\ running = "ota_0" /\ uploads = 0
  /\ httpPc = "idle" /\ received = 0 /\ handle = "unset" /\ recvResult = "none"
  /\ leaked = FALSE /\ status = "pending" /\ queue = <<>> /\ others = 0
  /\ monitorPc = "receive" /\ armed = FALSE /\ up = TRUE

\* The bootloader starts the partition otadata names, or the other one if that
\* does not hold a whole image; RAM starts over.
Restart ==
  /\ running' = IF image[boot] # Broken THEN boot ELSE Other(boot)
  /\ httpPc' = "idle" /\ received' = 0 /\ handle' = "unset" /\ recvResult' = "none"
  /\ leaked' = FALSE /\ status' = "pending" /\ queue' = <<>> /\ others' = 0
  /\ monitorPc' = "receive" /\ armed' = FALSE /\ up' = TRUE
  /\ UNCHANGED <<image, boot, uploads>>

PowerCut == up /\ Restart

PanicRestart == ~up /\ Restart

\* http_server_fw_update_reset_callback, whatever the other tasks are doing.
ResetCallback == up /\ armed /\ Restart

-----------------------------------------------------------------------------
(* Receiving: http_server_OTA_update_handler up to esp_ota_end *)

At(pc) == up /\ httpPc = pc

\* Mutant of Target: the partition after the one that will boot.
TargetAfterBoot == Other(boot)

\* esp_ota_get_next_update_partition(NULL): the one after the running one.
Target == Other(running)

Store(content) == image' = [image EXCEPT ![Target] = content]

\* Mutant of StartUpload: the counter of the last upload is kept.
StartUploadKeepsCount ==
  /\ At("idle") /\ uploads < MaxUploads
  /\ uploads' = uploads + 1
  /\ httpPc' = "recv" /\ handle' = "unset" /\ recvResult' = "none"
  /\ UNCHANGED <<flashVars, received, leaked, status, monitorVars, up>>

StartUpload ==
  /\ At("idle") /\ uploads < MaxUploads
  /\ uploads' = uploads + 1
  /\ httpPc' = "recv" /\ received' = 0 /\ handle' = "unset" /\ recvResult' = "none"
  /\ UNCHANGED <<flashVars, leaked, status, monitorVars, up>>

\* What the partition holds once this many pieces are in it.  Even all of them
\* may not make a valid image; what follows the last is the end of the form.
Contents(count) == IF count = Pieces THEN {Version, Broken}
                   ELSE IF count < Pieces THEN {Broken} ELSE {image[Target]}

\* The handler returns without a word to the monitor.
GiveUp(result) ==
  /\ httpPc' = "idle" /\ handle' = "unset" /\ recvResult' = result
  /\ UNCHANGED received

\* The first data: esp_ota_begin erases the partition, unless it fails before or
\* half way, and the first piece is written.
RecvFirst ==
  /\ At("recv") /\ handle = "unset"
  /\ \/ /\ Store(Broken) \/ UNCHANGED image
        /\ GiveUp("data")
     \/ /\ \E content \in Contents(received + 1) : Store(content)
        /\ handle' = "open" /\ received' = received + 1 /\ recvResult' = "data"
        /\ UNCHANGED httpPc
  /\ UNCHANGED <<boot, running, leaked, uploads, status, monitorVars, up>>

\* The first data ends before the blank line of the form's header: strstr finds
\* nothing, and esp_ota_write is given an address out of range.
RecvFirstNoHeader ==
  /\ At("recv") /\ handle = "unset"
  /\ Store(Broken)
  /\ GiveUp("data")
  /\ up' \in BOOLEAN
  /\ UNCHANGED <<boot, running, leaked, uploads, status, monitorVars>>

\* More data; a failed write ends the handle and the handler.
RecvNext ==
  /\ At("recv") /\ handle = "open" /\ received <= Pieces
  /\ \/ /\ \E content \in Contents(received + 1) : Store(content)
        /\ received' = received + 1 /\ recvResult' = "data"
        /\ UNCHANGED <<httpPc, handle>>
     \/ UNCHANGED image /\ GiveUp("data")
  /\ UNCHANGED <<boot, running, leaked, uploads, status, monitorVars, up>>

\* The whole body has been read, or the browser closed the connection.
RecvZero ==
  /\ At("recv")
  /\ recvResult' = "zero" /\ httpPc' = "end"
  /\ UNCHANGED <<flashVars, received, handle, leaked, uploads, status, monitorVars, up>>

\* Mutant of RecvTimeout: the receive is tried again.
RecvTimeoutRetried ==
  /\ At("recv") /\ received <= Pieces
  /\ recvResult' = "timeout"
  /\ UNCHANGED <<flashVars, httpPc, received, handle, leaked, uploads, status, monitorVars, up>>

\* Ten seconds without data: continue leads to the loop's condition, which is false.
RecvTimeout ==
  /\ At("recv") /\ received <= Pieces
  /\ recvResult' = "timeout" /\ httpPc' = "end"
  /\ UNCHANGED <<flashVars, received, handle, leaked, uploads, status, monitorVars, up>>

\* Any other error of the socket: the status is set here, the handle stays open.
RecvError ==
  /\ At("recv") /\ received <= Pieces
  /\ status' = "failed"
  /\ leaked' = (leaked \/ handle = "open")
  /\ GiveUp("error")
  /\ UNCHANGED <<flashVars, uploads, monitorVars, up>>

-----------------------------------------------------------------------------
(* Ending: http_server_OTA_update_handler from esp_ota_end *)

EndFailed == status' = "failed" /\ httpPc' = "send_failed"

\* Mutant of EndImage: there is nothing to end if no data came.
EndImageIfBegun ==
  /\ At("end")
  /\ \/ /\ handle = "unset" \/ image[Target] # Broken
        /\ httpPc' = "set_boot" /\ UNCHANGED status
     \/ handle = "open" /\ EndFailed
  /\ handle' = "unset"
  /\ UNCHANGED <<flashVars, received, recvResult, leaked, uploads, monitorVars, up>>

\* esp_ota_end checks the image.  An unset handle is an arbitrary number: unknown,
\* or that of a handle an earlier upload left open.
EndImage ==
  /\ At("end")
  /\ \/ /\ handle = "open" \/ leaked
        /\ image[Target] # Broken
        /\ httpPc' = "set_boot" /\ UNCHANGED status
     \/ EndFailed
  /\ leaked' \in IF handle = "unset" THEN {leaked, FALSE} ELSE {leaked}
  /\ handle' = "unset"
  /\ UNCHANGED <<flashVars, received, recvResult, uploads, monitorVars, up>>

\* Mutant of SetBoot: the answer is not looked at.
SetBootUnchecked ==
  /\ At("set_boot")
  /\ boot' \in {Target, boot}
  /\ status' = "successful" /\ httpPc' = "send_successful"
  /\ UNCHANGED <<image, running, received, handle, recvResult, leaked, uploads, monitorVars, up>>

\* esp_ota_set_boot_partition writes otadata, if the flash takes it.
SetBoot ==
  /\ At("set_boot")
  /\ \/ boot' = Target /\ status' = "successful" /\ httpPc' = "send_successful"
     \/ UNCHANGED boot /\ EndFailed
  /\ UNCHANGED <<image, running, received, handle, recvResult, leaked, uploads, monitorVars, up>>

HasRoom == Len(queue) < QueueLength

\* Mutant of SendOutcome: the message is dropped when the queue is full.
SendOutcomeNoWait(pc, outcome) ==
  /\ At(pc)
  /\ queue' = IF HasRoom THEN Append(queue, outcome) ELSE queue
  /\ httpPc' = "idle"
  /\ UNCHANGED <<flashVars, received, handle, recvResult, leaked, uploads, status, others,
                 monitorPc, armed, up>>

SendOutcome(pc, outcome) ==
  /\ At(pc) /\ HasRoom
  /\ queue' = Append(queue, outcome)
  /\ httpPc' = "idle"
  /\ UNCHANGED <<flashVars, received, handle, recvResult, leaked, uploads, status, others,
                 monitorPc, armed, up>>

SendSuccessful == SendOutcome("send_successful", "OTA_UPDATE_SUCCESSFUL")
SendFailed == SendOutcome("send_failed", "OTA_UPDATE_FAILED")

Receives == RecvFirst \/ RecvFirstNoHeader \/ RecvNext \/ RecvZero \/ RecvTimeout \/ RecvError
Upload == Receives \/ EndImage \/ SetBoot \/ SendSuccessful \/ SendFailed

-----------------------------------------------------------------------------
(* The monitor *)

\* Messages of the Wi-Fi task and of the time service share the queue.
SendOther ==
  /\ up /\ others < MaxOthers /\ HasRoom
  /\ queue' = Append(queue, "OTHER") /\ others' = others + 1
  /\ UNCHANGED <<flashVars, uploadVars, status, monitorPc, armed, up>>

MonitorReceive ==
  /\ up /\ monitorPc = "receive" /\ queue # <<>>
  /\ queue' = Tail(queue)
  /\ \/ /\ Head(queue) = "OTA_UPDATE_SUCCESSFUL"
        /\ status' = "successful" /\ monitorPc' = "arm"
     \/ /\ Head(queue) = "OTA_UPDATE_FAILED"
        /\ status' = "failed" /\ UNCHANGED monitorPc
     \/ Head(queue) = "OTHER" /\ UNCHANGED <<status, monitorPc>>
  /\ UNCHANGED <<flashVars, uploadVars, others, armed, up>>

\* http_server_fw_update_reset_timer reads the status again.
MonitorArm ==
  /\ up /\ monitorPc = "arm"
  /\ monitorPc' = "receive"
  /\ armed' = (armed \/ status = "successful")
  /\ UNCHANGED <<flashVars, uploadVars, status, queue, others, up>>

Monitor == MonitorReceive \/ MonitorArm

-----------------------------------------------------------------------------
Next == StartUpload \/ Upload \/ SendOther \/ Monitor \/ ResetCallback \/ PanicRestart \/ PowerCut

\* What the handler does without the browser: a receive of nothing more returns at
\* once, any other has a timeout.
BodyRead == received > Pieces /\ RecvZero
Handles == RecvTimeout \/ BodyRead \/ EndImage \/ SetBoot \/ SendSuccessful \/ SendFailed

\* Tasks run when they can and the timer fires; nothing obliges the browser, the
\* other senders or the power supply.
Fairness ==
  /\ WF_vars(Handles)
  /\ WF_vars(Monitor)
  /\ WF_vars(ResetCallback)
  /\ WF_vars(PanicRestart)

Spec == Init /\ [][Next]_vars
FairSpec == Spec /\ Fairness

-----------------------------------------------------------------------------
(* Properties: the images *)

\* The partition the firmware runs from always holds a whole image, so a restart
\* at any moment finds one (http_handlers_ota.c:49).
RunningIntact == image[running] # Broken

\* A restart never brings an older version back, although the partition beside
\* the running one may still hold it (http_handlers_ota.c:49, 93, 132-135).
NoDowngrade == [][running' # running => image[running'] > image[running]]_vars

\* What an upload of this start has left in the target is newer than what runs or
\* not an image at all, and so is what otadata names beside the running partition.
NewerOrBroken(version) == version = Broken \/ version > image[running]
Touched == handle = "open" \/ leaked \/ httpPc = "set_boot" \/ boot # running

VersionsInv ==
  /\ image[running] # Broken
  /\ \A p \in Partitions : image[p] <= Version
  /\ httpPc = "recv" => image[running] < Version
  /\ Touched => NewerOrBroken(image[Target])
  /\ httpPc = "set_boot" => image[Target] # Broken

\* The promise of the update as a whole.
waiting == IF image[Target] > image[running] THEN image[Target] ELSE 0
Promise == INSTANCE Firmware WITH installed <- image[running], selected <- (boot # running)
KeepsPromise == Promise!Spec

-----------------------------------------------------------------------------
(* Properties: what is reported *)

\* A success is reported, queued or acted upon only with the new partition selected
\* (http_handlers_ota.c:135-159, http_server_monitor.c:48-51).
SuccessMeansSelected ==
  \/ status = "successful" \/ armed \/ httpPc = "send_successful"
  \/ \E i \in 1..Len(queue) : queue[i] = "OTA_UPDATE_SUCCESSFUL"
  => boot # running

\* The page that reads "successful" counts down and reloads: the device restarts,
\* unless a later upload has failed in the meantime (app.js:92-96).
SuccessEnds == status = "successful" ~> status # "successful"

\* The upload handler, which keeps httpd's only task, comes to an end.
HandlerReturns == httpPc # "idle" ~> httpPc = "idle"
==============================================================================
