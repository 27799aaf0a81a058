---------------------------- MODULE WifiAppProofs ----------------------------
(***************************************************************************)
(* What TLAPS proves of WifiApp for every value of its constants.          *)
(***************************************************************************)
EXTENDS WifiApp, TLAPS, SequenceTheorems

-----------------------------------------------------------------------------
(* Queues *)

\* Taking the head of a queue leaves a queue of the same messages, one shorter.
LEMMA TailOfQueue ==
  ASSUME NEW S, NEW q \in Seq(S), q # <<>>
  PROVE  /\ Tail(q) \in Seq(S)
         /\ Len(Tail(q)) = Len(q) - 1
         /\ Head(q) \in S
  BY HeadTailProperties, EmptySeq

\* Sending to a queue with room keeps it a queue within its depth.
LEMMA AppendToQueue ==
  ASSUME NEW S, NEW q \in Seq(S), NEW m \in S, NEW n \in Nat, Len(q) < n
  PROVE  Append(q, m) \in Seq(S) /\ Len(Append(q, m)) <= n
  BY AppendProperties, LenProperties

-----------------------------------------------------------------------------
(* Types *)

\* The empty queues a reset starts from.
LEMMA EmptyQueues ==
  /\ <<>> \in Seq(WifiMessages) /\ <<>> \in Seq(Notices) /\ <<>> \in Seq(MonitorMessages)
  /\ Len(<<>>) = 0
BY EmptySeq

LEMMA InitTypeOK == Init => TypeOK
<1> SUFFICES ASSUME Init PROVE TypeOK
  OBVIOUS
<1>1. /\ wifiQueue \in Seq(WifiMessages) /\ notices \in Seq(Notices)
      /\ monitorQueue \in Seq(MonitorMessages)
      /\ Len(wifiQueue) = 0 /\ Len(notices) = 0 /\ Len(monitorQueue) = 0
  BY EmptyQueues DEF Init
<1>2. 0 <= QueueLength /\ 0 <= EventQueueLength /\ 0 \in 0..MaxRetries /\ 0 \in 0..MaxRequests
  BY MaxRetriesAssumption, QueueLengthAssumption, EventQueueAssumption, MaxRequestsAssumption
<1> QED BY <1>1, <1>2 DEF Init, TypeOK, Bits, WifiPcs, StaStates, Statuses, Faults

\* A message taken from the task's queue, and one put into it.
LEMMA ReceiveTypeOK ==
  ASSUME TypeOK, NEW msg, Receive(msg)
  PROVE  wifiQueue' \in Seq(WifiMessages) /\ Len(wifiQueue') <= QueueLength
BY TailOfQueue, QueueLengthAssumption, LenProperties DEF TypeOK, Receive, At

LEMMA SendTypeOK ==
  ASSUME TypeOK, NEW msg \in WifiMessages, SendWifi(msg)
  PROVE  wifiQueue' \in Seq(WifiMessages) /\ Len(wifiQueue') <= QueueLength
BY AppendToQueue, QueueLengthAssumption DEF TypeOK, SendWifi, HasRoom

LEMMA ConnectAnswerType ==
  ASSUME NEW answer \in ConnectAnswers
  PROVE  answer.to \in StaStates
BY DEF StaStates, ConnectAnswers

LEMMA EventTaskTypeOK == TypeOK /\ EventTask => TypeOK'
<1> USE DEF taskVars, driverVars, userVars, serverVars, restVars
<1> SUFFICES ASSUME TypeOK, EventTask PROVE TypeOK'
  OBVIOUS
<1>1. CASE Retry
  <2>1. notices' \in Seq(Notices) /\ Len(notices') <= EventQueueLength
    BY <1>1, TailOfQueue, LenProperties, EventQueueAssumption DEF TypeOK, Retry, TakeNotice
  <2>2. retryNumber' \in 0..MaxRetries
    BY <1>1, MaxRetriesAssumption DEF TypeOK, Retry
  <2> QED BY <1>1, <2>1, <2>2 DEF TypeOK, Retry
<1>2. CASE RetryConnect
  <2>1. sta' \in StaStates
    BY <1>2, ConnectAnswerType DEF TypeOK, RetryConnect
  <2> QED BY <1>2, <2>1 DEF TypeOK, RetryConnect
<1>3. CASE GiveUp \/ GotIp
  <2>0. notices # <<>> /\ notices' = Tail(notices)
    BY <1>3 DEF GiveUp, GotIp, TakeNotice
  <2>1. notices' \in Seq(Notices) /\ Len(notices') <= EventQueueLength
    BY <2>0, TailOfQueue, LenProperties, EventQueueAssumption DEF TypeOK
  <2> QED BY <1>3, <2>1 DEF TypeOK, GiveUp, GotIp
<1>4. CASE EventSendGotIp \/ EventSendDisconnected
  <2>1. wifiQueue' \in Seq(WifiMessages) /\ Len(wifiQueue') <= QueueLength
    BY <1>4, SendTypeOK DEF EventSendGotIp, EventSendDisconnected, EventSend, WifiMessages
  <2> QED BY <1>4, <2>1 DEF TypeOK, EventSendGotIp, EventSendDisconnected, EventSend
<1> QED BY <1>1, <1>3, <1>4, <1>2 DEF EventTask

LEMMA ReceivesTypeOK == TypeOK /\ Receives => TypeOK'
<1> USE DEF taskVars, driverVars, userVars, serverVars, restVars
<1> SUFFICES ASSUME TypeOK, Receives PROVE TypeOK'
  OBVIOUS
<1>1. wifiQueue' \in Seq(WifiMessages) /\ Len(wifiQueue') <= QueueLength
  BY ReceiveTypeOK DEF Receives, ReceiveLoad, ReceiveStart, ReceiveConnecting, ReceiveGotIp,
     ReceiveUserRequest, ReceiveDisconnected
<1>2. CASE ReceiveLoad
  BY <1>1, <1>2 DEF TypeOK, ReceiveLoad, Bits, WifiPcs
<1>3. CASE ReceiveStart
  BY <1>1, <1>3 DEF TypeOK, ReceiveStart
<1>4. CASE ReceiveConnecting
  BY <1>1, <1>4 DEF TypeOK, ReceiveConnecting, Bits, WifiPcs
<1>5. CASE ReceiveGotIp
  BY <1>1, <1>5 DEF TypeOK, ReceiveGotIp, Bits, WifiPcs
<1>6. CASE ReceiveUserRequest
  <2>1. eventBits' \subseteq Bits /\ wifiPc' \in WifiPcs
    BY <1>6 DEF TypeOK, ReceiveUserRequest, Bits, WifiPcs
  <2> QED BY <1>1, <1>6, <2>1 DEF TypeOK, ReceiveUserRequest
<1>7. CASE ReceiveDisconnected
  BY <1>1, <1>7 DEF TypeOK, ReceiveDisconnected, DisconnectReason, ClearCreds, WifiPcs
<1> QED BY <1>2, <1>3, <1>4, <1>5, <1>6, <1>7 DEF Receives

LEMMA HandlesTypeOK == TypeOK /\ Handles => TypeOK'
<1> USE DEF taskVars, driverVars, userVars, serverVars, restVars
<1> SUFFICES ASSUME TypeOK, Handles PROVE TypeOK'
  OBVIOUS
<1>1. CASE SendLoad \/ SendStart
  <2>1. wifiQueue' \in Seq(WifiMessages) /\ Len(wifiQueue') <= QueueLength
    BY <1>1, SendTypeOK DEF SendLoad, SendStart, WifiMessages
  <2> QED BY <1>1, <2>1 DEF TypeOK, SendLoad, SendStart, Goto, At, WifiPcs
<1>2. CASE LoadSetConfig \/ HttpSetConfig
  BY <1>2 DEF TypeOK, LoadSetConfig, HttpSetConfig, SetConfig, At, Abort, WifiPcs, Faults
<1>3. CASE LoadConnect \/ HttpConnect
  <2>1. sta' \in StaStates
    BY <1>3, ConnectAnswerType DEF TypeOK, LoadConnect, HttpConnect, Connect
  <2> QED BY <1>3, <2>1 DEF TypeOK, LoadConnect, HttpConnect, Connect, At, Abort, WifiPcs, Faults
<1>4. CASE ResetRetry \/ StopRetries
  BY <1>4, MaxRetriesAssumption DEF TypeOK, ResetRetry, StopRetries, Goto, At, WifiPcs
<1>5. CASE SendInit \/ SendSuccess \/ SendFail \/ SendUserDisconnect
  <2>1. ASSUME NEW msg \in MonitorMessages, HasRoom(monitorQueue),
               monitorQueue' = Append(monitorQueue, msg)
        PROVE  monitorQueue' \in Seq(MonitorMessages) /\ Len(monitorQueue') <= QueueLength
    BY <2>1, AppendToQueue, QueueLengthAssumption DEF TypeOK, HasRoom
  <2>2. {"CONNECT_INIT", "CONNECT_SUCCESS", "CONNECT_FAIL", "USER_DISCONNECT"} \subseteq MonitorMessages
    BY DEF MonitorMessages, StatusAfter
  <2>3. monitorQueue' \in Seq(MonitorMessages) /\ Len(monitorQueue') <= QueueLength
    BY <1>5, <2>1, <2>2
       DEF TypeOK, SendInit, SendSuccess, SendFail, SendUserDisconnect, TellMonitor
  <2> QED BY <1>5, <2>3 DEF TypeOK, SendInit, SendSuccess, SendFail, SendUserDisconnect,
                            TellMonitor, At, Abort, WifiPcs, Faults
<1>6. CASE SaveCreds
  BY <1>6 DEF TypeOK, SaveCreds, Goto, At, WifiPcs
<1>7. CASE Callback
  BY <1>7 DEF TypeOK, Callback, At, Abort, WifiPcs, Faults
<1>8. CASE StopLink
  BY <1>8 DEF TypeOK, StopLink, Goto, At, WifiPcs, AfterDisconnect, StaStates
<1>9. CASE StopCreds \/ ClearConnected
  BY <1>9 DEF TypeOK, StopCreds, ClearConnected, ClearCreds, Goto, At, WifiPcs
<1> QED BY <1>1, <1>2, <1>3, <1>4, <1>5, <1>6, <1>7, <1>8, <1>9 DEF Handles

\* The other tasks, the driver, the user and the resets.
LEMMA OthersTypeOK ==
  TypeOK /\ (LinkChange \/ Press \/ SendOther \/ Monitor \/ ButtonTask \/ HttpServer \/ Reset) => TypeOK'
<1> USE DEF taskVars, driverVars, userVars, serverVars, restVars
<1> SUFFICES ASSUME TypeOK, LinkChange \/ Press \/ SendOther \/ Monitor \/ ButtonTask \/ HttpServer \/ Reset
             PROVE  TypeOK'
  OBVIOUS
<1>1. CASE LinkChange
  <2> PICK change \in LinkChanges :
        sta' = change.to /\ Len(notices) < EventQueueLength
          /\ notices' = Append(notices, change.notice)
    BY <1>1 DEF LinkChange
  <2>1. change.to \in StaStates /\ change.notice \in Notices
    BY DEF LinkChanges, StaStates, Notices
  <2>2. notices' \in Seq(Notices) /\ Len(notices') <= EventQueueLength
    BY <2>1, AppendToQueue, EventQueueAssumption DEF TypeOK
  <2> QED BY <1>1, <2>1, <2>2 DEF TypeOK, LinkChange
<1>2. CASE Press
  BY <1>2, MaxRequestsAssumption DEF TypeOK, Press, Ask
<1>3. CASE Monitor
  <2>1. monitorQueue' \in Seq(MonitorMessages) /\ Len(monitorQueue') <= QueueLength
        /\ Head(monitorQueue) \in MonitorMessages
    BY <1>3, TailOfQueue, LenProperties, QueueLengthAssumption DEF TypeOK, Monitor
  <2>2. connectStatus' \in Statuses
    BY <1>3, <2>1 DEF TypeOK, Monitor, MonitorMessages, StatusAfter, Statuses
  <2> QED BY <1>3, <2>1, <2>2 DEF TypeOK, Monitor
<1>4. CASE SendOther
  <2>1. monitorQueue' \in Seq(MonitorMessages) /\ Len(monitorQueue') <= QueueLength
    BY <1>4, AppendToQueue, QueueLengthAssumption DEF TypeOK, SendOther, HasRoom, MonitorMessages
  <2> QED BY <1>4, <2>1 DEF TypeOK, SendOther
<1>5. CASE ButtonTask
  <2>1. wifiQueue' \in Seq(WifiMessages) /\ Len(wifiQueue') <= QueueLength
    BY <1>5, SendTypeOK DEF TypeOK, ButtonTask, ButtonTake, ButtonSend, ButtonDelayOver, WifiMessages
  <2> QED BY <1>5, <2>1 DEF TypeOK, ButtonTask, ButtonTake, ButtonSend, ButtonDelayOver
<1>6. CASE RequestConnect \/ RequestDisconnect
  <2>1. wifiQueue' \in Seq(WifiMessages) /\ Len(wifiQueue') <= QueueLength
    BY <1>6, SendTypeOK DEF RequestConnect, RequestDisconnect, Request, WifiMessages
  <2> QED BY <1>6, <2>1, MaxRequestsAssumption
          DEF TypeOK, RequestConnect, RequestDisconnect, Request, Ask
<1>7. CASE RequestConnectInfo
  BY <1>7 DEF TypeOK, RequestConnectInfo, Faults
<1>8. CASE Reset
  <2>1. /\ wifiQueue' \in Seq(WifiMessages) /\ notices' \in Seq(Notices)
        /\ monitorQueue' \in Seq(MonitorMessages)
        /\ Len(wifiQueue') = 0 /\ Len(notices') = 0 /\ Len(monitorQueue') = 0
    BY <1>8, EmptyQueues DEF Reset
  <2>2. 0 <= QueueLength /\ 0 <= EventQueueLength /\ 0 \in 0..MaxRetries /\ 0 \in 0..MaxRequests
    BY MaxRetriesAssumption, QueueLengthAssumption, EventQueueAssumption, MaxRequestsAssumption
  <2> QED BY <1>8, <2>1, <2>2 DEF TypeOK, Reset, Bits, WifiPcs, StaStates, Statuses, Faults
<1> QED BY <1>1, <1>2, <1>3, <1>5, <1>6, <1>7, <1>8, <1>4 DEF HttpServer

LEMMA NextTypeOK == TypeOK /\ [Next]_vars => TypeOK'
<1> SUFFICES ASSUME TypeOK, [Next]_vars PROVE TypeOK'
  OBVIOUS
<1>1. CASE Next
  BY <1>1, EventTaskTypeOK, ReceivesTypeOK, HandlesTypeOK, OthersTypeOK
     DEF Next, WifiTask, PowerCut, PanicReset
<1>2. CASE UNCHANGED vars
  BY <1>2 DEF TypeOK, vars, taskVars, driverVars, userVars, serverVars, restVars
<1> QED BY <1>1, <1>2

\* The variables keep their types: in particular no queue outgrows its depth and
\* the retry counter its bound (wifi_app.c:92-98, 332, 419).
THEOREM TypeCorrect == Spec => []TypeOK
<1>1. Init => TypeOK
  BY InitTypeOK
<1>2. TypeOK /\ [Next]_vars => TypeOK'
  BY NextTypeOK
<1> QED BY <1>1, <1>2, PTL DEF Spec

-----------------------------------------------------------------------------
(* The user's disconnect holds *)

\* What a send and a receive do to the places of the task's queue.
LEMMA SendPlaces ==
  ASSUME TypeOK, NEW msg \in WifiMessages, SendWifi(msg)
  PROVE  /\ Len(wifiQueue) \in Nat /\ Len(wifiQueue') = Len(wifiQueue) + 1
         /\ \A i \in 1..Len(wifiQueue) : wifiQueue'[i] = wifiQueue[i]
         /\ wifiQueue'[Len(wifiQueue) + 1] = msg
BY AppendProperties, LenProperties DEF TypeOK, SendWifi

LEMMA ReceivePlaces ==
  ASSUME TypeOK, NEW msg, Receive(msg)
  PROVE  /\ Len(wifiQueue) \in Nat \ {0} /\ Len(wifiQueue') = Len(wifiQueue) - 1
         /\ \A i \in 1..Len(wifiQueue') : wifiQueue'[i] = wifiQueue[i + 1]
         /\ wifiQueue[1] = msg
BY HeadTailProperties, EmptySeq, LenProperties DEF TypeOK, Receive, At

\* Sending any message but LOAD, and receiving any message, keep at most one LOAD.
LEMMA SendKeepsLoad ==
  ASSUME TypeOK, LoadOnce, LoadComesFirst,
         NEW msg \in WifiMessages \ {"LOAD_SAVED_CREDENTIALS"}, SendWifi(msg),
         wifiPc' = "boot" => wifiPc = "boot"
  PROVE  LoadOnce' /\ (LoadPending' => LoadPending)
<1>1. /\ Len(wifiQueue) \in Nat /\ Len(wifiQueue') = Len(wifiQueue) + 1
      /\ \A i \in 1..Len(wifiQueue) : wifiQueue'[i] = wifiQueue[i]
      /\ wifiQueue'[Len(wifiQueue) + 1] = msg
  BY SendPlaces
<1>2. \A i \in 1..Len(wifiQueue') : LoadQueued(i)' => i \in 1..Len(wifiQueue) /\ LoadQueued(i)
  BY <1>1 DEF LoadQueued
<1> QED BY <1>2 DEF LoadOnce, LoadPending

LEMMA ReceiveKeepsLoad ==
  ASSUME TypeOK, LoadOnce, NEW msg, Receive(msg), wifiPc' # "boot"
  PROVE  /\ LoadOnce'
         /\ LoadPending' => LoadPending
         /\ LoadPending' => msg # "LOAD_SAVED_CREDENTIALS"
<1>1. /\ Len(wifiQueue) \in Nat \ {0} /\ Len(wifiQueue') = Len(wifiQueue) - 1
      /\ \A i \in 1..Len(wifiQueue') : wifiQueue'[i] = wifiQueue[i + 1]
      /\ wifiQueue[1] = msg
  BY ReceivePlaces
<1>2. \A i \in 1..Len(wifiQueue') : LoadQueued(i)' => i + 1 \in 1..Len(wifiQueue) /\ LoadQueued(i + 1)
  BY <1>1 DEF LoadQueued
<1>3. LoadOnce'
  <2>1. ASSUME NEW i \in 1..Len(wifiQueue'), NEW j \in 1..Len(wifiQueue'),
               LoadQueued(i)', LoadQueued(j)'
        PROVE  i = j
    <3>1. i + 1 = j + 1
      BY <1>2, <2>1 DEF LoadOnce
    <3> QED BY <3>1, <1>1
  <2> QED BY <2>1 DEF LoadOnce, LoadQueued
<1>4. LoadPending' => LoadPending
  BY <1>2 DEF LoadPending
<1>5. LoadPending' => msg # "LOAD_SAVED_CREDENTIALS"
  <2> SUFFICES ASSUME LoadPending', msg = "LOAD_SAVED_CREDENTIALS" PROVE FALSE
    OBVIOUS
  <2> PICK i \in 1..Len(wifiQueue') : LoadQueued(i)'
    BY DEF LoadPending
  <2>1. 1 \in 1..Len(wifiQueue) /\ LoadQueued(1)
    BY <1>1 DEF LoadQueued
  <2>2. i + 1 = 1
    BY <1>2, <2>1 DEF LoadOnce
  <2> QED BY <2>2, <1>1
<1> QED BY <1>3, <1>4, <1>5

LEMMA InitStopInv == Init => StopInv
BY EmptyQueues DEF Init, StopInv, StopHolds, LoadOnce, LoadComesFirst, LoadQueued, LoadPending,
   ConnectingPcs

\* A step that leaves the task's queue and place alone leaves LOAD alone.
LEMMA SameLoad ==
  ASSUME LoadOnce, UNCHANGED <<wifiQueue, wifiPc>>
  PROVE  LoadOnce' /\ (LoadPending' <=> LoadPending)
BY DEF LoadOnce, LoadPending, LoadQueued

LEMMA EventTaskStopInv == TypeOK /\ StopInv /\ EventTask => StopInv'
<1> USE DEF taskVars, driverVars, userVars, serverVars, restVars
<1> SUFFICES ASSUME TypeOK, StopInv, EventTask PROVE StopInv'
  OBVIOUS
<1>1. ~LoadPending
  BY DEF StopInv, LoadComesFirst, EventTask, Retry, RetryConnect, GiveUp, GotIp, TakeNotice,
         EventSendGotIp, EventSendDisconnected, EventSend
<1>2. CASE Retry
  <2>1. ~stopped /\ wifiPc # "stop_link"
    BY <1>2, MaxRetriesAssumption DEF StopInv, StopHolds, Retry, TypeOK
  <2> QED BY <1>1, <1>2, <2>1, SameLoad DEF StopInv, StopHolds, LoadComesFirst, Retry
<1>3. CASE RetryConnect \/ GiveUp \/ GotIp
  BY <1>1, <1>3, SameLoad DEF StopInv, StopHolds, LoadComesFirst, RetryConnect, GiveUp, GotIp
<1>4. CASE EventSendGotIp \/ EventSendDisconnected
  <2>1. LoadOnce' /\ ~LoadPending'
    BY <1>1, <1>4, SendKeepsLoad
       DEF StopInv, EventSendGotIp, EventSendDisconnected, EventSend, WifiMessages
  <2> QED BY <1>4, <2>1 DEF StopInv, StopHolds, LoadComesFirst, EventSendGotIp,
                            EventSendDisconnected, EventSend
<1> QED BY <1>2, <1>3, <1>4 DEF EventTask

LEMMA ReceivesStopInv == TypeOK /\ StopInv /\ Receives => StopInv'
<1> USE DEF taskVars, driverVars, userVars, serverVars, restVars
<1> SUFFICES ASSUME TypeOK, StopInv, Receives PROVE StopInv'
  OBVIOUS
<1>1. wifiPc = "receive" /\ wifiPc' # "boot"
  BY DEF Receives, Receive, At, ReceiveLoad, ReceiveStart, ReceiveConnecting, ReceiveGotIp,
         ReceiveUserRequest, ReceiveDisconnected, DisconnectReason
<1>2. LoadOnce'
  BY <1>1, ReceiveKeepsLoad DEF StopInv, Receives, ReceiveLoad, ReceiveStart, ReceiveConnecting,
     ReceiveGotIp, ReceiveUserRequest, ReceiveDisconnected
<1>3. CASE ReceiveLoad
  <2>1. ~LoadPending'
    BY <1>1, <1>3, ReceiveKeepsLoad DEF StopInv, ReceiveLoad
  <2>2. LoadPending
    BY <1>3, ReceivePlaces DEF ReceiveLoad, LoadPending, LoadQueued
  <2> QED BY <1>2, <1>3, <2>1, <2>2 DEF StopInv, StopHolds, LoadComesFirst, ReceiveLoad
<1>4. CASE ReceiveUserRequest
  <2>1. LoadPending' => LoadPending
    BY <1>1, <1>4, ReceiveKeepsLoad DEF StopInv, ReceiveUserRequest
  <2>2. StopHolds'
    BY <1>4 DEF StopInv, StopHolds, ReceiveUserRequest, ConnectingPcs
  <2>3. LoadComesFirst'
    <3> SUFFICES ASSUME LoadPending' PROVE LoadComesFirst!2'
      BY DEF LoadComesFirst
    <3>1. LoadPending
      BY <2>1
    <3>2. \A i \in 1..Len(wifiQueue') :
            wifiQueue'[i] \in {"LOAD_SAVED_CREDENTIALS", "USER_REQUESTED_STA_DISCONNECT"}
      BY <1>4, <3>1, ReceivePlaces DEF StopInv, LoadComesFirst, ReceiveUserRequest
    <3> QED BY <1>1, <1>4, <3>1, <3>2 DEF StopInv, LoadComesFirst, ReceiveUserRequest
  <2> QED BY <1>2, <2>2, <2>3 DEF StopInv
<1>5. CASE ReceiveStart \/ ReceiveConnecting \/ ReceiveGotIp \/ ReceiveDisconnected
  <2>1. ~LoadPending
    <3>1. wifiQueue[1] \notin {"LOAD_SAVED_CREDENTIALS", "USER_REQUESTED_STA_DISCONNECT"}
          /\ 1 \in 1..Len(wifiQueue)
      BY <1>5, ReceivePlaces DEF ReceiveStart, ReceiveConnecting, ReceiveGotIp, ReceiveDisconnected
    <3> QED BY <3>1 DEF StopInv, LoadComesFirst
  <2>2. ~LoadPending'
    BY <1>1, <1>5, <2>1, ReceiveKeepsLoad DEF StopInv, ReceiveStart, ReceiveConnecting,
       ReceiveGotIp, ReceiveDisconnected
  <2>3. StopHolds'
    BY <1>1, <1>5 DEF StopInv, StopHolds, ReceiveStart, ReceiveConnecting, ReceiveGotIp,
       ReceiveDisconnected, DisconnectReason, ConnectingPcs
  <2> QED BY <1>2, <2>2, <2>3 DEF StopInv, LoadComesFirst
<1> QED BY <1>3, <1>4, <1>5 DEF Receives
LEMMA HandlesStopInv == TypeOK /\ StopInv /\ Handles => StopInv'
<1> USE DEF taskVars, driverVars, userVars, serverVars, restVars
<1> SUFFICES ASSUME TypeOK, StopInv, Handles PROVE StopInv'
  OBVIOUS
<1>1. CASE SendLoad
  <2>1. /\ Len(wifiQueue) \in Nat /\ Len(wifiQueue') = Len(wifiQueue) + 1
        /\ \A i \in 1..Len(wifiQueue) : wifiQueue'[i] = wifiQueue[i]
        /\ wifiQueue'[Len(wifiQueue) + 1] = "LOAD_SAVED_CREDENTIALS"
    BY <1>1, SendPlaces DEF SendLoad, WifiMessages
  <2>2. wifiPc = "boot" /\ wifiPc' = "receive" /\ LoadPending
    BY <1>1 DEF SendLoad, Goto, At, LoadPending
  <2>3. LoadOnce'
    <3>1. \A i \in 1..Len(wifiQueue') : LoadQueued(i)' => i = Len(wifiQueue) + 1
      BY <2>1, <2>2 DEF StopInv, LoadOnce, LoadQueued
    <3> QED BY <3>1, <2>2 DEF LoadOnce
  <2>4. LoadComesFirst'
    <3>1. \A i \in 1..Len(wifiQueue') :
            wifiQueue'[i] \in {"LOAD_SAVED_CREDENTIALS", "USER_REQUESTED_STA_DISCONNECT"}
      BY <2>1, <2>2 DEF StopInv, LoadComesFirst
    <3> QED BY <1>1, <2>2, <3>1 DEF StopInv, LoadComesFirst, SendLoad
  <2>5. StopHolds'
    BY <1>1, <2>2 DEF StopInv, StopHolds, SendLoad, ConnectingPcs
  <2> QED BY <2>3, <2>4, <2>5 DEF StopInv
<1>2. CASE SendStart
  <2>1. LoadOnce' /\ ~LoadPending'
    <3>1. ~LoadPending
      BY <1>2 DEF StopInv, LoadComesFirst, SendStart, Goto, At
    <3> QED BY <1>2, <3>1, SendKeepsLoad DEF StopInv, SendStart, Goto, At, WifiMessages
  <2> QED BY <1>2, <2>1 DEF StopInv, StopHolds, LoadComesFirst, SendStart, Goto, At, ConnectingPcs
<1>3. CASE Handles /\ ~SendLoad /\ ~SendStart
  <2>1. wifiPc \notin {"boot", "receive"} /\ UNCHANGED wifiQueue /\ wifiPc' # "boot"
    BY <1>3 DEF Handles, LoadSetConfig, LoadConnect, HttpSetConfig, HttpConnect, SetConfig, Connect,
       ResetRetry, SendInit, SendSuccess, SaveCreds, Callback, StopRetries, StopLink, StopCreds,
       SendFail, SendUserDisconnect, ClearConnected, TellMonitor, Goto, At, Abort
  <2>2. ~LoadPending /\ LoadOnce' /\ ~LoadPending'
    BY <2>1 DEF StopInv, LoadComesFirst, LoadOnce, LoadPending, LoadQueued
  <2>3. StopHolds'
    <3>1. CASE LoadSetConfig \/ HttpSetConfig
      BY <3>1 DEF StopInv, StopHolds, LoadSetConfig, HttpSetConfig, SetConfig, At, Abort, ConnectingPcs
    <3>2. CASE LoadConnect \/ HttpConnect
      BY <3>2 DEF StopInv, StopHolds, LoadConnect, HttpConnect, Connect, At, Abort, ConnectingPcs
    <3>3. CASE ResetRetry \/ StopRetries
      BY <3>3 DEF StopInv, StopHolds, ResetRetry, StopRetries, Goto, At, ConnectingPcs
    <3>4. CASE SendInit \/ SendSuccess \/ SendFail \/ SendUserDisconnect
      BY <3>4 DEF StopInv, StopHolds, SendInit, SendSuccess, SendFail, SendUserDisconnect,
         TellMonitor, At, Abort, ConnectingPcs
    <3>5. CASE SaveCreds \/ Callback \/ StopCreds \/ ClearConnected
      <4>1. UNCHANGED <<sta, retryNumber, stopped>> /\ wifiPc' \in {"callback", "receive"}
        BY <3>5 DEF SaveCreds, Callback, StopCreds, ClearConnected, Goto, At, Abort
      <4> QED BY <4>1 DEF StopInv, StopHolds, ConnectingPcs
    <3>6. CASE StopLink
      BY <3>6 DEF StopInv, StopHolds, StopLink, AfterDisconnect, Goto, At, ConnectingPcs
    <3> QED BY <1>3, <3>1, <3>2, <3>3, <3>4, <3>5, <3>6 DEF Handles
  <2> QED BY <2>2, <2>3 DEF StopInv, LoadComesFirst
<1> QED BY <1>1, <1>2, <1>3

LEMMA OthersStopInv ==
  TypeOK /\ StopInv /\ (LinkChange \/ Press \/ SendOther \/ Monitor \/ ButtonTask \/ HttpServer \/ Reset)
    => StopInv'
<1> USE DEF taskVars, driverVars, userVars, serverVars, restVars
<1> SUFFICES ASSUME TypeOK, StopInv,
                    LinkChange \/ Press \/ SendOther \/ Monitor \/ ButtonTask \/ HttpServer \/ Reset
             PROVE  StopInv'
  OBVIOUS
<1>1. CASE LinkChange
  <2>1. ~LoadPending
    BY <1>1 DEF StopInv, LoadComesFirst, LinkChange, LinkChanges
  <2> QED BY <1>1, <2>1, SameLoad DEF StopInv, StopHolds, LoadComesFirst, LinkChange
<1>2. CASE Press \/ SendOther \/ Monitor \/ ButtonTake \/ ButtonDelayOver \/ RequestConnectInfo
  <2>1. UNCHANGED <<wifiQueue, wifiPc, eventBits, stopped, sta, notices, eventPc, retryNumber, serverUp>>
    BY <1>2 DEF Press, SendOther, Monitor, ButtonTake, ButtonDelayOver, RequestConnectInfo
  <2> QED BY <2>1 DEF StopInv, StopHolds, LoadOnce, LoadComesFirst, LoadPending, LoadQueued
<1>3. CASE ButtonSend
  <2>1. LoadOnce' /\ (LoadPending' => LoadPending)
    BY <1>3, SendKeepsLoad DEF StopInv, ButtonSend, WifiMessages
  <2>2. /\ Len(wifiQueue) \in Nat /\ Len(wifiQueue') = Len(wifiQueue) + 1
        /\ \A i \in 1..Len(wifiQueue) : wifiQueue'[i] = wifiQueue[i]
        /\ wifiQueue'[Len(wifiQueue) + 1] = "USER_REQUESTED_STA_DISCONNECT"
    BY <1>3, SendPlaces DEF ButtonSend, WifiMessages
  <2>3. LoadComesFirst'
    <3> SUFFICES ASSUME LoadPending' PROVE LoadComesFirst!2'
      BY DEF LoadComesFirst
    <3>1. \A i \in 1..Len(wifiQueue') :
            wifiQueue'[i] \in {"LOAD_SAVED_CREDENTIALS", "USER_REQUESTED_STA_DISCONNECT"}
      BY <2>1, <2>2 DEF StopInv, LoadComesFirst
    <3> QED BY <1>3, <2>1, <3>1 DEF StopInv, LoadComesFirst, ButtonSend
  <2> QED BY <1>3, <2>1, <2>3 DEF StopInv, StopHolds, ButtonSend
<1>4. CASE RequestConnect \/ RequestDisconnect
  <2>1. ~LoadPending
    BY <1>4 DEF StopInv, LoadComesFirst, RequestConnect, RequestDisconnect, Request
  <2>2. LoadOnce' /\ ~LoadPending'
    BY <1>4, <2>1, SendKeepsLoad DEF StopInv, RequestConnect, RequestDisconnect, Request, WifiMessages
  <2> QED BY <1>4, <2>2 DEF StopInv, StopHolds, LoadComesFirst, RequestConnect, RequestDisconnect, Request
<1>5. CASE Reset
  BY <1>5, EmptyQueues DEF Reset, StopInv, StopHolds, LoadOnce, LoadComesFirst, LoadQueued,
     LoadPending, ConnectingPcs
<1> QED BY <1>1, <1>2, <1>3, <1>4, <1>5 DEF ButtonTask, HttpServer

LEMMA NextStopInv == TypeOK /\ StopInv /\ [Next]_vars => StopInv'
<1> SUFFICES ASSUME TypeOK, StopInv, [Next]_vars PROVE StopInv'
  OBVIOUS
<1>1. CASE Next
  BY <1>1, EventTaskStopInv, ReceivesStopInv, HandlesStopInv, OthersStopInv
     DEF Next, WifiTask, PowerCut, PanicReset
<1>2. CASE UNCHANGED vars
  BY <1>2 DEF StopInv, StopHolds, LoadOnce, LoadComesFirst, LoadPending, LoadQueued, vars,
     taskVars, driverVars, userVars, serverVars, restVars
<1> QED BY <1>1, <1>2

\* While the stop holds, the station is connected by nothing but the end of a retry.
LEMMA StoppedStep ==
  ASSUME TypeOK, StopInv, [Next]_vars, stopped, stopped'
  PROVE  /\ eventPc' = "retry_connect" => eventPc = "retry_connect"
         /\ sta \in Down /\ sta' \notin Down => eventPc = "retry_connect"
<1> USE DEF taskVars, driverVars, userVars, serverVars, restVars
<1>1. ~Retry
  BY MaxRetriesAssumption DEF StopInv, StopHolds, Retry, TypeOK
<1>2. ~(LoadConnect \/ HttpConnect)
  BY DEF StopInv, StopHolds, ConnectingPcs, LoadConnect, HttpConnect, Connect, At
<1>3. CASE RetryConnect
  BY <1>3 DEF RetryConnect
<1>4. CASE GiveUp \/ GotIp \/ EventSendGotIp \/ EventSendDisconnected
  BY <1>4 DEF GiveUp, GotIp, EventSendGotIp, EventSendDisconnected, EventSend
<1>5. CASE Receives
  BY <1>5 DEF Receives, ReceiveLoad, ReceiveStart, ReceiveConnecting, ReceiveGotIp,
     ReceiveUserRequest, ReceiveDisconnected
<1>6. CASE Handles
  BY <1>2, <1>6 DEF Handles, SendLoad, LoadSetConfig, SendStart, HttpSetConfig, SetConfig,
     ResetRetry, SendInit, SendSuccess, SaveCreds, Callback, StopRetries, StopLink, StopCreds,
     SendFail, SendUserDisconnect, ClearConnected, TellMonitor, AfterDisconnect, Down
<1>7. CASE LinkChange
  BY <1>7 DEF LinkChange, LinkChanges, Down
<1>8. CASE Press \/ SendOther \/ Monitor \/ ButtonTask \/ HttpServer
  BY <1>8 DEF Press, SendOther, Monitor, ButtonTask, ButtonTake, ButtonSend, ButtonDelayOver,
     HttpServer, RequestConnect, RequestDisconnect, Request, RequestConnectInfo
<1>9. CASE Reset
  BY <1>9 DEF Reset
<1>10. CASE UNCHANGED vars
  BY <1>10 DEF vars
<1> QED BY <1>1, <1>3, <1>4, <1>5, <1>6, <1>7, <1>8, <1>9, <1>10
        DEF Next, EventTask, WifiTask, PowerCut, PanicReset

\* After the user's disconnect, in every schedule, no loss is retried and nothing
\* connects the station until the next connect request, but for one retry the event
\* handler had decided on before: the retries are used up before the link is torn
\* down (wifi_app.c:328-333), and nothing but a connect request and a reset gives
\* them back.
THEOREM StopKeepsLinkDown == Spec => LinkStaysDown
<1> DEFINE Kept == stopped /\ stopped' =>
                     /\ eventPc' = "retry_connect" => eventPc = "retry_connect"
                     /\ sta \in Down /\ sta' \notin Down => eventPc = "retry_connect"
<1>1. Init => TypeOK /\ StopInv
  BY InitTypeOK, InitStopInv
<1>2. TypeOK /\ StopInv /\ [Next]_vars => (TypeOK /\ StopInv)'
  BY NextTypeOK, NextStopInv
<1>3. TypeOK /\ StopInv /\ [Next]_vars => [Kept]_vars
  BY StoppedStep
<1> QED BY <1>1, <1>2, <1>3, PTL DEF Spec, LinkStaysDown

-----------------------------------------------------------------------------
(* What is known of the link *)

\* What a step makes of the news under way: it keeps the latest, or it lets the
\* task receive the last there is.
NewsKept == (NoNews => NoNews') /\ \A n \in Notices : LatestNews(n) => LatestNews(n)'
NewsEnds(n) == NoNews' /\ ~NoNews /\ \A m \in Notices : LatestNews(m) => m = n

LEMMA NewsOrNone == ASSUME NEW n \in Notices, LatestNews(n) PROVE ~NoNews
BY SMTT(30) DEF LatestNews, NoNews, NoLinkMessageFrom, Notices, HandlingOf, MessageOf, LinkMessages

LEMMA SameNews ==
  ASSUME UNCHANGED <<wifiQueue, notices, eventPc>>
  PROVE  NewsKept /\ (NoNews' => NoNews)
BY DEF NewsKept, NoNews, LatestNews, NoLinkMessageFrom

\* The driver posts a notice.
LEMMA PostedNews ==
  ASSUME TypeOK, NEW n \in Notices, notices' = Append(notices, n), UNCHANGED <<wifiQueue, eventPc>>
  PROVE  LatestNews(n)' /\ ~NoNews'
<1>1. notices' # <<>> /\ notices'[Len(notices')] = n
  BY AppendProperties, LenProperties DEF TypeOK
<1> QED BY <1>1 DEF LatestNews, NoNews

\* What is left of the notices when the first is taken.
LEMMA TailOfNotices ==
  ASSUME TypeOK, NEW n, TakeNotice(n)
  PROVE  \/ notices' = <<>> /\ notices # <<>> /\ notices[Len(notices)] = n
         \/ notices' # <<>> /\ notices # <<>> /\ notices'[Len(notices')] = notices[Len(notices)]
<1>1. /\ notices # <<>> /\ Len(notices) \in Nat \ {0} /\ Head(notices) = notices[1]
      /\ notices' \in Seq(Notices) /\ Len(notices') = Len(notices) - 1
      /\ \A i \in 1..Len(notices') : notices'[i] = notices[i + 1]
  BY HeadTailProperties, EmptySeq, LenProperties DEF TypeOK, TakeNotice
<1>2. CASE Len(notices) = 1
  BY <1>1, <1>2, EmptySeq DEF TakeNotice
<1>3. CASE Len(notices) # 1
  <2>1. Len(notices') \in 1..Len(notices') /\ notices' # <<>>
    BY <1>1, <1>3, EmptySeq
  <2> QED BY <1>1, <2>1
<1> QED BY <1>2, <1>3

\* The handler takes a notice to pass it on, or to retry.
LEMMA TakenNews ==
  ASSUME TypeOK, NEW n \in Notices, TakeNotice(n), UNCHANGED wifiQueue
  PROVE  eventPc' \in HandlingOf[n] => NewsKept /\ ~NoNews'
<1>1. \/ notices' = <<>> /\ notices # <<>> /\ notices[Len(notices)] = n
      \/ notices' # <<>> /\ notices # <<>> /\ notices'[Len(notices')] = notices[Len(notices)]
  BY TailOfNotices
<1>2. "idle" \notin HandlingOf[n]
  BY DEF HandlingOf, Notices
<1> QED BY <1>1, <1>2 DEF NewsKept, LatestNews, NoNews, TakeNotice

\* The handler is done with a retry: of the news it forgets the loss it had in hand.
LEMMA RetriedNews ==
  ASSUME RetryConnect
  PROVE  /\ LatestNews("got_ip") => LatestNews("got_ip")' /\ ~NoNews'
         /\ ~NoNews
BY DEF RetryConnect, LatestNews, NoNews, HandlingOf, taskVars

\* The handler sends the message it has in hand.
LEMMA PassedNews ==
  ASSUME TypeOK, NEW n \in Notices, eventPc \in HandlingOf[n], SendWifi(MessageOf[n]),
         eventPc' = "idle", UNCHANGED notices
  PROVE  NewsKept /\ ~NoNews'
<1>0. MessageOf[n] \in WifiMessages /\ MessageOf[n] \in LinkMessages
  BY DEF MessageOf, WifiMessages, LinkMessages, Notices
<1>1. /\ Len(wifiQueue) \in Nat /\ Len(wifiQueue') = Len(wifiQueue) + 1
      /\ wifiQueue'[Len(wifiQueue) + 1] = MessageOf[n]
  BY <1>0, SendPlaces
<1> PICK k \in Nat \ {0} : k = Len(wifiQueue')
  BY <1>1
<1>2. k \in 1..Len(wifiQueue') /\ wifiQueue'[k] = MessageOf[n] /\ NoLinkMessageFrom(k + 1)'
  <2>1. k \in 1..Len(wifiQueue') /\ (k + 1)..Len(wifiQueue') = {}
    BY <1>1
  <2> QED BY <1>1, <2>1 DEF NoLinkMessageFrom
<1>3. notices = <<>> => LatestNews(n)'
  BY <1>2 DEF LatestNews
<1>4. ~NoNews' /\ ~NoNews
  BY <1>0, <1>1, <1>2 DEF NoNews, NoLinkMessageFrom, HandlingOf, Notices
<1>5. ASSUME NEW m \in Notices, LatestNews(m) PROVE LatestNews(m)'
  <2>1. CASE notices # <<>>
    BY <1>5, <2>1 DEF LatestNews
  <2>2. CASE notices = <<>>
    BY <1>3, <1>5, <2>2 DEF LatestNews, HandlingOf, Notices
  <2> QED BY <2>1, <2>2
<1> QED BY <1>4, <1>5 DEF NewsKept

\* Any other message is sent behind the news.
LEMMA OtherSent ==
  ASSUME TypeOK, NEW msg \in WifiMessages \ LinkMessages, SendWifi(msg), UNCHANGED <<notices, eventPc>>
  PROVE  NewsKept /\ (NoNews' => NoNews)
<1>1. /\ Len(wifiQueue) \in Nat /\ Len(wifiQueue') = Len(wifiQueue) + 1
      /\ \A i \in 1..Len(wifiQueue) : wifiQueue'[i] = wifiQueue[i]
      /\ wifiQueue'[Len(wifiQueue) + 1] = msg
  BY SendPlaces
<1>2. ASSUME NEW k \in Nat \ {0} PROVE NoLinkMessageFrom(k) => NoLinkMessageFrom(k)'
  <2> SUFFICES ASSUME NoLinkMessageFrom(k), NEW j \in k..Len(wifiQueue')
               PROVE  wifiQueue'[j] \notin LinkMessages
    BY DEF NoLinkMessageFrom
  <2>1. CASE j = Len(wifiQueue) + 1
    BY <1>1, <2>1
  <2>2. CASE j # Len(wifiQueue) + 1
    <3>1. j \in k..Len(wifiQueue) /\ j \in 1..Len(wifiQueue)
      BY <1>1, <2>2
    <3> QED BY <1>1, <3>1 DEF NoLinkMessageFrom
  <2> QED BY <2>1, <2>2
<1>3. NoLinkMessageFrom(1)' => NoLinkMessageFrom(1)
  BY <1>1 DEF NoLinkMessageFrom
<1>4. ASSUME NEW m \in Notices, LatestNews(m) PROVE LatestNews(m)'
  <2>1. CASE notices = <<>> /\ eventPc = "idle"
    <3> PICK i \in 1..Len(wifiQueue) : wifiQueue[i] = MessageOf[m] /\ NoLinkMessageFrom(i + 1)
      BY <1>4, <2>1 DEF LatestNews, HandlingOf, Notices
    <3>1. i \in 1..Len(wifiQueue') /\ i + 1 \in Nat \ {0} /\ wifiQueue'[i] = MessageOf[m]
      BY <1>1
    <3> QED BY <1>2, <2>1, <3>1 DEF LatestNews
  <2>2. CASE notices # <<>> \/ eventPc # "idle"
    BY <1>4, <2>2 DEF LatestNews
  <2> QED BY <2>1, <2>2
<1> QED BY <1>2, <1>3, <1>4 DEF NewsKept, NoNews

\* The task receives a message: the news behind it stays, and a link message that
\* was the last of the news ends it.
LEMMA ReceivedNews ==
  ASSUME TypeOK, NEW msg, Receive(msg), UNCHANGED <<notices, eventPc>>
  PROVE  /\ NoNews => NoNews'
         /\ msg \notin LinkMessages => NewsKept /\ (NoNews' => NoNews)
         /\ \A n \in Notices : msg = MessageOf[n] => (NewsKept /\ ~NoNews') \/ NewsEnds(n)
<1>1. /\ Len(wifiQueue) \in Nat \ {0} /\ Len(wifiQueue') = Len(wifiQueue) - 1
      /\ \A i \in 1..Len(wifiQueue') : wifiQueue'[i] = wifiQueue[i + 1]
      /\ wifiQueue[1] = msg
  BY ReceivePlaces
<1>2. ASSUME NEW k \in Nat \ {0} PROVE NoLinkMessageFrom(k + 1) => NoLinkMessageFrom(k)'
  BY <1>1 DEF NoLinkMessageFrom
<1>3. NoLinkMessageFrom(1)' => NoLinkMessageFrom(2)
  <2> SUFFICES ASSUME NoLinkMessageFrom(1)', NEW j \in 2..Len(wifiQueue) PROVE wifiQueue[j] \notin LinkMessages
    BY DEF NoLinkMessageFrom
  <2>1. j - 1 \in 1..Len(wifiQueue') /\ wifiQueue'[j - 1] = wifiQueue[(j - 1) + 1]
    BY <1>1
  <2> QED BY <2>1 DEF NoLinkMessageFrom
<1>4. NoLinkMessageFrom(1) => NoLinkMessageFrom(2) /\ msg \notin LinkMessages
  BY <1>1 DEF NoLinkMessageFrom
<1>5. NoLinkMessageFrom(2) /\ msg \notin LinkMessages => NoLinkMessageFrom(1)
  BY <1>1 DEF NoLinkMessageFrom
<1>6. NoNews => NoNews'
  BY <1>2, <1>4 DEF NoNews
<1>7. ASSUME NEW m \in Notices, LatestNews(m)
      PROVE  \/ LatestNews(m)'
             \/ /\ notices = <<>> /\ eventPc = "idle"
                /\ msg = MessageOf[m] /\ NoLinkMessageFrom(2)
  <2>1. CASE notices = <<>> /\ eventPc = "idle"
    <3> PICK i \in 1..Len(wifiQueue) : wifiQueue[i] = MessageOf[m] /\ NoLinkMessageFrom(i + 1)
      BY <1>7, <2>1 DEF LatestNews, HandlingOf, Notices
    <3>1. CASE i = 1
      BY <1>1, <2>1, <3>1
    <3>2. CASE i # 1
      <4>1. i - 1 \in 1..Len(wifiQueue') /\ wifiQueue'[i - 1] = wifiQueue[(i - 1) + 1] /\ i \in Nat \ {0}
        BY <1>1, <3>2
      <4>2. wifiQueue'[i - 1] = MessageOf[m] /\ NoLinkMessageFrom((i - 1) + 1)'
        BY <1>2, <4>1
      <4> QED BY <2>1, <4>1, <4>2 DEF LatestNews
    <3> QED BY <3>1, <3>2
  <2>2. CASE notices # <<>> \/ eventPc # "idle"
    BY <1>7, <2>2 DEF LatestNews
  <2> QED BY <2>1, <2>2
<1>8. ASSUME NEW m \in Notices PROVE MessageOf[m] \in LinkMessages
  BY DEF MessageOf, LinkMessages, Notices
<1>9. msg \notin LinkMessages => NewsKept /\ (NoNews' => NoNews)
  BY <1>3, <1>5, <1>6, <1>7, <1>8 DEF NewsKept, NoNews
<1>10. ASSUME NEW n \in Notices, msg = MessageOf[n] PROVE (NewsKept /\ ~NoNews') \/ NewsEnds(n)
  <2>1. ~NoNews
    BY <1>4, <1>8, <1>10 DEF NoNews
  <2>2. CASE NoNews'
    <3>1. ASSUME NEW m \in Notices, LatestNews(m), m # n PROVE FALSE
      <4>1. MessageOf[m] # MessageOf[n]
        BY <3>1 DEF MessageOf, Notices
      <4>2. LatestNews(m)'
        BY <1>7, <1>10, <3>1, <4>1
      <4>3. notices' = <<>> /\ eventPc' = "idle" /\ NoLinkMessageFrom(1)'
        BY <2>2 DEF NoNews
      <4>4. PICK i \in 1..Len(wifiQueue') : wifiQueue'[i] = MessageOf[m]
        BY <4>2, <4>3 DEF LatestNews, HandlingOf, Notices
      <4> QED BY <1>8, <4>3, <4>4 DEF NoLinkMessageFrom
    <3> QED BY <2>1, <2>2, <3>1 DEF NewsEnds
  <2>3. CASE ~NoNews'
    <3>1. ~(notices = <<>> /\ eventPc = "idle" /\ NoLinkMessageFrom(2))
      BY <1>2, <2>3 DEF NoNews
    <3> QED BY <1>6, <1>7, <2>1, <2>3, <3>1 DEF NewsKept
  <2> QED BY <2>2, <2>3
<1> QED BY <1>6, <1>9, <1>10

\* The link and the news of it, as the two properties need each other: what the
\* task knows when no news is under way is KnownUp.
LinkInv == LinkNotLost /\ LossNotMissed
KnownUp == "GOT_IP" \in eventBits /\ ~Disconnecting

LEMMA LinkInvMeans ==
  LinkInv <=> /\ sta = "up" => LatestNews("got_ip") \/ (NoNews /\ KnownUp)
              /\ sta = "idle" => LatestNews("disconnected") \/ (NoNews /\ ~KnownUp)
BY DEF LinkInv, LinkNotLost, LossNotMissed, KnownUp

\* A step that keeps the news and what is known, and does not bring a link about
\* or take one away, keeps the invariant.
LEMMA KeptLink ==
  ASSUME LinkInv, NewsKept, sta' = sta \/ sta' \notin {"up", "idle"}, KnownUp' <=> KnownUp
  PROVE  LinkInv'
BY LinkInvMeans DEF NewsKept, Notices, LinkInv, LinkNotLost, LossNotMissed, KnownUp

\* No call of esp_wifi_connect makes a link or ends one.
LEMMA ConnectMakesNoLink ==
  ASSUME NEW answer \in ConnectAnswers
  PROVE  answer.to # "idle" /\ (answer.to = "up" => answer.from = "up")
BY DEF ConnectAnswers

LEMMA EventTaskLinkInv == TypeOK /\ LinkInv /\ EventTask => LinkInv'
<1> USE DEF taskVars, driverVars, userVars, serverVars, restVars
<1> SUFFICES ASSUME TypeOK, LinkInv, EventTask PROVE LinkInv'
  OBVIOUS
<1>1. CASE RetryConnect
  <2>1. (LatestNews("got_ip") => LatestNews("got_ip")') /\ ~NoNews
    BY <1>1, RetriedNews
  <2>2. sta' # "idle" /\ (sta' = "up" => sta = "up")
    BY <1>1, ConnectMakesNoLink DEF RetryConnect
  <2> QED BY <2>1, <2>2 DEF LinkInv, LinkNotLost, LossNotMissed
<1>2. CASE Retry
  <2>1. NewsKept
    BY <1>2, TakenNews DEF Retry, Notices, HandlingOf
  <2> QED BY <1>2, <2>1, KeptLink DEF Retry, KnownUp, Disconnecting
<1>3. CASE GiveUp
  <2>1. NewsKept
    BY <1>3, TakenNews DEF GiveUp, Notices, HandlingOf
  <2> QED BY <1>3, <2>1, KeptLink DEF GiveUp, KnownUp, Disconnecting
<1>4. CASE GotIp
  <2>1. NewsKept
    BY <1>4, TakenNews DEF GotIp, Notices, HandlingOf
  <2> QED BY <1>4, <2>1, KeptLink DEF GotIp, KnownUp, Disconnecting
<1>5. CASE EventSendGotIp
  <2>1. NewsKept
    BY <1>5, PassedNews DEF EventSendGotIp, EventSend, Notices, HandlingOf, MessageOf
  <2> QED BY <1>5, <2>1, KeptLink DEF EventSendGotIp, EventSend, KnownUp, Disconnecting
<1>6. CASE EventSendDisconnected
  <2>1. NewsKept
    BY <1>6, PassedNews DEF EventSendDisconnected, EventSend, Notices, HandlingOf, MessageOf
  <2> QED BY <1>6, <2>1, KeptLink DEF EventSendDisconnected, EventSend, KnownUp, Disconnecting
<1> QED BY <1>1, <1>3, <1>4, <1>5, <1>6, <1>2 DEF EventTask

\* The task receives: news that was the last is what it now knows.
LEMMA ReceivesLinkInv == TypeOK /\ LinkInv /\ Receives => LinkInv'
<1> USE DEF taskVars, driverVars, userVars, serverVars, restVars
<1> SUFFICES ASSUME TypeOK, LinkInv, Receives PROVE LinkInv'
  OBVIOUS
<1>1. CASE ReceiveLoad \/ ReceiveStart \/ ReceiveConnecting \/ ReceiveUserRequest
  <2>1. NewsKept
    BY <1>1, ReceivedNews DEF ReceiveLoad, ReceiveStart, ReceiveConnecting, ReceiveUserRequest,
       LinkMessages
  <2>2. UNCHANGED sta /\ (KnownUp' <=> KnownUp)
    BY <1>1 DEF ReceiveLoad, ReceiveStart, ReceiveConnecting, ReceiveUserRequest, Receive, At,
       KnownUp, Disconnecting
  <2> QED BY <2>1, <2>2, KeptLink
<1>2. CASE ReceiveGotIp
  <2>1. (NewsKept /\ ~NoNews') \/ NewsEnds("got_ip")
    BY <1>2, ReceivedNews DEF ReceiveGotIp, Notices, MessageOf
  <2>2. UNCHANGED sta /\ KnownUp'
    BY <1>2 DEF ReceiveGotIp, KnownUp, Disconnecting
  <2> QED BY <2>1, <2>2 DEF LinkInv, LinkNotLost, LossNotMissed, NewsKept, NewsEnds, Notices, KnownUp
<1>3. CASE ReceiveDisconnected
  <2>1. (NewsKept /\ ~NoNews') \/ NewsEnds("disconnected")
    BY <1>3, ReceivedNews DEF ReceiveDisconnected, Notices, MessageOf
  <2>2. UNCHANGED sta /\ ~KnownUp'
    BY <1>3 DEF ReceiveDisconnected, DisconnectReason, KnownUp, Disconnecting
  <2> QED BY <2>1, <2>2 DEF LinkInv, LinkNotLost, LossNotMissed, NewsKept, NewsEnds, Notices, KnownUp
<1> QED BY <1>1, <1>2, <1>3 DEF Receives

LEMMA HandlesLinkInv == TypeOK /\ LinkInv /\ Handles => LinkInv'
<1> USE DEF taskVars, driverVars, userVars, serverVars, restVars
<1> SUFFICES ASSUME TypeOK, LinkInv, Handles PROVE LinkInv'
  OBVIOUS
<1>1. NewsKept
  <2>1. CASE SendLoad \/ SendStart
    BY <2>1, OtherSent DEF SendLoad, SendStart, WifiMessages, LinkMessages
  <2>2. CASE ~SendLoad /\ ~SendStart
    <3>1. UNCHANGED <<wifiQueue, notices, eventPc>>
      BY <2>2 DEF Handles, LoadSetConfig, LoadConnect, HttpSetConfig, HttpConnect, SetConfig,
         Connect, ResetRetry, SendInit, SendSuccess, SaveCreds, Callback, StopRetries, StopLink,
         StopCreds, SendFail, SendUserDisconnect, ClearConnected, TellMonitor
    <3> QED BY <3>1, SameNews
  <2> QED BY <2>1, <2>2
<1>2. sta' = sta \/ sta' \notin {"up", "idle"}
  <2>1. CASE LoadConnect \/ HttpConnect
    <3> PICK answer \in ConnectAnswers : answer.from = sta /\ sta' = answer.to
      BY <2>1 DEF LoadConnect, HttpConnect, Connect
    <3> QED BY ConnectMakesNoLink
  <2>2. CASE StopLink
    BY <2>2 DEF StopLink, AfterDisconnect
  <2>3. CASE ~(LoadConnect \/ HttpConnect \/ StopLink)
    BY <2>3 DEF Handles, SendLoad, LoadSetConfig, HttpSetConfig, SetConfig, SendStart,
       ResetRetry, SendInit, SendSuccess, SaveCreds, Callback, StopRetries,
       StopCreds, SendFail, SendUserDisconnect, ClearConnected, TellMonitor
  <2> QED BY <2>1, <2>2, <2>3
<1>3. KnownUp' <=> KnownUp
  <2>1. CASE SaveCreds \/ ClearConnected
    BY <2>1 DEF SaveCreds, ClearConnected, Goto, At, KnownUp, Disconnecting
  <2>2. CASE ~(SaveCreds \/ ClearConnected)
    <3>1. UNCHANGED eventBits /\ (Disconnecting' <=> Disconnecting)
      BY <2>2 DEF Handles, SendLoad, LoadSetConfig, LoadConnect, SendStart, HttpSetConfig,
         HttpConnect, SetConfig, Connect, ResetRetry, SendInit, SendSuccess, Callback,
         StopRetries, StopLink, StopCreds, SendFail, SendUserDisconnect, TellMonitor, Goto, At,
         Abort, Disconnecting
    <3> QED BY <3>1 DEF KnownUp
  <2> QED BY <2>1, <2>2
<1> QED BY <1>1, <1>2, <1>3, KeptLink

LEMMA OthersLinkInv ==
  TypeOK /\ LinkInv /\ (LinkChange \/ Press \/ SendOther \/ Monitor \/ ButtonTask \/ HttpServer \/ Reset)
    => LinkInv'
<1> USE DEF taskVars, driverVars, userVars, serverVars, restVars
<1> SUFFICES ASSUME TypeOK, LinkInv,
                    LinkChange \/ Press \/ SendOther \/ Monitor \/ ButtonTask \/ HttpServer \/ Reset
             PROVE  LinkInv'
  OBVIOUS
<1>1. CASE LinkChange
  <2> PICK change \in LinkChanges : sta' = change.to /\ notices' = Append(notices, change.notice)
    BY <1>1 DEF LinkChange
  <2>1. /\ change.notice \in Notices
        /\ sta' = "up" => change.notice = "got_ip"
        /\ sta' = "idle" => change.notice = "disconnected"
    BY DEF LinkChanges, Notices
  <2>2. LatestNews(change.notice)'
    BY <1>1, <2>1, PostedNews DEF LinkChange
  <2>3. /\ sta' = "up" => LatestNews("got_ip")'
        /\ sta' = "idle" => LatestNews("disconnected")'
    BY <2>1, <2>2
  <2> QED BY <2>3 DEF LinkInv, LinkNotLost, LossNotMissed
<1>2. CASE Press \/ SendOther \/ Monitor \/ ButtonTake \/ ButtonDelayOver \/ RequestConnectInfo
  <2>1. UNCHANGED <<wifiQueue, wifiPc, eventBits, sta, notices, eventPc>>
    BY <1>2 DEF Press, SendOther, Monitor, ButtonTake, ButtonDelayOver, RequestConnectInfo
  <2> QED BY <2>1, SameNews, KeptLink DEF KnownUp, Disconnecting
<1>3. CASE ButtonSend
  <2>1. NewsKept
    BY <1>3, OtherSent DEF ButtonSend, WifiMessages, LinkMessages
  <2> QED BY <1>3, <2>1, KeptLink DEF ButtonSend, KnownUp, Disconnecting
<1>4. CASE RequestConnect \/ RequestDisconnect
  <2>1. NewsKept
    BY <1>4, OtherSent DEF RequestConnect, RequestDisconnect, Request, WifiMessages, LinkMessages
  <2> QED BY <1>4, <2>1, KeptLink DEF RequestConnect, RequestDisconnect, Request, KnownUp, Disconnecting
<1>5. CASE Reset
  BY <1>5, EmptyQueues DEF Reset, LinkInv, LinkNotLost, LossNotMissed, NoNews, NoLinkMessageFrom,
     Disconnecting
<1> QED BY <1>1, <1>2, <1>3, <1>4, <1>5 DEF ButtonTask, HttpServer

LEMMA InitLinkInv == Init => LinkInv
BY EmptyQueues DEF Init, LinkInv, LinkNotLost, LossNotMissed, NoNews, NoLinkMessageFrom, Disconnecting

LEMMA NextLinkInv == TypeOK /\ LinkInv /\ [Next]_vars => LinkInv'
<1> SUFFICES ASSUME TypeOK, LinkInv, [Next]_vars PROVE LinkInv'
  OBVIOUS
<1>1. CASE Next
  BY <1>1, EventTaskLinkInv, ReceivesLinkInv, HandlesLinkInv, OthersLinkInv
     DEF Next, WifiTask, PowerCut, PanicReset
<1>2. CASE UNCHANGED vars
  <2>1. UNCHANGED <<wifiQueue, wifiPc, eventBits, sta, notices, eventPc>>
    BY <1>2 DEF vars, taskVars, driverVars
  <2> QED BY <2>1, SameNews, KeptLink DEF KnownUp, Disconnecting
<1> QED BY <1>1, <1>2

\* In every schedule, however many notices and messages are under way, a link that
\* is up is known to be up or the latest news of it says so (wifi_app.c:114-118, 296).
THEOREM LinkIsNotLost == Spec => []LinkNotLost
<1>1. Init => TypeOK /\ LinkInv
  BY InitTypeOK, InitLinkInv
<1>2. TypeOK /\ LinkInv /\ [Next]_vars => (TypeOK /\ LinkInv)'
  BY NextTypeOK, NextLinkInv
<1>3. LinkInv => LinkNotLost
  BY DEF LinkInv
<1> QED BY <1>1, <1>2, <1>3, PTL DEF Spec

\* Likewise of a link that is gone: the connected bit is clear, is about to be
\* cleared, or the latest news is the loss (wifi_app.c:92-103, 341-372).
THEOREM LossIsNotMissed == Spec => []LossNotMissed
<1>1. Init => TypeOK /\ LinkInv
  BY InitTypeOK, InitLinkInv
<1>2. TypeOK /\ LinkInv /\ [Next]_vars => (TypeOK /\ LinkInv)'
  BY NextTypeOK, NextLinkInv
<1>3. LinkInv => LossNotMissed
  BY DEF LinkInv
<1> QED BY <1>1, <1>2, <1>3, PTL DEF Spec

-----------------------------------------------------------------------------
(* What the monitor has been told *)

\* The status that will be published before the k-th message the monitor has queued
\* is st: that of the last message of the Wi-Fi task before it, if there is one.  The
\* status behind the last message is what the page will read in the end.
Others(from, to) == \A i \in from..to : monitorQueue[i] = "OTHER"
StatusIs(k, st) ==
  \/ connectStatus = st /\ Others(1, k - 1)
  \/ \E j \in 1..(k - 1) : /\ monitorQueue[j] # "OTHER" /\ StatusAfter[monitorQueue[j]] = st
                           /\ Others(j + 1, k - 1)
LastIs(st) == StatusIs(Len(monitorQueue) + 1, st)

\* A link that is up with no news under way has been reported, or is about to be.
StatusInv ==
  sta = "up" /\ NoNews =>
    /\ wifiPc \notin {"reset_retry", "send_init"}
    /\ wifiPc = "send_success" \/ LastIs("success")

\* A message may stand at place k without breaking the protocol of an attempt.
Follows(k, msg) ==
  /\ msg = "CONNECT_FAIL" => StatusIs(k, "connecting")
  /\ msg = "USER_DISCONNECT" => ~StatusIs(k, "connecting")
Chained == \A k \in 1..Len(monitorQueue) : Follows(k, monitorQueue[k])

\* The bit of the connect request is set exactly while an attempt is announced,
\* but for the stretches between a change of the one and of the other.
Announcing == wifiPc \in {"http_set_config", "http_connect", "reset_retry", "send_init"}
Announced ==
  /\ LastIs("connecting") => "FROM_HTTP_SERVER" \in eventBits \/ wifiPc = "send_fail"
  /\ "FROM_HTTP_SERVER" \in eventBits /\ ~Announcing /\ wifiPc # "save_creds"
       => LastIs("connecting")
  /\ wifiPc = "send_fail" => LastIs("connecting")
  /\ Announcing => "FROM_HTTP_SERVER" \in eventBits
  /\ wifiPc \in {"save_creds", "send_user_disconnect"} => ~LastIs("connecting")
  /\ wifiPc \in {"send_fail", "send_user_disconnect"} => "FROM_HTTP_SERVER" \notin eventBits
ProtocolInv == Chained /\ Announced

LEMMA SameStatus ==
  ASSUME UNCHANGED <<monitorQueue, connectStatus>>
  PROVE  (\A st : LastIs(st)' <=> LastIs(st)) /\ (Chained => Chained')
BY DEF LastIs, StatusIs, Others, Chained, Follows

\* A message behind the others leaves the statuses before it alone.
LEMMA AppendedStatus ==
  ASSUME TypeOK, NEW msg \in MonitorMessages, monitorQueue' = Append(monitorQueue, msg),
         UNCHANGED connectStatus
  PROVE  /\ Len(monitorQueue) \in Nat /\ Len(monitorQueue') = Len(monitorQueue) + 1
         /\ monitorQueue'[Len(monitorQueue) + 1] = msg
         /\ \A k \in 1..Len(monitorQueue) : monitorQueue'[k] = monitorQueue[k]
         /\ \A k \in 1..(Len(monitorQueue) + 1) : \A st : StatusIs(k, st)' <=> StatusIs(k, st)
         /\ Chained /\ Follows(Len(monitorQueue) + 1, msg) => Chained'
<1>1. /\ Len(monitorQueue) \in Nat /\ Len(monitorQueue') = Len(monitorQueue) + 1
      /\ \A k \in 1..Len(monitorQueue) : monitorQueue'[k] = monitorQueue[k]
      /\ monitorQueue'[Len(monitorQueue) + 1] = msg
  BY AppendProperties, LenProperties DEF TypeOK
<1>2. ASSUME NEW k \in 1..(Len(monitorQueue) + 1), NEW from \in Nat \ {0}
      PROVE  Others(from, k - 1)' <=> Others(from, k - 1)
  BY <1>1 DEF Others
<1>3. ASSUME NEW k \in 1..(Len(monitorQueue) + 1), NEW st
      PROVE  StatusIs(k, st)' <=> StatusIs(k, st)
  <2>1. Others(1, k - 1)' <=> Others(1, k - 1)
    BY <1>2
  <2>2. ASSUME NEW j \in 1..(k - 1)
        PROVE  /\ monitorQueue'[j] = monitorQueue[j]
               /\ Others(j + 1, k - 1)' <=> Others(j + 1, k - 1)
    BY <1>1, <1>2
  <2> QED BY <2>1, <2>2 DEF StatusIs
<1>4. ASSUME Chained, Follows(Len(monitorQueue) + 1, msg), NEW k \in 1..Len(monitorQueue')
      PROVE  Follows(k, monitorQueue[k])'
  <2>1. StatusIs(k, "connecting")' <=> StatusIs(k, "connecting")
    BY <1>1, <1>3
  <2>2. CASE k = Len(monitorQueue) + 1
    BY <1>1, <1>4, <2>1, <2>2 DEF Follows
  <2>3. CASE k # Len(monitorQueue) + 1
    <3>1. k \in 1..Len(monitorQueue)
      BY <1>1, <2>3
    <3> QED BY <1>1, <1>4, <2>1, <3>1 DEF Chained, Follows
  <2> QED BY <2>2, <2>3
<1>5. Chained /\ Follows(Len(monitorQueue) + 1, msg) => Chained'
  BY <1>4 DEF Chained
<1> QED BY <1>1, <1>3, <1>5

\* The task tells the monitor something.
LEMMA ToldStatus ==
  ASSUME TypeOK, NEW msg \in DOMAIN StatusAfter, monitorQueue' = Append(monitorQueue, msg),
         UNCHANGED connectStatus
  PROVE  /\ \A st : LastIs(st)' <=> st = StatusAfter[msg]
         /\ Chained /\ Follows(Len(monitorQueue) + 1, msg) => Chained'
<1>0. msg \in MonitorMessages /\ msg # "OTHER"
  BY DEF MonitorMessages, StatusAfter
<1> PICK n \in Nat \ {0} : n = Len(monitorQueue) + 1
  BY <1>0, AppendedStatus
<1>1. n = Len(monitorQueue') /\ monitorQueue'[n] = msg
  BY <1>0, AppendedStatus
<1>2. ASSUME NEW st PROVE LastIs(st)' <=> StatusIs(n + 1, st)'
  BY <1>1 DEF LastIs
<1>3. ASSUME NEW st PROVE StatusIs(n + 1, st)' <=> st = StatusAfter[msg]
  <2>1. ASSUME NEW j \in 1..n PROVE Others(j, n)' <=> FALSE
    BY <1>0, <1>1 DEF Others
  <2>2. Others(n + 1, n)'
    BY DEF Others
  <2>3. (n + 1) - 1 = n /\ n \in 1..n /\ 1 \in 1..n
    OBVIOUS
  <2>4. StatusIs(n + 1, st)' <=> \E j \in 1..n : /\ monitorQueue'[j] # "OTHER"
                                                /\ StatusAfter[monitorQueue'[j]] = st
                                                /\ Others(j + 1, n)'
    BY <2>1, <2>3 DEF StatusIs
  <2>5. ASSUME NEW j \in 1..n, Others(j + 1, n)' PROVE j = n
    <3>1. j # n => j + 1 \in 1..n
      OBVIOUS
    <3> QED BY <2>1, <2>5, <3>1
  <2> QED BY <1>0, <1>1, <2>2, <2>3, <2>4, <2>5
<1>4. Chained /\ Follows(Len(monitorQueue) + 1, msg) => Chained'
  BY <1>0, AppendedStatus
<1> QED BY <1>2, <1>3, <1>4

\* Another task's message changes nothing of what will be published.
LEMMA OtherStatus ==
  ASSUME TypeOK, SendOther
  PROVE  (\A st : LastIs(st)' <=> LastIs(st)) /\ (Chained => Chained')
<1>0. /\ "OTHER" \in MonitorMessages /\ monitorQueue' = Append(monitorQueue, "OTHER")
      /\ UNCHANGED connectStatus
  BY DEF SendOther, MonitorMessages
<1> PICK n \in Nat \ {0} : n = Len(monitorQueue) + 1
  BY <1>0, AppendedStatus
<1>1. n = Len(monitorQueue') /\ monitorQueue'[n] = "OTHER"
  BY <1>0, AppendedStatus
<1>2. ASSUME NEW st PROVE StatusIs(n, st)' <=> StatusIs(n, st)
  BY <1>0, AppendedStatus
<1>3. ASSUME NEW st PROVE StatusIs(n + 1, st)' <=> StatusIs(n, st)'
  <2>1. ASSUME NEW j \in 1..n PROVE Others(j, n)' <=> Others(j, n - 1)'
    BY <1>1 DEF Others
  <2>2. (n + 1) - 1 = n /\ 1 \in 1..n
    OBVIOUS
  <2>3. ASSUME NEW j \in 1..n, monitorQueue'[j] # "OTHER"
        PROVE  j \in 1..(n - 1) /\ j + 1 \in 1..n
    BY <1>1, <2>3
  <2>4. ASSUME NEW j \in 1..(n - 1) PROVE j \in 1..n /\ j + 1 \in 1..n
    OBVIOUS
  <2> QED BY <2>1, <2>2, <2>3, <2>4 DEF StatusIs
<1>4. ASSUME NEW st PROVE LastIs(st)' <=> LastIs(st)
  BY <1>1, <1>2, <1>3 DEF LastIs
<1>5. Follows(Len(monitorQueue) + 1, "OTHER")
  BY DEF Follows
<1>6. Chained => Chained'
  BY <1>0, <1>5, AppendedStatus
<1> QED BY <1>4, <1>6

\* The monitor publishes the status of the message at the head of its queue.
LEMMA PublishedStatus ==
  ASSUME TypeOK, Monitor
  PROVE  /\ \A st : LastIs(st)' <=> LastIs(st)
         /\ Chained => /\ Chained'
                       /\ Head(monitorQueue) = "CONNECT_FAIL" => connectStatus = "connecting"
                       /\ Head(monitorQueue) = "USER_DISCONNECT" => connectStatus # "connecting"
<1>1. /\ Len(monitorQueue) \in Nat \ {0} /\ Len(monitorQueue') = Len(monitorQueue) - 1
      /\ \A k \in 1..Len(monitorQueue') : monitorQueue'[k] = monitorQueue[k + 1]
      /\ Head(monitorQueue) = monitorQueue[1]
      /\ connectStatus' = IF monitorQueue[1] = "OTHER" THEN connectStatus
                                                       ELSE StatusAfter[monitorQueue[1]]
  BY HeadTailProperties, EmptySeq, LenProperties DEF TypeOK, Monitor
<1>2. ASSUME NEW k \in 1..Len(monitorQueue), NEW st PROVE StatusIs(k, st)' <=> StatusIs(k + 1, st)
  <2>1. ASSUME NEW from \in Nat \ {0} PROVE Others(from, k - 1)' <=> Others(from + 1, k)
    <3>1. ASSUME Others(from, k - 1)', NEW i \in (from + 1)..k PROVE monitorQueue[i] = "OTHER"
      <4>1. i - 1 \in from..(k - 1) /\ i - 1 \in 1..Len(monitorQueue') /\ (i - 1) + 1 = i
        BY <1>1
      <4> QED BY <1>1, <3>1, <4>1 DEF Others
    <3>2. ASSUME Others(from + 1, k), NEW i \in from..(k - 1) PROVE monitorQueue'[i] = "OTHER"
      <4>1. i + 1 \in (from + 1)..k /\ i \in 1..Len(monitorQueue')
        BY <1>1
      <4> QED BY <1>1, <3>2, <4>1 DEF Others
    <3> QED BY <3>1, <3>2 DEF Others
  <2>2. (k + 1) - 1 = k /\ 1 \in 1..k /\ 1 + 1 \in Nat
    OBVIOUS
  <2>3. Others(1, k) <=> monitorQueue[1] = "OTHER" /\ Others(1 + 1, k)
    BY DEF Others
  <2>4. ASSUME StatusIs(k, st)' PROVE StatusIs(k + 1, st)
    <3>1. CASE connectStatus' = st /\ Others(1, k - 1)'
      <4>1. Others(1 + 1, k)
        BY <2>1, <3>1
      <4>2. CASE monitorQueue[1] = "OTHER"
        BY <1>1, <2>2, <2>3, <3>1, <4>1, <4>2 DEF StatusIs
      <4>3. CASE monitorQueue[1] # "OTHER"
        <5>1. StatusAfter[monitorQueue[1]] = st
          BY <1>1, <3>1, <4>3
        <5> QED BY <2>2, <4>1, <4>3, <5>1 DEF StatusIs
      <4> QED BY <4>2, <4>3
    <3>2. CASE \E j \in 1..(k - 1) : /\ monitorQueue'[j] # "OTHER"
                                     /\ StatusAfter[monitorQueue'[j]] = st
                                     /\ Others(j + 1, k - 1)'
      <4> PICK j \in 1..(k - 1) : /\ monitorQueue'[j] # "OTHER"
                                  /\ StatusAfter[monitorQueue'[j]] = st
                                  /\ Others(j + 1, k - 1)'
        BY <3>2
      <4>1. j \in 1..Len(monitorQueue') /\ j + 1 \in 1..k /\ j + 1 \in Nat \ {0}
        BY <1>1
      <4>2. monitorQueue'[j] = monitorQueue[j + 1] /\ Others((j + 1) + 1, k)
        BY <1>1, <2>1, <4>1
      <4> QED BY <2>2, <4>1, <4>2 DEF StatusIs
    <3> QED BY <2>4, <3>1, <3>2 DEF StatusIs
  <2>5. ASSUME StatusIs(k + 1, st) PROVE StatusIs(k, st)'
    <3>1. CASE connectStatus = st /\ Others(1, k)
      BY <1>1, <2>1, <2>3, <3>1 DEF StatusIs
    <3>2. CASE \E j \in 1..k : /\ monitorQueue[j] # "OTHER" /\ StatusAfter[monitorQueue[j]] = st
                               /\ Others(j + 1, k)
      <4> PICK j \in 1..k : /\ monitorQueue[j] # "OTHER" /\ StatusAfter[monitorQueue[j]] = st
                            /\ Others(j + 1, k)
        BY <3>2
      <4>1. CASE j = 1
        <5>1. connectStatus' = st /\ Others(1, k - 1)'
          BY <1>1, <2>1, <4>1
        <5> QED BY <5>1 DEF StatusIs
      <4>2. CASE j # 1
        <5>1. /\ j - 1 \in 1..(k - 1) /\ j - 1 \in 1..Len(monitorQueue') /\ (j - 1) + 1 = j
              /\ j \in Nat \ {0}
          BY <1>1, <4>2
        <5>2. monitorQueue'[j - 1] = monitorQueue[j] /\ Others((j - 1) + 1, k - 1)'
          BY <1>1, <2>1, <5>1
        <5> QED BY <5>1, <5>2 DEF StatusIs
      <4> QED BY <4>1, <4>2
    <3> QED BY <2>2, <2>5, <3>1, <3>2 DEF StatusIs
  <2> QED BY <2>4, <2>5
<1>3. ASSUME NEW st PROVE LastIs(st)' <=> LastIs(st)
  <2> PICK n \in Nat \ {0} : n = Len(monitorQueue)
    BY <1>1
  <2>1. LastIs(st)' <=> StatusIs(n, st)'
    <3>1. Len(monitorQueue') + 1 = n
      BY <1>1
    <3> QED BY <3>1 DEF LastIs
  <2>2. LastIs(st) <=> StatusIs(n + 1, st)
    BY DEF LastIs
  <2> QED BY <1>2, <2>1, <2>2
<1>4. ASSUME Chained, NEW k \in 1..Len(monitorQueue')
      PROVE  Follows(k, monitorQueue[k])'
  <2>1. k \in 1..Len(monitorQueue) /\ k + 1 \in 1..Len(monitorQueue)
    BY <1>1
  <2>2. StatusIs(k, "connecting")' <=> StatusIs(k + 1, "connecting")
    BY <1>2, <2>1
  <2> QED BY <1>1, <1>4, <2>1, <2>2 DEF Chained, Follows
<1>5. Chained => /\ Head(monitorQueue) = "CONNECT_FAIL" => connectStatus = "connecting"
                 /\ Head(monitorQueue) = "USER_DISCONNECT" => connectStatus # "connecting"
  <2>1. 1 \in 1..Len(monitorQueue)
    BY <1>1
  <2>2. StatusIs(1, "connecting") <=> connectStatus = "connecting"
    BY DEF StatusIs, Others
  <2> QED BY <1>1, <2>1, <2>2 DEF Chained, Follows
<1>6. Chained => Chained'
  BY <1>4 DEF Chained
<1> QED BY <1>3, <1>5, <1>6

\* A step keeps StatusInv when it makes no link and no end of news, and does not
\* take the task to the announcement of an attempt or away from that of a success.
LEMMA KeptStatus ==
  ASSUME StatusInv, NoNews' => NoNews, sta' = "up" => sta = "up", LastIs("success") => LastIs("success")',
         wifiPc' = wifiPc \/ (wifiPc # "send_success" /\ wifiPc' \notin {"reset_retry", "send_init"})
  PROVE  StatusInv'
BY DEF StatusInv

\* Where the link is up and no news of it is under way, the task knows.
LEMMA UpIsKnown == LinkInv /\ sta = "up" /\ NoNews => KnownUp
<1>1. LatestNews("got_ip") => ~NoNews
  BY NewsOrNone DEF Notices
<1> QED BY <1>1, LinkInvMeans

LEMMA EventTaskStatusInv == TypeOK /\ EventTask /\ LinkInv => StatusInv'
<1> USE DEF taskVars, driverVars, userVars, serverVars, restVars
<1> SUFFICES ASSUME TypeOK, LinkInv, EventTask PROVE sta' = "up" => ~NoNews'
  BY DEF StatusInv
<1>1. CASE RetryConnect
  <2>1. (LatestNews("got_ip") => ~NoNews') /\ ~NoNews
    BY <1>1, RetriedNews
  <2>2. sta' = "up" => sta = "up"
    BY <1>1, ConnectMakesNoLink DEF RetryConnect
  <2> QED BY <2>1, <2>2 DEF LinkInv, LinkNotLost
<1>2. CASE Retry
  BY <1>2, TakenNews DEF Retry, Notices, HandlingOf
<1>3. CASE GiveUp \/ GotIp
  <2>1. CASE GiveUp
    BY <2>1, TakenNews DEF GiveUp, Notices, HandlingOf
  <2>2. CASE GotIp
    BY <2>2, TakenNews DEF GotIp, Notices, HandlingOf
  <2> QED BY <1>3, <2>1, <2>2
<1>4. CASE EventSendGotIp \/ EventSendDisconnected
  BY <1>4, PassedNews DEF EventSendGotIp, EventSendDisconnected, EventSend, Notices, HandlingOf, MessageOf
<1> QED BY <1>1, <1>3, <1>4, <1>2 DEF EventTask

LEMMA ReceivesStatusInv == TypeOK /\ LinkInv /\ StatusInv /\ Receives => StatusInv'
<1> USE DEF taskVars, driverVars, userVars, serverVars, restVars
<1> SUFFICES ASSUME TypeOK, LinkInv, StatusInv, Receives PROVE StatusInv'
  OBVIOUS
<1>1. UNCHANGED <<sta, notices, eventPc, monitorQueue, connectStatus>> /\ wifiPc = "receive"
  BY DEF Receives, ReceiveLoad, ReceiveStart, ReceiveConnecting, ReceiveGotIp, ReceiveUserRequest,
     ReceiveDisconnected, Receive, At
<1>2. LastIs("success") => LastIs("success")'
  BY <1>1, SameStatus
<1>3. CASE ReceiveGotIp
  BY <1>3 DEF ReceiveGotIp, StatusInv
<1>4. CASE ReceiveDisconnected
  <2>1. (NewsKept /\ ~NoNews') \/ NewsEnds("disconnected")
    BY <1>4, ReceivedNews DEF ReceiveDisconnected, Notices, MessageOf
  <2> QED BY <1>1, <2>1 DEF StatusInv, LinkInv, LinkNotLost, NewsEnds, Notices
<1>5. CASE ReceiveLoad \/ ReceiveStart \/ ReceiveConnecting \/ ReceiveUserRequest
  <2>1. NoNews' => NoNews
    BY <1>1, <1>5, ReceivedNews DEF ReceiveLoad, ReceiveStart, ReceiveConnecting, ReceiveUserRequest,
       LinkMessages
  <2>2. wifiPc' \notin {"reset_retry", "send_init"}
    BY <1>1, <1>5 DEF ReceiveLoad, ReceiveStart, ReceiveConnecting, ReceiveUserRequest
  <2> QED BY <1>1, <1>2, <2>1, <2>2, KeptStatus
<1> QED BY <1>3, <1>4, <1>5 DEF Receives

LEMMA HandlesStatusInv == TypeOK /\ LinkInv /\ StatusInv /\ Handles => StatusInv'
<1> USE DEF taskVars, driverVars, userVars, serverVars, restVars
<1> SUFFICES ASSUME TypeOK, LinkInv, StatusInv, Handles PROVE StatusInv'
  OBVIOUS
<1>1. CASE SendLoad \/ SendStart
  <2>1. NoNews' => NoNews
    BY <1>1, OtherSent DEF SendLoad, SendStart, WifiMessages, LinkMessages
  <2>2. LastIs("success") => LastIs("success")'
    BY <1>1, SameStatus DEF SendLoad, SendStart
  <2> QED BY <1>1, <2>1, <2>2, KeptStatus DEF SendLoad, SendStart, Goto, At
<1>2. CASE LoadConnect \/ HttpConnect
  <2>1. (NoNews' => NoNews) /\ (LastIs("success") => LastIs("success")')
    BY <1>2, SameNews, SameStatus DEF LoadConnect, HttpConnect, Connect
  <2>2. \/ UNCHANGED wifiPc /\ (sta' = "up" => sta = "up")
        \/ sta' # "up"
    <3> PICK answer \in ConnectAnswers :
          /\ answer.from = sta /\ sta' = answer.to
          /\ answer.ok \/ UNCHANGED wifiPc
      BY <1>2 DEF LoadConnect, HttpConnect, Connect, Abort
    <3>1. answer.ok => answer.to # "up"
      BY DEF ConnectAnswers
    <3> QED BY <3>1, ConnectMakesNoLink
  <2> QED BY <2>1, <2>2, KeptStatus DEF StatusInv
<1>3. CASE SendInit \/ SendFail \/ SendUserDisconnect
  <2>1. sta' = sta /\ (NoNews' => NoNews) /\ (KnownUp => wifiPc = "send_init")
    BY <1>3, SameNews DEF SendInit, SendFail, SendUserDisconnect, TellMonitor, At, KnownUp, Disconnecting
  <2>2. ~(sta' = "up" /\ NoNews')
    BY <2>1, UpIsKnown DEF StatusInv
  <2> QED BY <2>2 DEF StatusInv
<1>4. CASE SendSuccess
  <2>1. sta' = sta /\ (NoNews' => NoNews)
    BY <1>4, SameNews DEF SendSuccess, TellMonitor
  <2>2. CASE serverUp = "down"
    <3>1. (LastIs("success") => LastIs("success")') /\ wifiPc' = wifiPc
      BY <1>4, <2>2, SameStatus DEF SendSuccess, TellMonitor, Abort
    <3> QED BY <2>1, <3>1, KeptStatus
  <2>3. CASE serverUp # "down"
    <3>1. monitorQueue' = Append(monitorQueue, "CONNECT_SUCCESS") /\ UNCHANGED connectStatus
          /\ wifiPc' = "save_creds"
      BY <1>4, <2>3 DEF SendSuccess, TellMonitor
    <3>2. LastIs("success")'
      BY <3>1, ToldStatus DEF StatusAfter
    <3> QED BY <3>1, <3>2 DEF StatusInv
  <2> QED BY <2>2, <2>3
<1>5. CASE ResetRetry
  <2>1. (NoNews' => NoNews) /\ sta' = sta /\ wifiPc = "reset_retry"
    BY <1>5, SameNews DEF ResetRetry, Goto, At
  <2> QED BY <2>1 DEF StatusInv
<1>6. CASE LoadSetConfig \/ HttpSetConfig \/ SaveCreds \/ Callback \/ StopRetries \/ StopLink
             \/ StopCreds \/ ClearConnected
  <2>1. UNCHANGED <<wifiQueue, notices, eventPc, monitorQueue, connectStatus>>
    BY <1>6 DEF LoadSetConfig, HttpSetConfig, SetConfig, SaveCreds, Callback, StopRetries, StopLink,
       StopCreds, ClearConnected
  <2>2. sta' = "up" => sta = "up"
    BY <1>6 DEF LoadSetConfig, HttpSetConfig, SetConfig, SaveCreds, Callback, StopRetries, StopLink,
       StopCreds, ClearConnected, AfterDisconnect
  <2>3. wifiPc' = wifiPc \/ (wifiPc # "send_success" /\ wifiPc' \notin {"reset_retry", "send_init"})
    BY <1>6 DEF LoadSetConfig, HttpSetConfig, SetConfig, SaveCreds, Callback, StopRetries, StopLink,
       StopCreds, ClearConnected, Goto, At, Abort
  <2> QED BY <2>1, <2>2, <2>3, SameNews, SameStatus, KeptStatus
<1> QED BY <1>1, <1>2, <1>3, <1>4, <1>5, <1>6 DEF Handles

LEMMA OthersStatusInv ==
  TypeOK /\ StatusInv /\ (LinkChange \/ Press \/ SendOther \/ Monitor \/ ButtonTask \/ HttpServer \/ Reset)
    => StatusInv'
<1> USE DEF taskVars, driverVars, userVars, serverVars, restVars
<1> SUFFICES ASSUME TypeOK, StatusInv,
                    LinkChange \/ Press \/ SendOther \/ Monitor \/ ButtonTask \/ HttpServer \/ Reset
             PROVE  StatusInv'
  OBVIOUS
<1>1. CASE LinkChange
  <2> PICK change \in LinkChanges : notices' = Append(notices, change.notice)
    BY <1>1 DEF LinkChange
  <2>1. change.notice \in Notices
    BY DEF LinkChanges, Notices
  <2> QED BY <1>1, <2>1, PostedNews DEF LinkChange, StatusInv
<1>2. CASE Press \/ ButtonTake \/ ButtonDelayOver \/ RequestConnectInfo
  <2>1. UNCHANGED <<wifiQueue, wifiPc, sta, notices, eventPc, monitorQueue, connectStatus>>
    BY <1>2 DEF Press, ButtonTake, ButtonDelayOver, RequestConnectInfo
  <2> QED BY <2>1, SameNews, SameStatus, KeptStatus
<1>3. CASE Monitor \/ SendOther
  <2>1. UNCHANGED <<wifiQueue, wifiPc, sta, notices, eventPc>>
    BY <1>3 DEF Monitor, SendOther
  <2> QED BY <1>3, <2>1, SameNews, PublishedStatus, OtherStatus, KeptStatus
<1>4. CASE ButtonSend
  <2>1. NoNews' => NoNews
    BY <1>4, OtherSent DEF ButtonSend, WifiMessages, LinkMessages
  <2> QED BY <1>4, <2>1, SameStatus, KeptStatus DEF ButtonSend
<1>5. CASE RequestConnect \/ RequestDisconnect
  <2>1. NoNews' => NoNews
    BY <1>5, OtherSent DEF RequestConnect, RequestDisconnect, Request, WifiMessages, LinkMessages
  <2> QED BY <1>5, <2>1, SameStatus, KeptStatus DEF RequestConnect, RequestDisconnect, Request
<1>6. CASE Reset
  BY <1>6 DEF Reset, StatusInv
<1> QED BY <1>1, <1>2, <1>3, <1>4, <1>5, <1>6 DEF ButtonTask, HttpServer

LEMMA NextStatusInv == TypeOK /\ LinkInv /\ StatusInv /\ [Next]_vars => StatusInv'
<1> SUFFICES ASSUME TypeOK, LinkInv, StatusInv, [Next]_vars PROVE StatusInv'
  OBVIOUS
<1>1. CASE Next
  BY <1>1, EventTaskStatusInv, ReceivesStatusInv, HandlesStatusInv, OthersStatusInv
     DEF Next, WifiTask, PowerCut, PanicReset
<1>2. CASE UNCHANGED vars
  <2>1. UNCHANGED <<wifiQueue, wifiPc, sta, notices, eventPc, monitorQueue, connectStatus>>
    BY <1>2 DEF vars, taskVars, driverVars, serverVars
  <2> QED BY <2>1, SameNews, SameStatus, KeptStatus
<1> QED BY <1>1, <1>2

\* Whatever attempts, losses and requests came before, once nothing is under way a
\* link that is up is published as "success" (http_server_monitor.c:26-47).
THEOREM StatusFollowsLink == Spec => []StatusTracksLink
<1>1. Init => TypeOK /\ LinkInv /\ StatusInv
  BY InitTypeOK, InitLinkInv DEF Init, StatusInv
<1>2. TypeOK /\ LinkInv /\ StatusInv /\ [Next]_vars => (TypeOK /\ LinkInv /\ StatusInv)'
  BY NextTypeOK, NextLinkInv, NextStatusInv
<1>3. StatusInv => StatusTracksLink
  BY EmptyQueues DEF StatusInv, StatusTracksLink, Settled, NoNews, NoLinkMessageFrom, LastIs,
     StatusIs, Others
<1> QED BY <1>1, <1>2, <1>3, PTL DEF Spec

\* Where a step leaves the last status, the request's bit and the task alone, or
\* moves the task between places that say nothing of an attempt.
Silent(pc) == ~(pc \in {"http_set_config", "http_connect", "reset_retry", "send_init",
                        "save_creds", "send_fail", "send_user_disconnect"})

LEMMA KeptAnnounced ==
  ASSUME Announced, LastIs("connecting")' <=> LastIs("connecting"),
         "FROM_HTTP_SERVER" \in eventBits' <=> "FROM_HTTP_SERVER" \in eventBits,
         \/ wifiPc' = wifiPc
         \/ Silent(wifiPc) /\ Silent(wifiPc')
         \/ Announcing /\ Announcing'
  PROVE  Announced'
BY DEF Announced, Announcing, Silent

LEMMA EventTaskProtocol == ProtocolInv /\ EventTask => ProtocolInv'
<1> USE DEF taskVars, driverVars, userVars, serverVars, restVars
<1> SUFFICES ASSUME ProtocolInv, EventTask PROVE ProtocolInv'
  OBVIOUS
<1>1. UNCHANGED <<monitorQueue, connectStatus, eventBits, wifiPc>>
  BY DEF EventTask, Retry, RetryConnect, GiveUp, GotIp, EventSendGotIp, EventSendDisconnected,
     EventSend
<1> QED BY <1>1, SameStatus, KeptAnnounced DEF ProtocolInv

LEMMA ReceivesProtocol == ProtocolInv /\ Receives => ProtocolInv'
<1> USE DEF taskVars, driverVars, userVars, serverVars, restVars
<1> SUFFICES ASSUME ProtocolInv, Receives PROVE ProtocolInv'
  OBVIOUS
<1>1. UNCHANGED <<monitorQueue, connectStatus>> /\ wifiPc = "receive"
  BY DEF Receives, ReceiveLoad, ReceiveStart, ReceiveConnecting, ReceiveGotIp, ReceiveUserRequest,
     ReceiveDisconnected, Receive, At
<1>2. (LastIs("connecting")' <=> LastIs("connecting")) /\ Chained'
  BY <1>1, SameStatus DEF ProtocolInv
<1>3. LastIs("connecting") <=> "FROM_HTTP_SERVER" \in eventBits
  BY <1>1 DEF ProtocolInv, Announced, Announcing
<1>4. Announced'
  <2>1. CASE ReceiveConnecting
    BY <1>2, <2>1 DEF ReceiveConnecting, Announced, Announcing
  <2>2. CASE ReceiveDisconnected
    BY <1>2, <1>3, <2>2 DEF ReceiveDisconnected, DisconnectReason, Announced, Announcing
  <2>3. CASE ReceiveLoad \/ ReceiveStart \/ ReceiveGotIp \/ ReceiveUserRequest
    <3>1. /\ "FROM_HTTP_SERVER" \in eventBits' <=> "FROM_HTTP_SERVER" \in eventBits
          /\ Silent(wifiPc) /\ Silent(wifiPc')
      BY <1>1, <2>3 DEF ReceiveLoad, ReceiveStart, ReceiveGotIp, ReceiveUserRequest, Silent
    <3> QED BY <1>2, <3>1, KeptAnnounced DEF ProtocolInv
  <2> QED BY <2>1, <2>2, <2>3 DEF Receives
<1> QED BY <1>2, <1>4 DEF ProtocolInv

LEMMA HandlesProtocol == TypeOK /\ ProtocolInv /\ Handles => ProtocolInv'
<1> USE DEF taskVars, driverVars, userVars, serverVars, restVars
<1> SUFFICES ASSUME TypeOK, ProtocolInv, Handles PROVE ProtocolInv'
  OBVIOUS
<1>1. CASE SendInit \/ SendSuccess \/ SendFail \/ SendUserDisconnect
  <2>0. UNCHANGED <<eventBits, connectStatus>>
    BY <1>1 DEF SendInit, SendSuccess, SendFail, SendUserDisconnect, TellMonitor
  <2>1. CASE serverUp = "down"
    <3>1. UNCHANGED <<monitorQueue, connectStatus, eventBits, wifiPc>>
      BY <1>1, <2>1 DEF SendInit, SendSuccess, SendFail, SendUserDisconnect, TellMonitor, Abort
    <3> QED BY <3>1, SameStatus, KeptAnnounced DEF ProtocolInv
  <2>2. CASE SendInit /\ serverUp # "down"
    <3>1. /\ wifiPc = "send_init" /\ wifiPc' = "receive"
          /\ monitorQueue' = Append(monitorQueue, "CONNECT_INIT")
      BY <2>2 DEF SendInit, TellMonitor, At
    <3>2. LastIs("connecting")' /\ Chained'
      BY <2>0, <3>1, ToldStatus DEF StatusAfter, Follows, ProtocolInv
    <3> QED BY <2>0, <3>1, <3>2 DEF ProtocolInv, Announced, Announcing
  <2>3. CASE SendSuccess /\ serverUp # "down"
    <3>1. /\ wifiPc = "send_success" /\ wifiPc' = "save_creds"
          /\ monitorQueue' = Append(monitorQueue, "CONNECT_SUCCESS")
      BY <2>3 DEF SendSuccess, TellMonitor, At
    <3>2. ~LastIs("connecting")' /\ Chained'
      BY <2>0, <3>1, ToldStatus DEF StatusAfter, Follows, ProtocolInv
    <3> QED BY <3>1, <3>2 DEF ProtocolInv, Announced, Announcing
  <2>4. CASE SendFail /\ serverUp # "down"
    <3>1. /\ wifiPc = "send_fail" /\ wifiPc' = "clear_connected"
          /\ monitorQueue' = Append(monitorQueue, "CONNECT_FAIL")
      BY <2>4 DEF SendFail, TellMonitor, At
    <3>2. LastIs("connecting")
      BY <3>1 DEF ProtocolInv, Announced
    <3>3. ~LastIs("connecting")' /\ Chained'
      BY <2>0, <3>1, <3>2, ToldStatus DEF StatusAfter, Follows, LastIs, ProtocolInv
    <3> QED BY <2>0, <3>1, <3>3 DEF ProtocolInv, Announced, Announcing
  <2>5. CASE SendUserDisconnect /\ serverUp # "down"
    <3>1. /\ wifiPc = "send_user_disconnect" /\ wifiPc' = "clear_connected"
          /\ monitorQueue' = Append(monitorQueue, "USER_DISCONNECT")
      BY <2>5 DEF SendUserDisconnect, TellMonitor, At
    <3>2. ~LastIs("connecting")
      BY <3>1 DEF ProtocolInv, Announced
    <3>3. ~LastIs("connecting")' /\ Chained'
      BY <2>0, <3>1, <3>2, ToldStatus DEF StatusAfter, Follows, LastIs, ProtocolInv
    <3> QED BY <2>0, <3>1, <3>3 DEF ProtocolInv, Announced, Announcing
  <2> QED BY <1>1, <2>1, <2>2, <2>3, <2>4, <2>5
<1>2. CASE ~(SendInit \/ SendSuccess \/ SendFail \/ SendUserDisconnect)
  <2>1. UNCHANGED <<monitorQueue, connectStatus>>
    BY <1>2 DEF Handles, SendLoad, LoadSetConfig, LoadConnect, SendStart, HttpSetConfig, HttpConnect,
       SetConfig, Connect, ResetRetry, SaveCreds, Callback, StopRetries, StopLink, StopCreds,
       ClearConnected
  <2>2. (LastIs("connecting")' <=> LastIs("connecting")) /\ Chained'
    BY <2>1, SameStatus DEF ProtocolInv
  <2>3. CASE SaveCreds
    BY <2>2, <2>3 DEF SaveCreds, Goto, At, ProtocolInv, Announced, Announcing
  <2>4. CASE ~SaveCreds
    <3>1. /\ "FROM_HTTP_SERVER" \in eventBits' <=> "FROM_HTTP_SERVER" \in eventBits
          /\ \/ wifiPc' = wifiPc
             \/ Silent(wifiPc) /\ Silent(wifiPc')
             \/ Announcing /\ Announcing'
      <4>1. CASE SendLoad \/ SendStart \/ Callback \/ StopRetries \/ StopLink \/ StopCreds
        BY <4>1 DEF SendLoad, SendStart, Callback, StopRetries, StopLink, StopCreds, Goto, At,
           Abort, Silent
      <4>2. CASE LoadSetConfig \/ LoadConnect
        BY <4>2 DEF LoadSetConfig, LoadConnect, SetConfig, Connect, At, Abort, Silent
      <4>3. CASE HttpSetConfig \/ HttpConnect \/ ResetRetry
        BY <4>3 DEF HttpSetConfig, HttpConnect, SetConfig, Connect, ResetRetry, Goto, At, Abort,
           Announcing
      <4>4. CASE ClearConnected
        BY <4>4 DEF ClearConnected, Goto, At, Silent
      <4> QED BY <1>2, <2>4, <4>1, <4>2, <4>3, <4>4 DEF Handles
    <3> QED BY <2>2, <3>1, KeptAnnounced DEF ProtocolInv
  <2> QED BY <2>2, <2>3, <2>4
<1> QED BY <1>1, <1>2

LEMMA OthersProtocol ==
  TypeOK /\ ProtocolInv /\ (LinkChange \/ Press \/ SendOther \/ Monitor \/ ButtonTask \/ HttpServer \/ Reset)
    => ProtocolInv'
<1> USE DEF taskVars, driverVars, userVars, serverVars, restVars
<1> SUFFICES ASSUME TypeOK, ProtocolInv,
                    LinkChange \/ Press \/ SendOther \/ Monitor \/ ButtonTask \/ HttpServer \/ Reset
             PROVE  ProtocolInv'
  OBVIOUS
<1>1. CASE LinkChange \/ Press \/ ButtonTask \/ HttpServer
  <2>1. UNCHANGED <<monitorQueue, connectStatus, eventBits, wifiPc>>
    BY <1>1 DEF LinkChange, Press, ButtonTask, ButtonTake, ButtonSend, ButtonDelayOver, HttpServer,
       RequestConnect, RequestDisconnect, Request, RequestConnectInfo
  <2> QED BY <2>1, SameStatus, KeptAnnounced DEF ProtocolInv
<1>2. CASE Monitor \/ SendOther
  <2>1. UNCHANGED <<eventBits, wifiPc>>
    BY <1>2 DEF Monitor, SendOther
  <2> QED BY <1>2, <2>1, PublishedStatus, OtherStatus, KeptAnnounced DEF ProtocolInv
<1>3. CASE Reset
  BY <1>3, EmptyQueues DEF Reset, ProtocolInv, Chained, Announced, Announcing, LastIs,
     StatusIs, Others
<1> QED BY <1>1, <1>2, <1>3

LEMMA NextProtocol == TypeOK /\ ProtocolInv /\ [Next]_vars => ProtocolInv'
<1> SUFFICES ASSUME TypeOK, ProtocolInv, [Next]_vars PROVE ProtocolInv'
  OBVIOUS
<1>1. CASE Next
  BY <1>1, EventTaskProtocol, ReceivesProtocol, HandlesProtocol, OthersProtocol
     DEF Next, WifiTask, PowerCut, PanicReset
<1>2. CASE UNCHANGED vars
  <2>1. UNCHANGED <<monitorQueue, connectStatus, eventBits, wifiPc>>
    BY <1>2 DEF vars, taskVars, serverVars
  <2> QED BY <2>1, SameStatus, KeptAnnounced DEF ProtocolInv
<1> QED BY <1>1, <1>2

\* Only the monitor and a reset change the published status.
LEMMA StatusChange ==
  ASSUME [Next]_vars, connectStatus' # connectStatus, wifiPc' # "boot"
  PROVE  Monitor
<1> USE DEF taskVars, driverVars, userVars, serverVars, restVars
<1>1. ~Reset /\ Next
  BY DEF Reset, vars
<1>2. ~(LinkChange \/ EventTask \/ Press \/ SendOther \/ ButtonTask \/ HttpServer)
  BY DEF LinkChange, SendOther, EventTask, Retry, RetryConnect, GiveUp, GotIp, EventSendGotIp, EventSendDisconnected,
     EventSend, Press, ButtonTask, ButtonTake, ButtonSend, ButtonDelayOver, HttpServer,
     RequestConnect, RequestDisconnect, Request, RequestConnectInfo
<1>3. ~Receives
  BY DEF Receives, ReceiveLoad, ReceiveStart, ReceiveConnecting, ReceiveGotIp, ReceiveUserRequest,
     ReceiveDisconnected
<1>4. ~Handles
  BY DEF Handles, SendLoad, LoadSetConfig, LoadConnect, SendStart, HttpSetConfig, HttpConnect,
     SetConfig, Connect, ResetRetry, SendInit, SendSuccess, SaveCreds, Callback, StopRetries,
     StopLink, StopCreds, SendFail, SendUserDisconnect, ClearConnected, TellMonitor
<1> QED BY <1>1, <1>2, <1>3, <1>4 DEF Next, WifiTask, PowerCut, PanicReset

\* Every announced attempt is told one outcome, in every schedule: the request's
\* bit and the messages queued for the monitor agree on which attempts are open
\* (wifi_app.c:283-290, 312-315, 352-363).
THEOREM AttemptsAreAnswered == Spec => AttemptProtocol
<1> DEFINE Answered == connectStatus' # connectStatus /\ wifiPc' # "boot" =>
                         /\ connectStatus' = "failed" => connectStatus = "connecting"
                         /\ connectStatus = "connecting" => connectStatus' \in {"success", "failed"}
<1>1. Init => TypeOK /\ ProtocolInv
  BY InitTypeOK, EmptyQueues DEF Init, ProtocolInv, Chained, Announced, Announcing, LastIs,
     StatusIs, Others
<1>2. TypeOK /\ ProtocolInv /\ [Next]_vars => (TypeOK /\ ProtocolInv)'
  BY NextTypeOK, NextProtocol
<1>3. TypeOK /\ ProtocolInv /\ [Next]_vars => [Answered]_vars
  <2> SUFFICES ASSUME TypeOK, ProtocolInv, [Next]_vars, connectStatus' # connectStatus,
                      wifiPc' # "boot"
               PROVE  /\ connectStatus' = "failed" => connectStatus = "connecting"
                      /\ connectStatus = "connecting" => connectStatus' \in {"success", "failed"}
    OBVIOUS
  <2>1. Monitor
    BY StatusChange
  <2>2. /\ Head(monitorQueue) \in MonitorMessages \ {"OTHER"}
        /\ connectStatus' = StatusAfter[Head(monitorQueue)]
    BY <2>1, TailOfQueue DEF Monitor, TypeOK
  <2>3. /\ Head(monitorQueue) = "CONNECT_FAIL" => connectStatus = "connecting"
        /\ Head(monitorQueue) = "USER_DISCONNECT" => connectStatus # "connecting"
    BY <2>1, PublishedStatus DEF ProtocolInv
  <2> QED BY <2>2, <2>3 DEF MonitorMessages, StatusAfter
<1> QED BY <1>1, <1>2, <1>3, PTL DEF Spec, AttemptProtocol

-----------------------------------------------------------------------------
(***************************************************************************)
(* Start-up, for every queue depth of at least two: as long as the radio   *)
(* and the button's debounce delay are slower than boot, wifi_app_task     *)
(* finds room in its own queue and the monitor's queue is there before the *)
(* first message for it.                                                   *)
(*                                                                         *)
(* The argument is that only the button can send before START_HTTP_SERVER, *)
(* and only once, and that START_HTTP_SERVER then stands before everything *)
(* but disconnect requests, which have no effect before a connection.      *)
(***************************************************************************)

BootPcs == {"boot", "load_set_config", "load_connect", "send_start"}
EarlyMessages == {"LOAD_SAVED_CREDENTIALS", "USER_REQUESTED_STA_DISCONNECT"}

LoadsQueued == IF \E i \in 1..Len(wifiQueue) : LoadQueued(i) THEN 1 ELSE 0
Debouncing == IF buttonPc = "delay" THEN 1 ELSE 0

\* Until START_HTTP_SERVER is sent the queue holds the load and one press at most.
BootQueue ==
  Booting =>
    /\ notices = <<>> /\ eventPc = "idle" /\ serverUp = "down" /\ "GOT_IP" \notin eventBits
    /\ Len(wifiQueue) <= LoadsQueued + Debouncing
    /\ \A i \in 1..Len(wifiQueue) : wifiQueue[i] \in EarlyMessages

\* From then on, until it is handled, only disconnect requests stand before it.
StartAt(k) ==
  /\ wifiQueue[k] = "START_HTTP_SERVER"
  /\ \A i \in 1..(k - 1) : wifiQueue[i] = "USER_REQUESTED_STA_DISCONNECT"

StartAhead ==
  ~Booting /\ serverUp = "down" =>
    /\ wifiPc = "receive" /\ "GOT_IP" \notin eventBits
    /\ \E k \in 1..Len(wifiQueue) : StartAt(k)

StartInv == BootQueue /\ StartAhead /\ MonitorQueueReady

Inv == TypeOK /\ StopInv /\ StartInv

USE DEF taskVars, driverVars, userVars, serverVars, restVars

-----------------------------------------------------------------------------
(* What a step on the queue does to both parts *)

LEMMA BootingIs == Booting <=> wifiPc \in BootPcs \/ \E i \in 1..Len(wifiQueue) : LoadQueued(i)
BY DEF Booting, BootPcs, LoadQueued

\* Sending anything but the load neither begins nor ends the boot by itself.
LEMMA SendKeepsBooting ==
  ASSUME TypeOK, NEW msg \in WifiMessages \ {"LOAD_SAVED_CREDENTIALS"}, SendWifi(msg),
         UNCHANGED wifiPc
  PROVE  Booting' <=> Booting
<1>1. /\ Len(wifiQueue) \in Nat /\ Len(wifiQueue') = Len(wifiQueue) + 1
      /\ \A i \in 1..Len(wifiQueue) : wifiQueue'[i] = wifiQueue[i]
      /\ wifiQueue'[Len(wifiQueue) + 1] = msg
  BY SendPlaces
<1>2. \A i \in 1..Len(wifiQueue') : LoadQueued(i)' => i \in 1..Len(wifiQueue) /\ LoadQueued(i)
  BY <1>1 DEF LoadQueued
<1>3. \A i \in 1..Len(wifiQueue) : LoadQueued(i) => i \in 1..Len(wifiQueue') /\ LoadQueued(i)'
  BY <1>1 DEF LoadQueued
<1> QED BY <1>2, <1>3, BootingIs DEF Booting, LoadQueued

LEMMA SendKeepsStart ==
  ASSUME TypeOK, NEW msg \in WifiMessages, SendWifi(msg),
         \E k \in 1..Len(wifiQueue) : StartAt(k)
  PROVE  \E k \in 1..Len(wifiQueue') : StartAt(k)'
<1>1. PICK k \in 1..Len(wifiQueue) : StartAt(k)
  OBVIOUS
<1>2. k \in 1..Len(wifiQueue') /\ StartAt(k)'
  BY <1>1, SendPlaces DEF StartAt
<1> QED BY <1>2

\* Behind disconnect requests START_HTTP_SERVER moves up until it is received.
LEMMA ReceiveKeepsStart ==
  ASSUME TypeOK, NEW msg, Receive(msg), \E k \in 1..Len(wifiQueue) : StartAt(k)
  PROVE  /\ msg \in {"START_HTTP_SERVER", "USER_REQUESTED_STA_DISCONNECT"}
         /\ msg # "START_HTTP_SERVER" => \E k \in 1..Len(wifiQueue') : StartAt(k)'
<1>1. PICK k \in 1..Len(wifiQueue) : StartAt(k)
  OBVIOUS
<1>2. /\ Len(wifiQueue) \in Nat \ {0} /\ Len(wifiQueue') = Len(wifiQueue) - 1
      /\ \A i \in 1..Len(wifiQueue') : wifiQueue'[i] = wifiQueue[i + 1]
      /\ wifiQueue[1] = msg
  BY ReceivePlaces
<1>3. CASE k = 1
  BY <1>1, <1>2, <1>3 DEF StartAt
<1>4. CASE k > 1
  <2>1. msg = "USER_REQUESTED_STA_DISCONNECT"
    BY <1>1, <1>2, <1>4 DEF StartAt
  <2>2. k - 1 \in 1..Len(wifiQueue') /\ StartAt(k - 1)'
    BY <1>1, <1>2, <1>4 DEF StartAt
  <2> QED BY <2>1, <2>2
<1> QED BY <1>3, <1>4

\* A step that leaves the task, its queue and the start of the server alone.
LEMMA SameStart ==
  ASSUME UNCHANGED <<wifiQueue, wifiPc, eventBits, serverUp>>
  PROVE  /\ Booting' <=> Booting
         /\ StartAhead => StartAhead'
         /\ LoadsQueued' = LoadsQueued
BY DEF Booting, StartAhead, StartAt, LoadsQueued, LoadQueued

-----------------------------------------------------------------------------
(* Steps of the other tasks *)

LEMMA StartInit == Init => StartInv
<1> SUFFICES ASSUME Init PROVE StartInv
  OBVIOUS
<1>1. Len(wifiQueue) = 0
  BY EmptyQueues DEF Init
<1> QED
  BY <1>1 DEF Init, StartInv, BootQueue, StartAhead, MonitorQueueReady, Booting, LoadsQueued,
     Debouncing

LEMMA StartOthers ==
  ASSUME TimedBoot, Inv,
         LinkChange \/ EventTask \/ Press \/ SendOther \/ Monitor \/ ButtonTask \/ HttpServer \/ Reset
  PROVE  StartInv'
<1> USE DEF Inv
<1>1. CASE LinkChange
  <2>1. ~Booting /\ UNCHANGED <<wifiQueue, wifiPc, eventBits, serverUp, fault>>
    BY <1>1 DEF LinkChange
  <2> QED BY <2>1, SameStart DEF StartInv, BootQueue, MonitorQueueReady
<1>2. CASE Retry \/ RetryConnect \/ GiveUp \/ GotIp
  <2>1. ~Booting /\ UNCHANGED <<wifiQueue, wifiPc, eventBits, serverUp, fault>>
    BY <1>2 DEF Retry, RetryConnect, GiveUp, GotIp, TakeNotice, StartInv, BootQueue
  <2> QED BY <2>1, SameStart DEF StartInv, BootQueue, MonitorQueueReady
<1>3. CASE EventSendGotIp \/ EventSendDisconnected
  <2>1. PICK msg \in {"STA_CONNECTED_GOT_IP", "STA_DISCONNECTED"} : SendWifi(msg)
    BY <1>3 DEF EventSendGotIp, EventSendDisconnected, EventSend
  <2>2. ~Booting /\ UNCHANGED <<wifiPc, eventBits, serverUp, fault>>
    BY <1>3 DEF EventSendGotIp, EventSendDisconnected, EventSend, StartInv, BootQueue
  <2>3. ~Booting'
    BY <2>1, <2>2, SendKeepsBooting DEF WifiMessages
  <2> QED
    BY <2>1, <2>2, <2>3, SendKeepsStart
       DEF StartInv, BootQueue, StartAhead, MonitorQueueReady, WifiMessages
<1>4. CASE Press \/ SendOther \/ Monitor \/ ButtonTake \/ RequestConnectInfo
  <2>1. UNCHANGED <<wifiQueue, wifiPc, eventBits, serverUp, notices, eventPc>>
    BY <1>4 DEF Press, SendOther, Monitor, ButtonTake, RequestConnectInfo
  <2>2. Debouncing' = Debouncing /\ (fault' = fault \/ fault' = "ap_info")
    BY <1>4 DEF Press, SendOther, Monitor, ButtonTake, RequestConnectInfo, Debouncing
  <2> QED BY <2>1, <2>2, SameStart DEF StartInv, BootQueue, MonitorQueueReady
<1>5. CASE ButtonDelayOver
  <2>1. ~Booting /\ UNCHANGED <<wifiQueue, wifiPc, eventBits, serverUp, fault>>
    BY <1>5 DEF ButtonDelayOver
  <2> QED BY <2>1, SameStart DEF StartInv, BootQueue, MonitorQueueReady
<1>6. CASE ButtonSend
  <2>1. /\ SendWifi("USER_REQUESTED_STA_DISCONNECT") /\ buttonPc = "send" /\ buttonPc' = "delay"
        /\ UNCHANGED <<wifiPc, eventBits, serverUp, notices, eventPc, fault>>
    BY <1>6 DEF ButtonSend
  <2>2. /\ Len(wifiQueue) \in Nat /\ Len(wifiQueue') = Len(wifiQueue) + 1
        /\ \A i \in 1..Len(wifiQueue) : wifiQueue'[i] = wifiQueue[i]
        /\ wifiQueue'[Len(wifiQueue) + 1] = "USER_REQUESTED_STA_DISCONNECT"
    BY <2>1, SendPlaces DEF WifiMessages
  <2>3. Booting' <=> Booting
    BY <2>1, SendKeepsBooting DEF WifiMessages
  <2>4. BootQueue'
    <3>1. Debouncing = 0 /\ Debouncing' = 1
      BY <2>1 DEF Debouncing
    <3>2. LoadsQueued \in {0, 1} /\ LoadsQueued' \in {0, 1} /\ LoadsQueued' >= LoadsQueued
      BY <2>2 DEF LoadsQueued, LoadQueued
    <3>3. Booting' => Len(wifiQueue') <= LoadsQueued' + Debouncing'
      BY <2>2, <2>3, <3>1, <3>2 DEF StartInv, BootQueue
    <3>4. Booting' => \A i \in 1..Len(wifiQueue') : wifiQueue'[i] \in EarlyMessages
      BY <2>2, <2>3 DEF StartInv, BootQueue, EarlyMessages
    <3> QED BY <2>1, <2>3, <3>3, <3>4 DEF StartInv, BootQueue
  <2>5. StartAhead'
    BY <2>1, <2>3, SendKeepsStart DEF StartInv, StartAhead, WifiMessages
  <2> QED BY <2>1, <2>4, <2>5 DEF StartInv, MonitorQueueReady
<1>7. CASE RequestConnect \/ RequestDisconnect
  <2>1. PICK msg \in {"CONNECTING_FROM_HTTP_SERVER", "USER_REQUESTED_STA_DISCONNECT"} : SendWifi(msg)
    BY <1>7 DEF RequestConnect, RequestDisconnect, Request
  <2>2. serverUp = "up" /\ UNCHANGED <<wifiPc, serverUp, fault>>
    BY <1>7 DEF RequestConnect, RequestDisconnect, Request
  <2>3. ~Booting'
    BY <2>1, <2>2, SendKeepsBooting DEF StartInv, BootQueue, WifiMessages
  <2> QED BY <2>2, <2>3 DEF StartInv, BootQueue, StartAhead, MonitorQueueReady
<1>8. CASE Reset
  <2>1. Len(wifiQueue') = 0
    BY <1>8, EmptyQueues DEF Reset
  <2> QED
    BY <1>8, <2>1 DEF Reset, StartInv, BootQueue, StartAhead, MonitorQueueReady, Booting,
       LoadsQueued, Debouncing
<1> QED
  BY <1>1, <1>2, <1>3, <1>4, <1>5, <1>6, <1>7, <1>8 DEF EventTask, ButtonTask, HttpServer

-----------------------------------------------------------------------------
(* Steps of wifi_app_task *)

LEMMA StartReceives ==
  ASSUME Inv, Receives
  PROVE  StartInv'
<1> USE DEF Inv
<1>1. PICK msg \in WifiMessages : Receive(msg)
  BY DEF Receives, ReceiveLoad, ReceiveStart, ReceiveConnecting, ReceiveGotIp, ReceiveUserRequest,
         ReceiveDisconnected, WifiMessages
<1>2. /\ Len(wifiQueue) \in Nat \ {0} /\ Len(wifiQueue') = Len(wifiQueue) - 1
      /\ \A i \in 1..Len(wifiQueue') : wifiQueue'[i] = wifiQueue[i + 1]
      /\ wifiQueue[1] = msg /\ 1 \in 1..Len(wifiQueue)
  BY <1>1, ReceivePlaces
<1>3. LoadsQueued \in {0, 1} /\ LoadsQueued' \in {0, 1} /\ Debouncing \in {0, 1}
  BY DEF LoadsQueued, Debouncing
<1>4. Booting => /\ Len(wifiQueue') <= Debouncing
                 /\ \A i \in 1..Len(wifiQueue') : wifiQueue'[i] \in EarlyMessages
  BY <1>2, <1>3 DEF StartInv, BootQueue
<1>5. wifiPc = "receive" /\ UNCHANGED <<notices, eventPc, buttonPc, fault>>
  BY DEF Receives, ReceiveLoad, ReceiveStart, ReceiveConnecting, ReceiveGotIp, ReceiveUserRequest,
         ReceiveDisconnected, Receive, At
<1>6. CASE ReceiveLoad
  <2>1. Booting /\ Booting'
    BY <1>6, <1>2, <1>1 DEF ReceiveLoad, Receive, Booting
  <2>2. UNCHANGED serverUp /\ ("GOT_IP" \in eventBits' => "GOT_IP" \in eventBits)
    BY <1>6 DEF ReceiveLoad
  <2>3. Debouncing' = Debouncing
    BY <1>5 DEF Debouncing
  <2>4. Len(wifiQueue') <= LoadsQueued' + Debouncing'
    BY <1>2, <1>3, <1>4, <2>1, <2>3
  <2> QED
    BY <1>4, <1>5, <2>1, <2>2, <2>4 DEF StartInv, BootQueue, StartAhead, MonitorQueueReady
<1>7. CASE ReceiveUserRequest
  <2>1. msg = "USER_REQUESTED_STA_DISCONNECT" /\ UNCHANGED serverUp
    BY <1>1, <1>7 DEF ReceiveUserRequest, Receive
  <2>2. CASE Booting
    <3>1. UNCHANGED <<wifiPc, eventBits>> /\ "GOT_IP" \notin eventBits
      BY <1>7, <2>2 DEF ReceiveUserRequest, StartInv, BootQueue
    <3>2. Booting'
      <4>1. PICK i \in 1..Len(wifiQueue) : LoadQueued(i)
        BY <1>5, <2>2, BootingIs DEF BootPcs
      <4>2. i # 1
        BY <1>2, <2>1, <4>1 DEF LoadQueued
      <4>3. i - 1 \in 1..Len(wifiQueue') /\ wifiQueue'[i - 1] = "LOAD_SAVED_CREDENTIALS"
        BY <1>2, <4>1, <4>2 DEF LoadQueued
      <4> QED BY <4>3 DEF Booting
    <3>3. Debouncing' = Debouncing
      BY <1>5 DEF Debouncing
    <3>4. Len(wifiQueue') <= LoadsQueued' + Debouncing'
      BY <1>2, <1>3, <1>4, <2>2, <3>3
    <3> QED
      BY <1>4, <1>5, <2>1, <2>2, <3>1, <3>2, <3>4
         DEF StartInv, BootQueue, StartAhead, MonitorQueueReady
  <2>3. CASE ~Booting
    <3>1. ~Booting'
      BY <1>2, <1>7, <2>3 DEF ReceiveUserRequest, Booting
    <3>2. serverUp = "down" => /\ UNCHANGED <<wifiPc, eventBits>>
                               /\ \E k \in 1..Len(wifiQueue') : StartAt(k)'
      BY <1>1, <1>7, <2>1, <2>3, ReceiveKeepsStart DEF ReceiveUserRequest, StartInv, StartAhead
    <3> QED
      BY <1>5, <2>1, <2>3, <3>1, <3>2 DEF StartInv, BootQueue, StartAhead, MonitorQueueReady
  <2> QED BY <2>2, <2>3
<1>8. CASE ReceiveStart \/ ReceiveConnecting \/ ReceiveGotIp \/ ReceiveDisconnected
  <2>1. msg \notin EarlyMessages
    BY <1>1, <1>8 DEF ReceiveStart, ReceiveConnecting, ReceiveGotIp, ReceiveDisconnected, Receive,
       EarlyMessages
  <2>2. ~Booting
    BY <1>2, <2>1 DEF StartInv, BootQueue
  <2>3. wifiPc' \notin BootPcs
    BY <1>5, <1>8 DEF ReceiveStart, ReceiveConnecting, ReceiveGotIp, ReceiveDisconnected,
       DisconnectReason, BootPcs
  <2>4. ~Booting'
    BY <1>2, <2>2, <2>3, BootingIs DEF Booting, BootPcs
  <2>5. serverUp' # "down"
    <3>1. CASE ReceiveStart
      BY <3>1 DEF ReceiveStart, TypeOK
    <3>2. CASE ReceiveConnecting \/ ReceiveGotIp \/ ReceiveDisconnected
      <4>1. msg # "START_HTTP_SERVER" /\ UNCHANGED serverUp
        BY <1>1, <3>2 DEF ReceiveConnecting, ReceiveGotIp, ReceiveDisconnected, Receive
      <4> QED
        BY <1>1, <2>1, <2>2, <4>1, ReceiveKeepsStart DEF StartInv, StartAhead, EarlyMessages
    <3> QED BY <1>8, <3>1, <3>2
  <2> QED BY <1>5, <2>4, <2>5 DEF StartInv, BootQueue, StartAhead, MonitorQueueReady
<1> QED BY <1>6, <1>7, <1>8 DEF Receives

LEMMA StartHandles ==
  ASSUME Inv, Handles
  PROVE  StartInv'
<1> USE DEF Inv
<1>1. CASE SendLoad
  <2>1. /\ SendWifi("LOAD_SAVED_CREDENTIALS") /\ wifiPc = "boot" /\ wifiPc' = "receive"
        /\ UNCHANGED <<notices, eventPc, serverUp, eventBits, buttonPc, fault>>
    BY <1>1 DEF SendLoad, Goto, At
  <2>2. /\ Len(wifiQueue) \in Nat /\ Len(wifiQueue') = Len(wifiQueue) + 1
        /\ \A i \in 1..Len(wifiQueue) : wifiQueue'[i] = wifiQueue[i]
        /\ wifiQueue'[Len(wifiQueue) + 1] = "LOAD_SAVED_CREDENTIALS"
    BY <2>1, SendPlaces DEF WifiMessages
  <2>3. LoadsQueued = 0
    BY <2>1 DEF StopInv, LoadOnce, LoadsQueued
  <2>4. LoadsQueued' = 1 /\ Booting'
    BY <2>2 DEF LoadsQueued, LoadQueued, Booting
  <2>5. Booting
    BY <2>1 DEF Booting
  <2>6. Debouncing \in {0, 1} /\ Debouncing' = Debouncing
    BY <2>1 DEF Debouncing
  <2>7. Len(wifiQueue') <= LoadsQueued' + Debouncing'
    BY <2>2, <2>3, <2>4, <2>5, <2>6 DEF StartInv, BootQueue
  <2>8. \A i \in 1..Len(wifiQueue') : wifiQueue'[i] \in EarlyMessages
    BY <2>2, <2>5 DEF StartInv, BootQueue, EarlyMessages
  <2> QED
    BY <2>1, <2>4, <2>5, <2>7, <2>8 DEF StartInv, BootQueue, StartAhead, MonitorQueueReady
<1>2. CASE LoadSetConfig \/ LoadConnect
  <2>1. /\ wifiPc \in {"load_set_config", "load_connect"}
        /\ wifiPc' \in {"load_set_config", "load_connect", "send_start"}
        /\ fault' \in {fault, "set_config", "connect"}
        /\ UNCHANGED <<wifiQueue, notices, eventPc, serverUp, eventBits, buttonPc>>
    BY <1>2 DEF LoadSetConfig, LoadConnect, SetConfig, Connect, At, Abort
  <2>2. Booting /\ Booting'
    BY <2>1 DEF Booting
  <2>3. LoadsQueued' = LoadsQueued /\ Debouncing' = Debouncing
    BY <2>1 DEF LoadsQueued, LoadQueued, Debouncing
  <2> QED BY <2>1, <2>2, <2>3 DEF StartInv, BootQueue, StartAhead, MonitorQueueReady
<1>3. CASE SendStart
  <2>1. /\ SendWifi("START_HTTP_SERVER") /\ wifiPc = "send_start" /\ wifiPc' = "receive"
        /\ UNCHANGED <<serverUp, eventBits, fault>>
    BY <1>3 DEF SendStart, Goto, At
  <2>2. /\ Len(wifiQueue) \in Nat /\ Len(wifiQueue') = Len(wifiQueue) + 1
        /\ \A i \in 1..Len(wifiQueue) : wifiQueue'[i] = wifiQueue[i]
        /\ wifiQueue'[Len(wifiQueue) + 1] = "START_HTTP_SERVER"
    BY <2>1, SendPlaces DEF WifiMessages
  <2>3. Booting
    BY <2>1 DEF Booting
  <2>4. \A i \in 1..Len(wifiQueue) : wifiQueue[i] = "USER_REQUESTED_STA_DISCONNECT"
    BY <2>1, <2>3 DEF StopInv, LoadComesFirst, LoadPending, LoadQueued, StartInv, BootQueue,
       EarlyMessages
  <2>5. \E k \in 1..Len(wifiQueue') : StartAt(k)'
    <3>1. Len(wifiQueue') \in 1..Len(wifiQueue') /\ StartAt(Len(wifiQueue))'
      BY <2>2, <2>4 DEF StartAt
    <3> QED BY <3>1
  <2>6. ~Booting'
    BY <2>1, <2>2, <2>4 DEF Booting
  <2> QED
    BY <2>1, <2>3, <2>5, <2>6 DEF StartInv, BootQueue, StartAhead, MonitorQueueReady
<1>4. CASE Handles /\ ~SendLoad /\ ~LoadSetConfig /\ ~LoadConnect /\ ~SendStart
  <2>1. /\ wifiPc \notin BootPcs \union {"receive"} /\ wifiPc' \notin BootPcs
        /\ UNCHANGED <<wifiQueue, serverUp>>
    BY <1>4 DEF Handles, HttpSetConfig, HttpConnect, SetConfig, Connect, ResetRetry, SendInit,
       SendSuccess, SaveCreds, Callback, StopRetries, StopLink, StopCreds, SendFail,
       SendUserDisconnect, ClearConnected, TellMonitor, Goto, At, Abort, BootPcs
  <2>2. ~Booting /\ ~Booting'
    BY <2>1 DEF StopInv, LoadComesFirst, LoadPending, LoadQueued, Booting, BootPcs
  <2>3. serverUp # "down"
    BY <2>1, <2>2 DEF StartInv, StartAhead
  <2>4. fault' \in {fault, "set_config", "connect", "callback"}
    BY <1>4, <2>3 DEF Handles, HttpSetConfig, HttpConnect, SetConfig, Connect, ResetRetry,
       SendInit, SendSuccess, SaveCreds, Callback, StopRetries, StopLink, StopCreds, SendFail,
       SendUserDisconnect, ClearConnected, TellMonitor, Goto, At, Abort
  <2> QED
    BY <2>1, <2>2, <2>3, <2>4 DEF StartInv, BootQueue, StartAhead, MonitorQueueReady
<1> QED BY <1>1, <1>2, <1>3, <1>4

LEMMA StartNext == TimedBoot /\ Inv /\ [Next]_vars => Inv'
<1> SUFFICES ASSUME TimedBoot, Inv, [Next]_vars PROVE Inv'
  OBVIOUS
<1>1. TypeOK' /\ StopInv'
  BY NextTypeOK, NextStopInv DEF Inv
<1>2. CASE Next
  <2>1. StartInv'
    BY <1>2, StartOthers, StartReceives, StartHandles DEF Next, WifiTask, PowerCut, PanicReset
  <2> QED BY <1>1, <2>1 DEF Inv
<1>3. CASE UNCHANGED vars
  <2>1. UNCHANGED <<wifiQueue, wifiPc, eventBits, serverUp, fault, notices, eventPc, buttonPc>>
    BY <1>3 DEF vars
  <2>2. Debouncing' = Debouncing
    BY <2>1 DEF Debouncing
  <2> QED BY <1>1, <2>1, <2>2, SameStart DEF Inv, StartInv, BootQueue, MonitorQueueReady
<1> QED BY <1>2, <1>3

-----------------------------------------------------------------------------
(* What follows *)

LEMMA RoomToBoot == Inv => NoSelfDeadlock
<1> SUFFICES ASSUME Inv, wifiPc \in {"boot", "send_start"} PROVE HasRoom(wifiQueue)
  BY DEF NoSelfDeadlock
<1>1. Booting
  BY DEF Booting
<1>2. LoadsQueued = 0
  BY DEF Inv, StopInv, LoadOnce, LoadComesFirst, LoadPending, LoadsQueued
<1>3. Len(wifiQueue) \in Nat /\ Len(wifiQueue) <= 1
  BY <1>1, <1>2, LenProperties DEF Inv, TypeOK, StartInv, BootQueue, Debouncing
<1> QED BY <1>3, QueueLengthAssumption DEF HasRoom

\* With a queue of at least two places wifi_app_task never waits for itself: when it
\* sends the load and START_HTTP_SERVER to its own queue there is room, whatever the
\* button does (wifi_app.c:244, 271).
THEOREM StartNeverBlocks == ASSUME TimedBoot PROVE Spec => []NoSelfDeadlock
<1>1. Init => Inv
  BY InitTypeOK, InitStopInv, StartInit DEF Inv
<1>2. Inv /\ [Next]_vars => Inv'
  BY StartNext
<1>3. Inv => NoSelfDeadlock
  BY RoomToBoot
<1> QED BY <1>1, <1>2, <1>3, PTL DEF Spec

\* wifi_app_task never hands the monitor a message before http_server_start has made
\* the monitor's queue, although a press may be queued before START_HTTP_SERVER
\* (wifi_app.c:271-276, 326, http_server.c:50).
THEOREM MonitorQueueComesFirst == ASSUME TimedBoot PROVE Spec => []MonitorQueueReady
<1>1. Init => Inv
  BY InitTypeOK, InitStopInv, StartInit DEF Inv
<1>2. Inv /\ [Next]_vars => Inv'
  BY StartNext
<1>3. Inv => MonitorQueueReady
  BY DEF Inv, StartInv
<1> QED BY <1>1, <1>2, <1>3, PTL DEF Spec
==============================================================================
