---------------------------- MODULE StaCredsProofs ---------------------------
(***************************************************************************)
(* What TLAPS proves of StaCreds for every number of requests and every    *)
(* depth of the queue.                                                     *)
(***************************************************************************)
EXTENDS StaCreds, TLAPS, SequenceTheorems

-----------------------------------------------------------------------------
(* Queues *)

InQueue(q, msg) == \E i \in 1..Len(q) : q[i] = msg
AtMostOnce(q, msg) == \A i, j \in 1..Len(q) : q[i] = msg /\ q[j] = msg => i = j

\* What is behind the head was in the queue, and the head was.
LEMMA TailOfQueue ==
  ASSUME NEW S, NEW q \in Seq(S), q # <<>>, NEW msg
  PROVE  /\ Tail(q) \in Seq(S) /\ Len(Tail(q)) = Len(q) - 1
         /\ InQueue(Tail(q), msg) => InQueue(q, msg)
         /\ Head(q) = msg => InQueue(q, msg)
         /\ AtMostOnce(q, msg) => AtMostOnce(Tail(q), msg)
         /\ AtMostOnce(q, msg) /\ Head(q) = msg => ~InQueue(Tail(q), msg)
<1>1. /\ Tail(q) \in Seq(S) /\ Len(Tail(q)) = Len(q) - 1 /\ Len(q) \in Nat \ {0}
      /\ Head(q) = q[1]
  BY HeadTailProperties, EmptySeq, LenProperties
<1>2. \A i \in 1..Len(Tail(q)) : Tail(q)[i] = q[i+1] /\ i+1 \in 1..Len(q)
  BY <1>1, HeadTailProperties
<1> QED BY <1>1, <1>2 DEF InQueue, AtMostOnce

\* A longer queue holds what it held and the message that was sent.
LEMMA AppendToQueue ==
  ASSUME NEW S, NEW q \in Seq(S), NEW new \in S, NEW msg
  PROVE  /\ Append(q, new) \in Seq(S) /\ Len(Append(q, new)) = Len(q) + 1
         /\ InQueue(Append(q, new), msg) => InQueue(q, msg) \/ new = msg
         /\ AtMostOnce(q, msg) /\ ~(new = msg /\ InQueue(q, msg)) => AtMostOnce(Append(q, new), msg)
<1>1. /\ Append(q, new) \in Seq(S) /\ Len(Append(q, new)) = Len(q) + 1 /\ Len(q) \in Nat
      /\ \A i \in 1..Len(q) : Append(q, new)[i] = q[i]
      /\ Append(q, new)[Len(q) + 1] = new
  BY AppendProperties, LenProperties
<1> QED BY <1>1 DEF InQueue, AtMostOnce

LEMMA EmptyQueue ==
  /\ <<>> \in Seq(Messages) /\ Len(<<>>) = 0
  /\ \A msg : ~InQueue(<<>>, msg) /\ AtMostOnce(<<>>, msg)
BY EmptySeq DEF InQueue, AtMostOnce

-----------------------------------------------------------------------------
(* Types *)

LEMMA SentType ==
  ASSUME TypeOK, NEW msg \in Messages, Send(msg)
  PROVE  queue' \in Seq(Messages) /\ Len(queue') <= QueueLength
BY AppendToQueue, LenProperties, QueueLengthAssumption DEF TypeOK, Send, HasRoom

LEMMA ReceivedType ==
  ASSUME TypeOK, NEW msg, Receive(msg)
  PROVE  queue' \in Seq(Messages) /\ Len(queue') <= QueueLength
BY TailOfQueue, LenProperties, QueueLengthAssumption DEF TypeOK, Receive

LEMMA TypeInit == Init => TypeOK
<1> SUFFICES ASSUME Init PROVE TypeOK
  OBVIOUS
<1>1. queue \in Seq(Messages) /\ Len(queue) <= QueueLength
  BY EmptyQueue, QueueLengthAssumption DEF Init
<1>2. NoCreds \in Creds /\ 0 \in 0..MaxRequests
  BY MaxRequestsAssumption DEF NoCreds, Creds, Numbers, Missing
<1> QED BY <1>1, <1>2 DEF Init, TypeOK, WifiPcs

LEMMA TypeRestart ==
  ASSUME TypeOK, Restart
  PROVE  TypeOK'
<1>1. queue' \in Seq(Messages) /\ Len(queue') <= QueueLength
  BY EmptyQueue, QueueLengthAssumption DEF Restart
<1>2. PICK ssid \in {stored.ssid, durable.ssid}, password \in {stored.password, durable.password} :
        stored' = [ssid |-> ssid, password |-> password]
  BY DEF Restart
<1>3. stored' \in Creds /\ NoCreds \in Creds
  BY <1>2, MaxRequestsAssumption DEF TypeOK, Creds, NoCreds, Numbers, Missing
<1> QED BY <1>1, <1>3 DEF Restart, TypeOK, WifiPcs

LEMMA TypeHttp ==
  ASSUME TypeOK, Request \/ CopySsid \/ CopyPassword \/ Announce \/ RequestStop
  PROVE  TypeOK'
<1> USE DEF taskVars, driverVars, nvsVars
<1>1. CASE Request
  <2>1. NoCreds \in Creds
    BY MaxRequestsAssumption DEF Creds, NoCreds, Numbers, Missing
  <2> QED BY <1>1, <2>1, MaxRequestsAssumption DEF TypeOK, Request
<1>2. ASSUME NEW key \in {"ssid", "password"}, NEW from, NEW to \in {"password", "send"},
             Copy(from, to, key)
      PROVE  TypeOK'
  <2>1. requests \in Numbers
    BY MaxRequestsAssumption DEF TypeOK, Numbers, Missing
  <2>2. config' \in Creds
    BY <1>2, <2>1 DEF TypeOK, Copy, Creds
  <2> QED BY <1>2, <2>2 DEF TypeOK, Copy
<1>3. CASE Announce
  <2>1. queue' \in Seq(Messages) /\ Len(queue') <= QueueLength
    BY <1>3, SentType DEF Announce, Messages
  <2> QED BY <1>3, <2>1 DEF TypeOK, Announce
<1>4. CASE RequestStop
  <2>1. queue' \in Seq(Messages) /\ Len(queue') <= QueueLength
    BY <1>4, SentType DEF RequestStop, Messages
  <2> QED BY <1>4, <2>1 DEF TypeOK, RequestStop, httpVars
<1> QED BY <1>1, <1>2, <1>3, <1>4 DEF CopySsid, CopyPassword

LEMMA TypeTask ==
  ASSUME TypeOK, Load \/ LoadSetConfig \/ HttpSetConfig \/ Receives
  PROVE  TypeOK'
<1> USE DEF httpVars, driverVars, nvsVars
<1>1. CASE Load
  <2>1. NoCreds \in Creds /\ [stored EXCEPT !.password = Missing] \in Creds
    BY MaxRequestsAssumption DEF TypeOK, Creds, NoCreds, Numbers, Missing
  <2>2. config' \in Creds
    BY <1>1, <2>1 DEF TypeOK, Load
  <2>3. usingSaved' \in BOOLEAN /\ wifiPc' \in WifiPcs
    BY <1>1 DEF TypeOK, Load, IsComplete, WifiPcs
  <2> QED BY <1>1, <2>2, <2>3 DEF TypeOK, Load
<1>2. CASE LoadSetConfig \/ HttpSetConfig
  BY <1>2 DEF TypeOK, LoadSetConfig, HttpSetConfig, SetConfig, WifiPcs
<1>3. CASE Receives
  <2>1. queue' \in Seq(Messages) /\ Len(queue') <= QueueLength
    BY <1>3, ReceivedType DEF Receives, ReceiveConnect, ReceiveGotIp, ReceiveStop, ReceiveDisconnected
  <2>2. wifiPc' \in WifiPcs /\ usingSaved' \in BOOLEAN
    BY <1>3 DEF TypeOK, Receives, ReceiveConnect, ReceiveGotIp, ReceiveStop, ReceiveDisconnected, WifiPcs
  <2>3. link' \in {"none", "trying", "up", "leaving"}
    BY <1>3 DEF TypeOK, Receives, ReceiveConnect, ReceiveGotIp, ReceiveStop, ReceiveDisconnected
  <2>4. UNCHANGED <<config, patient, requests, httpPc, driver, network, stored, durable, kept, saves, up>>
    BY <1>3 DEF Receives, ReceiveConnect, ReceiveGotIp, ReceiveStop, ReceiveDisconnected
  <2> QED BY <2>1, <2>2, <2>3, <2>4 DEF TypeOK
<1> QED BY <1>1, <1>2, <1>3

LEMMA TypeNvs ==
  ASSUME TypeOK, Nvs
  PROVE  TypeOK'
<1> USE DEF httpVars, driverVars
<1>1. NoCreds \in Creds
  BY MaxRequestsAssumption DEF Creds, NoCreds, Numbers, Missing
<1>2. ASSUME NEW key \in {"ssid", "password"}, NEW from, NEW to \in WifiPcs, SetBlob(from, to, key)
      PROVE  TypeOK'
  <2>1. [stored EXCEPT ![key] = config[key]] \in Creds
    BY DEF TypeOK, Creds
  <2>2. kept' \subseteq {"ssid", "password"} /\ saves' \in {"whole", "begun", "torn"}
    BY <1>2 DEF TypeOK, SetBlob, Fail
  <2> QED BY <1>2, <2>1, <2>2 DEF TypeOK, SetBlob, Fail, WifiPcs
<1>3. CASE ClearErase
  BY <1>1, <1>3 DEF TypeOK, ClearErase, Fail, WifiPcs
<1>4. ASSUME NEW from, Commit(from)
      PROVE  TypeOK'
  <2>1. kept' \subseteq {"ssid", "password"} /\ saves' \in {"whole", "begun", "torn"}
    BY <1>4 DEF TypeOK, Commit, Committed
  <2> QED BY <1>4, <2>1 DEF TypeOK, Commit, WifiPcs
<1> QED BY <1>2, <1>3, <1>4 DEF Nvs, SaveSsid, SavePassword, SaveCommit, ClearCommit, WifiPcs

LEMMA TypeDriver ==
  ASSUME TypeOK, Driver
  PROVE  TypeOK'
<1>1. ASSUME NEW from, NEW to \in {"none", "trying", "up"}, NEW news \in Messages \union {"none"},
             Change(from, to, news), network' = driver \/ UNCHANGED network
      PROVE  TypeOK'
  <2>1. queue' \in Seq(Messages) /\ Len(queue') <= QueueLength
    BY <1>1, SentType DEF TypeOK, Change, Messages
  <2> QED BY <1>1, <2>1 DEF TypeOK, Change, httpVars, taskVars, nvsVars
<1> QED BY <1>1 DEF Driver, Connected, Retried, GivenUp, Messages

LEMMA TypeNext == TypeOK /\ [Next]_vars => TypeOK'
<1> SUFFICES ASSUME TypeOK, [Next]_vars PROVE TypeOK'
  OBVIOUS
<1>1. CASE UNCHANGED vars
  BY <1>1 DEF TypeOK, vars, httpVars, taskVars, driverVars, nvsVars
<1> QED BY <1>1, TypeHttp, TypeTask, TypeNvs, TypeDriver, TypeRestart DEF Next, PowerCut, PanicRestart

\* The queue keeps its depth and the credentials stay numbers of requests.
THEOREM CredsTypeCorrect == Spec => []TypeOK
BY TypeInit, TypeNext, PTL DEF Spec
-----------------------------------------------------------------------------
(* A password stays with its network *)

\* Name and password in the configuration come from one request.
Fine == config.password \in {Missing, config.ssid}

\* No request is being read, is announced or is being given to the driver.
Quiet == httpPc = "idle" /\ wifiPc # "set_config" /\ ~InQueue(queue, "connect")

\* While the saved credentials are loaded nobody is served; a request that has begun has
\* the configuration to itself, one field after the other.
ConfigInv ==
  /\ Fine \/ Quiet
  /\ wifiPc \in {"load", "load_set_config"} => Quiet
  /\ httpPc = "ssid" => config = NoCreds
  /\ httpPc = "password" => config.ssid = requests /\ config.password = Missing

LEMMA ConfigInit == Init => ConfigInv
BY EmptyQueue DEF Init, ConfigInv, Fine, Quiet

LEMMA ConfigNext ==
  ASSUME TypeOK, ConfigInv, [Next]_vars
  PROVE  ConfigInv'
<1> USE DEF ConfigInv, Fine, Quiet
<1>1. CASE Request
  BY <1>1 DEF Request, Serving, NoCreds, taskVars
<1>2. CASE CopySsid
  <2>1. /\ \/ config' = [config EXCEPT !.ssid = requests] /\ httpPc' = "password"
           \/ UNCHANGED <<config, httpPc>>
        /\ UNCHANGED <<requests, queue, wifiPc>> /\ httpPc = "ssid"
    BY <1>2 DEF CopySsid, Copy, taskVars
  <2>2. config = NoCreds
    BY <2>1
  <2>3. [config EXCEPT !.ssid = requests].ssid = requests
        /\ [config EXCEPT !.ssid = requests].password = Missing
    BY <2>2 DEF NoCreds
  <2> QED BY <2>1, <2>2, <2>3 DEF NoCreds
<1>3. CASE CopyPassword
  BY <1>3 DEF CopyPassword, Copy, taskVars, TypeOK, Creds
<1>4. CASE Announce
  BY <1>4, AppendToQueue DEF Announce, Send, TypeOK, Messages, taskVars
<1>5. CASE RequestStop
  <2>1. InQueue(queue', "connect") => InQueue(queue, "connect")
    BY <1>5, AppendToQueue DEF RequestStop, Send, TypeOK, Messages
  <2> QED BY <1>5, <2>1 DEF RequestStop, httpVars, taskVars
<1>6. CASE Load
  BY <1>6 DEF Load, httpVars
<1>7. CASE LoadSetConfig \/ HttpSetConfig
  BY <1>7 DEF LoadSetConfig, HttpSetConfig, SetConfig, httpVars
<1>8. CASE ReceiveConnect
  <2>1. InQueue(queue, "connect")
    BY <1>8, TailOfQueue DEF ReceiveConnect, Receive, TypeOK
  <2> QED BY <1>8, <2>1 DEF ReceiveConnect, httpVars
<1>9. CASE ReceiveGotIp \/ ReceiveStop \/ ReceiveDisconnected
  <2>1. InQueue(queue', "connect") => InQueue(queue, "connect")
    BY <1>9, TailOfQueue DEF ReceiveGotIp, ReceiveStop, ReceiveDisconnected, Receive, TypeOK
  <2> QED BY <1>9, <2>1 DEF ReceiveGotIp, ReceiveStop, ReceiveDisconnected, Receive, httpVars
<1>10. CASE Nvs
  BY <1>10 DEF Nvs, SaveSsid, SavePassword, SaveCommit, ClearErase, ClearCommit, SetBlob, Commit,
              Fail, httpVars
<1>11. CASE Driver
  <2>1. /\ InQueue(queue', "connect") => InQueue(queue, "connect")
        /\ UNCHANGED <<config, httpVars, taskVars>>
    <3>1. ASSUME NEW from, NEW to, NEW news \in {"none", "got_ip", "disconnected"},
                 Change(from, to, news)
          PROVE  /\ InQueue(queue', "connect") => InQueue(queue, "connect")
                 /\ UNCHANGED <<config, httpVars, taskVars>>
      <4>1. CASE news = "none"
        BY <3>1, <4>1 DEF Change
      <4>2. CASE news # "none"
        <5>1. queue \in Seq(Messages) /\ queue' = Append(queue, news) /\ news \in Messages
          BY <3>1, <4>2 DEF Change, Send, TypeOK, Messages
        <5>2. InQueue(queue', "connect") => InQueue(queue, "connect")
          BY <5>1, AppendToQueue
        <5> QED BY <3>1, <5>2 DEF Change
      <4> QED BY <4>1, <4>2
    <3> QED BY <1>11, <3>1 DEF Driver, Connected, Retried, GivenUp
  <2> QED BY <2>1 DEF httpVars, taskVars
<1>12. CASE PowerCut \/ PanicRestart
  BY <1>12, EmptyQueue DEF PowerCut, PanicRestart, Restart, NoCreds
<1>13. CASE UNCHANGED vars
  BY <1>13 DEF vars, httpVars, taskVars
<1> QED BY <1>1, <1>2, <1>3, <1>4, <1>5, <1>6, <1>7, <1>8, <1>9, <1>10, <1>11, <1>12, <1>13
        DEF Next, Receives

\* Steps of the others leave NVS, its histories and what the task does with it alone.
NvsUnread ==
  /\ UNCHANGED <<stored, durable, kept, saves>>
  /\ wifiPc' \in {"load_set_config", "save_password", "save_commit", "clear_commit"} =>
       wifiPc' = wifiPc

LEMMA OthersLeaveNvs ==
  ASSUME \/ CopySsid \/ CopyPassword \/ Announce \/ RequestStop
         \/ LoadSetConfig \/ HttpSetConfig \/ Receives \/ Driver \/ UNCHANGED vars
  PROVE  NvsUnread
<1> USE DEF NvsUnread, nvsVars, taskVars
<1>1. CASE CopySsid \/ CopyPassword \/ Announce \/ RequestStop
  BY <1>1 DEF CopySsid, CopyPassword, Copy, Announce, RequestStop
<1>2. CASE LoadSetConfig \/ HttpSetConfig
  BY <1>2 DEF LoadSetConfig, HttpSetConfig, SetConfig
<1>3. CASE Receives
  BY <1>3 DEF Receives, ReceiveConnect, ReceiveGotIp, ReceiveStop, ReceiveDisconnected
<1>4. CASE Driver \/ UNCHANGED vars
  BY <1>4 DEF Driver, Connected, Retried, GivenUp, Change, vars
<1> QED BY <1>1, <1>2, <1>3, <1>4

\* The pair that a load may find after a power cut takes each entry from what has been
\* written or from what has been committed.
OnePair(ssid, password) == ssid = Missing \/ password = Missing \/ ssid = password
Survivors(key) == {stored[key], durable[key]}

\* As long as saves are whole, no pair that may survive is mixed, and the configuration
\* is not mixed either; a save that has begun has an unmixed configuration to write.
WholeInv ==
  /\ saves = "whole" =>
       /\ \A ssid \in Survivors("ssid"), password \in Survivors("password") : OnePair(ssid, password)
       /\ OnePair(config.ssid, config.password)
       /\ wifiPc \notin {"save_password", "save_commit"}
  /\ saves = "begun" /\ wifiPc = "save_password" =>
       OnePair(config.ssid, config.password) /\ stored.ssid \in {Missing, config.ssid}
  /\ saves = "begun" /\ wifiPc = "save_commit" =>
       OnePair(config.ssid, config.password) /\ OnePair(stored.ssid, stored.password)

LEMMA WholeInit == Init => WholeInv
BY DEF Init, WholeInv, OnePair, Survivors, NoCreds

\* The configuration that a request builds up is never mixed.
LEMMA WholeHttp ==
  ASSUME TypeOK, ConfigInv, WholeInv, Request \/ CopySsid \/ CopyPassword \/ Announce \/ RequestStop
  PROVE  WholeInv'
<1> USE DEF WholeInv, OnePair, Survivors
<1>1. CASE Request
  <2>1. /\ UNCHANGED <<wifiPc, stored, durable>> /\ config' = NoCreds
        /\ saves' = IF wifiPc = "save_password" THEN "torn" ELSE saves
    BY <1>1 DEF Request, taskVars
  <2> QED BY <2>1 DEF NoCreds
<1>2. CASE CopySsid
  <2>1. /\ UNCHANGED <<wifiPc, stored, durable, saves>> /\ config = NoCreds
        /\ config' = [config EXCEPT !.ssid = requests] \/ UNCHANGED config
    BY <1>2 DEF CopySsid, Copy, taskVars, nvsVars, ConfigInv
  <2> QED BY <2>1 DEF NoCreds
<1>3. CASE CopyPassword
  <2>1. /\ UNCHANGED <<wifiPc, stored, durable, saves>> /\ config.ssid = requests
        /\ config' = [config EXCEPT !.password = requests] \/ UNCHANGED config
    BY <1>3 DEF CopyPassword, Copy, taskVars, nvsVars, ConfigInv
  <2>2. CASE config' = [config EXCEPT !.password = requests]
    <3>1. config'.ssid = config.ssid /\ config'.password = config.ssid
      BY <2>1, <2>2 DEF TypeOK, Creds
    <3> QED BY <2>1, <3>1
  <2> QED BY <2>1, <2>2
<1>4. CASE Announce \/ RequestStop
  <2>1. UNCHANGED <<wifiPc, stored, durable, saves, config>>
    BY <1>4 DEF Announce, RequestStop, taskVars, nvsVars
  <2> QED BY <2>1
<1> QED BY <1>1, <1>2, <1>3, <1>4

LEMMA WholeNvs ==
  ASSUME TypeOK, WholeInv, Nvs
  PROVE  WholeInv'
<1> USE DEF WholeInv, OnePair, Survivors
<1>1. UNCHANGED config
  BY DEF Nvs, SaveSsid, SavePassword, SaveCommit, ClearErase, ClearCommit, SetBlob, Commit
<1>2. CASE SaveSsid
  <2>1. CASE Fail
    BY <1>1, <1>2, <2>1 DEF Fail, SaveSsid, SetBlob
  <2>2. CASE ~Fail
    <3>1. /\ stored' = [stored EXCEPT !.ssid = config.ssid] /\ wifiPc' = "save_password"
          /\ saves' = IF saves = "whole" THEN "begun" ELSE "torn"
      BY <1>2, <2>2 DEF SaveSsid, SetBlob
    <3>2. stored'.ssid = config.ssid
      BY <3>1 DEF TypeOK, Creds
    <3> QED BY <1>1, <3>1, <3>2 DEF TypeOK
  <2> QED BY <2>1, <2>2
<1>3. CASE SavePassword
  <2>1. CASE Fail
    BY <1>1, <1>3, <2>1 DEF Fail, SavePassword, SetBlob
  <2>2. CASE ~Fail
    <3>1. /\ stored' = [stored EXCEPT !.password = config.password] /\ wifiPc' = "save_commit"
          /\ saves' = saves /\ wifiPc = "save_password"
      BY <1>3, <2>2 DEF SavePassword, SetBlob
    <3>2. stored'.ssid = stored.ssid /\ stored'.password = config.password
      BY <3>1 DEF TypeOK, Creds
    <3> QED BY <1>1, <3>1, <3>2
  <2> QED BY <2>1, <2>2
<1>4. CASE SaveCommit
  <2>1. stored' = stored /\ wifiPc = "save_commit" /\ wifiPc' = "receive"
    BY <1>4 DEF SaveCommit, Commit
  <2>2. CASE UNCHANGED <<durable, saves>>
    BY <1>1, <2>1, <2>2
  <2>3. CASE durable' = stored /\ saves' = IF saves = "begun" THEN "whole" ELSE saves
    <3> QED BY <1>1, <2>1, <2>3
  <2> QED BY <1>4, <2>2, <2>3 DEF SaveCommit, Commit, Committed
<1>5. CASE ClearErase
  <2>1. (stored' = NoCreds \/ stored' = stored) /\ saves' = saves /\ durable' = durable
        /\ wifiPc' \in {"receive", "clear_commit"}
    BY <1>5 DEF ClearErase, Fail
  <2> QED BY <1>1, <2>1 DEF NoCreds
<1>6. CASE ClearCommit
  <2>1. stored' = stored /\ saves' = saves /\ durable' \in {stored, durable} /\ wifiPc' = "receive"
    BY <1>6 DEF ClearCommit, Commit, Committed
  <2> QED BY <1>1, <2>1
<1> QED BY <1>2, <1>3, <1>4, <1>5, <1>6 DEF Nvs

LEMMA WholeNext ==
  ASSUME TypeOK, ConfigInv, WholeInv, [Next]_vars
  PROVE  WholeInv'
<1> USE DEF WholeInv, OnePair, Survivors
<1>1. CASE LoadSetConfig \/ HttpSetConfig \/ Receives \/ Driver \/ UNCHANGED vars
  <2>1. NvsUnread
    BY <1>1, OthersLeaveNvs
  <2>2. config' = config
    BY <1>1 DEF LoadSetConfig, HttpSetConfig, SetConfig, Receives, ReceiveConnect, ReceiveGotIp,
                ReceiveStop, ReceiveDisconnected, Driver, Connected, Retried, GivenUp, Change, vars
  <2> QED BY <2>1, <2>2 DEF NvsUnread
<1>2. CASE Load
  <2>1. UNCHANGED <<stored, durable, saves>> /\ wifiPc' \notin {"save_password", "save_commit"}
        /\ config' \in {stored, NoCreds, [stored EXCEPT !.password = Missing]}
    BY <1>2 DEF Load, nvsVars
  <2>2. OnePair(config'.ssid, config'.password) \/ config' = stored
    BY <2>1 DEF NoCreds, TypeOK, Creds
  <2> QED BY <2>1, <2>2
<1>3. CASE PowerCut \/ PanicRestart
  <2>1. /\ config' = NoCreds /\ wifiPc' = "load" /\ durable' = stored' /\ saves' = saves
        /\ \E ssid \in Survivors("ssid"), password \in Survivors("password") :
             stored' = [ssid |-> ssid, password |-> password]
    BY <1>3 DEF PowerCut, PanicRestart, Restart
  <2> QED BY <2>1 DEF NoCreds
<1> QED BY <1>1, <1>2, <1>3, WholeHttp, WholeNvs DEF Next

\* A pair that is announced reaches the driver unmixed however many requests overlap the
\* task's work (http_handlers_wifi.c:53-57), and so does the pair that a boot loads as
\* long as every save has been whole.
THEOREM PasswordsStay == Spec => PasswordStaysWithNetwork
<1>1. ConfigInv /\ HttpSetConfig /\ driver' # driver /\ IsComplete(driver') =>
        driver'.ssid = driver'.password
  BY DEF ConfigInv, Fine, Quiet, HttpSetConfig, SetConfig, IsComplete
<1>2. [Next]_vars /\ driver' # driver => driver' = config \/ driver' = NoCreds
  <2> SUFFICES ASSUME [Next]_vars, driver' # driver PROVE driver' = config \/ driver' = NoCreds
    OBVIOUS
  <2>1. CASE Request \/ CopySsid \/ CopyPassword \/ Announce \/ RequestStop \/ Receives \/ UNCHANGED vars
    BY <2>1 DEF Request, CopySsid, CopyPassword, Copy, Announce, RequestStop, Receives, ReceiveConnect,
                ReceiveGotIp, ReceiveStop, ReceiveDisconnected, driverVars, vars
  <2>2. CASE Load \/ Nvs \/ Driver
    BY <2>2 DEF Load, Nvs, SaveSsid, SavePassword, SaveCommit, ClearErase, ClearCommit, SetBlob, Commit,
                Driver, Connected, Retried, GivenUp, Change, driverVars
  <2>3. CASE LoadSetConfig \/ HttpSetConfig \/ PowerCut \/ PanicRestart
    BY <2>3 DEF LoadSetConfig, HttpSetConfig, SetConfig, PowerCut, PanicRestart, Restart
  <2> QED BY <2>1, <2>2, <2>3 DEF Next
<1>3. WholeInv /\ saves = "whole" /\ [Next]_vars /\ driver' # driver /\ IsComplete(driver') =>
        driver'.ssid = driver'.password
  BY <1>2 DEF WholeInv, OnePair, IsComplete, NoCreds
<1>4. Init => ConfigInv /\ WholeInv
  BY ConfigInit, WholeInit
<1>5. TypeOK /\ ConfigInv /\ WholeInv /\ [Next]_vars => ConfigInv' /\ WholeInv'
  BY ConfigNext, WholeNext
<1> QED BY <1>1, <1>3, <1>4, <1>5, TypeInit, TypeNext, PTL DEF Spec, PasswordStaysWithNetwork

-----------------------------------------------------------------------------
(* A boot uses what was saved since the last clear *)

\* What NVS holds of an entry, committed or not, was written after the last clear.
KeptInv ==
  /\ wifiPc = "clear_commit" => stored = NoCreds
  /\ stored.ssid # Missing \/ durable.ssid # Missing => "ssid" \in kept
  /\ stored.password # Missing \/ durable.password # Missing => "password" \in kept

LEMMA KeptInit == Init => KeptInv
BY DEF Init, KeptInv, NoCreds

LEMMA KeptNext ==
  ASSUME TypeOK, KeptInv, [Next]_vars
  PROVE  KeptInv'
<1> USE DEF KeptInv
<1>1. CASE NvsUnread
  BY <1>1 DEF NvsUnread
<1>2. CASE Load \/ Request
  BY <1>2 DEF Load, Request, nvsVars, taskVars
<1>3. CASE SaveSsid \/ SavePassword
  <2>1. durable' = durable /\ wifiPc' # "clear_commit"
    BY <1>3 DEF SaveSsid, SavePassword, SetBlob, Fail
  <2>2. CASE UNCHANGED <<stored, kept>>
    BY <2>1, <2>2
  <2>3. CASE stored' = [stored EXCEPT !.ssid = config.ssid] /\ kept' = kept \union {"ssid"}
    BY <2>1, <2>3 DEF TypeOK, Creds
  <2>4. CASE stored' = [stored EXCEPT !.password = config.password] /\ kept' = kept \union {"password"}
    BY <2>1, <2>4 DEF TypeOK, Creds
  <2> QED BY <1>3, <2>2, <2>3, <2>4 DEF SaveSsid, SavePassword, SetBlob, Fail
<1>4. CASE SaveCommit
  <2>1. stored' = stored /\ wifiPc' = "receive" /\ durable' \in {stored, durable} /\ kept' = kept
    BY <1>4 DEF SaveCommit, Commit, Committed
  <2> QED BY <2>1
<1>5. CASE ClearCommit
  <2>1. stored' = stored /\ wifiPc' = "receive" /\ stored = NoCreds
    BY <1>5 DEF ClearCommit, Commit
  <2>2. durable' = stored \/ UNCHANGED <<durable, kept>>
    BY <1>5 DEF ClearCommit, Commit
  <2> QED BY <2>1, <2>2 DEF NoCreds
<1>6. CASE ClearErase
  <2>1. durable' = durable /\ kept' = kept
    BY <1>6 DEF ClearErase, Fail
  <2>2. CASE stored' = NoCreds
    BY <2>1, <2>2 DEF NoCreds
  <2>3. CASE stored' = stored /\ wifiPc' = "receive"
    BY <2>1, <2>3
  <2> QED BY <1>6, <2>2, <2>3 DEF ClearErase, Fail
<1>7. CASE PowerCut \/ PanicRestart
  <2>1. /\ durable' = stored' /\ kept' = kept /\ wifiPc' = "load"
        /\ \E ssid \in {stored.ssid, durable.ssid}, password \in {stored.password, durable.password} :
             stored' = [ssid |-> ssid, password |-> password]
    BY <1>7 DEF PowerCut, PanicRestart, Restart
  <2> QED BY <2>1
<1> QED BY <1>1, <1>2, <1>3, <1>4, <1>5, <1>6, <1>7, OthersLeaveNvs DEF Next, Nvs

\* A boot uses only entries written after the last clear that was committed, for any number
\* of requests and wherever the power was cut (app_nvs.c:125-143, wifi_app.c:258-266).
THEOREM BootUsesSaved == Spec => BootUsesSavedSinceClear
<1>1. TypeOK /\ KeptInv /\ [Next]_vars /\ wifiPc = "load" /\ wifiPc' = "load_set_config" =>
        kept = {"ssid", "password"}
  <2> SUFFICES ASSUME TypeOK, KeptInv, [Next]_vars, wifiPc = "load", wifiPc' = "load_set_config"
               PROVE  kept = {"ssid", "password"}
    OBVIOUS
  <2>1. ~NvsUnread /\ ~Nvs /\ ~Request
    BY DEF NvsUnread, Nvs, SaveSsid, SavePassword, SaveCommit, ClearErase, ClearCommit, SetBlob,
           Commit, Request, Serving
  <2>2. ~PowerCut /\ ~PanicRestart
    BY DEF PowerCut, PanicRestart, Restart
  <2>3. Load
    BY <2>1, <2>2, OthersLeaveNvs DEF Next
  <2>4. IsComplete(stored)
    BY <2>3 DEF Load
  <2> QED BY <2>4 DEF KeptInv, IsComplete, TypeOK
<1> QED BY <1>1, TypeInit, TypeNext, KeptInit, KeptNext, PTL DEF Spec, BootUsesSavedSinceClear

-----------------------------------------------------------------------------
(* A user who waits *)

Loading == wifiPc \in {"load", "load_set_config"}
Saving == wifiPc \in {"save_ssid", "save_password", "save_commit"}
Announced == InQueue(queue, "connect")

\* Of reading the headers, announcing them and setting the driver at most one goes on;
\* while it does there is no link and none to be saved, and as long as there is one the
\* configuration is that of the link.
PatientInv ==
  /\ httpPc # "idle" \/ Announced \/ Loading \/ wifiPc = "set_config" =>
       link = "none" /\ ~InQueue(queue, "got_ip") /\ ~Saving
  /\ Loading \/ wifiPc = "set_config" => httpPc = "idle" /\ ~Announced
  /\ httpPc # "idle" => ~Announced
  /\ AtMostOnce(queue, "connect")
  /\ link # "none" => config = driver
  /\ InQueue(queue, "got_ip") \/ Saving => config = network
  /\ wifiPc = "save_password" => stored.ssid = config.ssid
  /\ wifiPc = "save_commit" => stored = config

LEMMA PatientInit == Init => PatientInv
BY EmptyQueue DEF Init, PatientInv, Announced, Loading, Saving

\* What a message that is sent, and one that is taken, change of what is queued.
LEMMA SentQueue ==
  ASSUME TypeOK, NEW new \in Messages, Send(new)
  PROVE  /\ \A msg : InQueue(queue', msg) => InQueue(queue, msg) \/ new = msg
         /\ AtMostOnce(queue, "connect") /\ ~(new = "connect" /\ Announced) =>
              AtMostOnce(queue', "connect")
BY AppendToQueue DEF TypeOK, Send, Announced

LEMMA ReceivedQueue ==
  ASSUME TypeOK, NEW head, Receive(head)
  PROVE  /\ InQueue(queue, head)
         /\ \A msg : InQueue(queue', msg) => InQueue(queue, msg)
         /\ AtMostOnce(queue, "connect") => AtMostOnce(queue', "connect")
         /\ AtMostOnce(queue, "connect") /\ head = "connect" => ~Announced'
         /\ wifiPc = "receive"
BY TailOfQueue DEF TypeOK, Receive, Announced

LEMMA PatientHttp ==
  ASSUME patient, TypeOK, PatientInv, Request \/ CopySsid \/ CopyPassword \/ Announce \/ RequestStop
  PROVE  PatientInv'
<1> USE DEF PatientInv, Announced, Loading, Saving
<1>1. CASE Request
  <2>1. link = "none" /\ queue = <<>> /\ wifiPc = "receive"
    BY <1>1 DEF Request, Unconnected
  <2>2. UNCHANGED <<queue, wifiPc, link>>
    BY <1>1 DEF Request, taskVars, driverVars
  <2> QED BY <2>1, <2>2, EmptyQueue
<1>2. CASE CopySsid \/ CopyPassword
  <2>1. /\ httpPc # "idle"
        /\ UNCHANGED <<queue, wifiPc, link>> /\ (httpPc' # "idle" \/ UNCHANGED httpPc)
    BY <1>2 DEF CopySsid, CopyPassword, Copy, taskVars, driverVars
  <2> QED BY <2>1
<1>3. CASE Announce
  <2>1. Send("connect") /\ httpPc = "send" /\ httpPc' = "idle"
        /\ UNCHANGED <<wifiPc, link, config, driver, network, stored>>
    BY <1>3 DEF Announce, taskVars, driverVars, nvsVars
  <2>2. InQueue(queue', "got_ip") => InQueue(queue, "got_ip")
    BY <2>1, SentQueue DEF Messages
  <2>3. AtMostOnce(queue', "connect")
    BY <2>1, SentQueue DEF Messages
  <2> QED BY <2>1, <2>2, <2>3
<1>4. CASE RequestStop
  <2>1. Send("stop") /\ UNCHANGED <<wifiPc, link, config, driver, network, stored, httpPc>>
    BY <1>4 DEF RequestStop, httpVars, taskVars, driverVars, nvsVars
  <2>2. /\ InQueue(queue', "got_ip") => InQueue(queue, "got_ip")
        /\ InQueue(queue', "connect") => InQueue(queue, "connect")
        /\ AtMostOnce(queue', "connect")
    BY <2>1, SentQueue DEF Messages
  <2> QED BY <2>1, <2>2
<1> QED BY <1>1, <1>2, <1>3, <1>4

LEMMA PatientTask ==
  ASSUME TypeOK, PatientInv, Load \/ LoadSetConfig \/ HttpSetConfig \/ Receives
  PROVE  PatientInv'
<1> USE DEF PatientInv, Announced, Loading, Saving
<1>1. CASE Load
  BY <1>1 DEF Load, httpVars, driverVars, nvsVars
<1>2. CASE LoadSetConfig \/ HttpSetConfig
  BY <1>2 DEF LoadSetConfig, HttpSetConfig, SetConfig, httpVars, nvsVars
<1>3. CASE ReceiveConnect
  <2>1. Receive("connect") /\ wifiPc' = "set_config"
        /\ UNCHANGED <<link, config, driver, network, stored, httpPc>>
    BY <1>3 DEF ReceiveConnect, httpVars, driverVars, nvsVars
  <2> QED BY <2>1, ReceivedQueue
<1>4. CASE ReceiveGotIp
  <2>1. Receive("got_ip") /\ wifiPc' \in {"receive", "save_ssid"}
        /\ UNCHANGED <<link, config, driver, network, stored, httpPc>>
    BY <1>4 DEF ReceiveGotIp, httpVars, driverVars, nvsVars
  <2> QED BY <2>1, ReceivedQueue
<1>5. CASE ReceiveStop
  <2>1. Receive("stop") /\ wifiPc' \in {"receive", "clear_erase"}
        /\ (link = "none" => link' = "none")
        /\ UNCHANGED <<config, driver, network, stored, httpPc>>
    BY <1>5 DEF ReceiveStop, Receive, httpVars, nvsVars
  <2> QED BY <2>1, ReceivedQueue
<1>6. CASE ReceiveDisconnected
  <2>1. Receive("disconnected") /\ wifiPc' \in {"receive", "clear_erase"}
        /\ UNCHANGED <<link, config, driver, network, stored, httpPc>>
    BY <1>6 DEF ReceiveDisconnected, httpVars, driverVars, nvsVars
  <2> QED BY <2>1, ReceivedQueue
<1> QED BY <1>1, <1>2, <1>3, <1>4, <1>5, <1>6 DEF Receives

LEMMA PatientNvs ==
  ASSUME TypeOK, PatientInv, Nvs
  PROVE  PatientInv'
<1> USE DEF PatientInv, Announced, Loading, Saving
<1>0. UNCHANGED <<link, config, driver, network, queue, httpPc>>
  BY DEF Nvs, SaveSsid, SavePassword, SaveCommit, ClearErase, ClearCommit, SetBlob, Commit,
         httpVars, driverVars
<1>1. CASE SaveSsid
  <2>1. CASE wifiPc' = "receive"
    BY <1>0, <1>1, <2>1 DEF SaveSsid
  <2>2. CASE wifiPc' # "receive"
    <3>1. stored' = [stored EXCEPT !.ssid = config.ssid] /\ wifiPc' = "save_password"
      BY <1>1, <2>2 DEF SaveSsid, SetBlob, Fail
    <3>2. stored'.ssid = config.ssid
      BY <3>1 DEF TypeOK, Creds
    <3> QED BY <1>0, <1>1, <3>1, <3>2 DEF SaveSsid, SetBlob
  <2> QED BY <2>1, <2>2
<1>2. CASE SavePassword
  <2>1. CASE wifiPc' = "receive"
    BY <1>0, <1>2, <2>1 DEF SavePassword
  <2>2. CASE wifiPc' # "receive"
    <3>1. stored' = [stored EXCEPT !.password = config.password] /\ wifiPc' = "save_commit"
          /\ wifiPc = "save_password"
      BY <1>2, <2>2 DEF SavePassword, SetBlob, Fail
    <3>2. stored' = config
      BY <3>1 DEF TypeOK, Creds
    <3> QED BY <1>0, <3>1, <3>2
  <2> QED BY <2>1, <2>2
<1>3. CASE SaveCommit \/ ClearErase \/ ClearCommit
  <2>1. wifiPc' \in {"receive", "clear_commit"}
    BY <1>3 DEF SaveCommit, ClearErase, ClearCommit, Commit, Fail
  <2> QED BY <1>0, <2>1
<1> QED BY <1>1, <1>2, <1>3 DEF Nvs

LEMMA PatientDriver ==
  ASSUME TypeOK, PatientInv, Driver
  PROVE  PatientInv'
<1> USE DEF PatientInv, Announced, Loading, Saving
<1>0. UNCHANGED <<config, driver, wifiPc, httpPc, stored>> /\ link # "none"
  BY DEF Driver, Connected, Retried, GivenUp, Change, httpVars, taskVars, nvsVars
<1>1. CASE Connected
  <2>1. Send("got_ip") /\ network' = driver
    BY <1>1 DEF Connected, Change
  <2>2. (InQueue(queue', "connect") => InQueue(queue, "connect")) /\ AtMostOnce(queue', "connect")
    BY <2>1, SentQueue DEF Messages
  <2> QED BY <1>0, <2>1, <2>2
<1>2. CASE Retried
  BY <1>0, <1>2 DEF Retried, Change
<1>3. CASE GivenUp
  <2>1. Send("disconnected") /\ network' = network
    BY <1>3 DEF GivenUp, Change
  <2>2. /\ InQueue(queue', "connect") => InQueue(queue, "connect")
        /\ InQueue(queue', "got_ip") => InQueue(queue, "got_ip")
        /\ AtMostOnce(queue', "connect")
    BY <2>1, SentQueue DEF Messages
  <2> QED BY <1>0, <2>1, <2>2
<1> QED BY <1>1, <1>2, <1>3 DEF Driver

LEMMA PatientNext ==
  ASSUME patient, TypeOK, PatientInv, [Next]_vars
  PROVE  PatientInv'
<1>1. CASE PowerCut \/ PanicRestart
  BY <1>1, EmptyQueue DEF PowerCut, PanicRestart, Restart, PatientInv, Announced, Loading, Saving
<1>2. CASE UNCHANGED vars
  BY <1>2 DEF vars, httpVars, taskVars, driverVars, nvsVars, PatientInv, Announced, Loading, Saving
<1> QED BY <1>1, <1>2, PatientHttp, PatientTask, PatientNvs, PatientDriver DEF Next

\* No step makes a user patient or impatient.
LEMMA SameUser == [Next]_vars => patient' = patient
<1> SUFFICES ASSUME [Next]_vars PROVE patient' = patient
  OBVIOUS
<1> USE DEF httpVars
<1>1. CASE Request \/ CopySsid \/ CopyPassword \/ Announce \/ RequestStop
  BY <1>1 DEF Request, CopySsid, CopyPassword, Copy, Announce, RequestStop
<1>2. CASE Load \/ LoadSetConfig \/ HttpSetConfig \/ Receives
  BY <1>2 DEF Load, LoadSetConfig, HttpSetConfig, SetConfig, Receives, ReceiveConnect, ReceiveGotIp,
              ReceiveStop, ReceiveDisconnected
<1>3. CASE Nvs
  BY <1>3 DEF Nvs, SaveSsid, SavePassword, SaveCommit, ClearErase, ClearCommit, SetBlob, Commit
<1>4. CASE Driver \/ PowerCut \/ PanicRestart \/ UNCHANGED vars
  BY <1>4 DEF Driver, Connected, Retried, GivenUp, Change, PowerCut, PanicRestart, Restart, vars
<1> QED BY <1>1, <1>2, <1>3, <1>4 DEF Next

\* What a user who waits has connected to is what is saved: the pair in the configuration
\* is still that of the network when the second blob has been written (wifi_app.c:302-309).
THEOREM SavedPairConnected == Spec => []SavedIsConnected
<1> DEFINE Inv == patient => PatientInv
<1>1. Inv => SavedIsConnected
  BY DEF PatientInv, Saving, SavedIsConnected
<1>2. Init => Inv
  BY PatientInit
<1>3. TypeOK /\ Inv /\ [Next]_vars => Inv'
  <2> SUFFICES ASSUME TypeOK, Inv, [Next]_vars, patient' PROVE PatientInv'
    OBVIOUS
  <2>1. patient' = patient
    BY SameUser
  <2> QED BY <2>1, PatientNext
<1> HIDE DEF Inv
<1> QED BY <1>1, <1>2, <1>3, TypeInit, TypeNext, PTL DEF Spec
==============================================================================
