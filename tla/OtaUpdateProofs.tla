--------------------------- MODULE OtaUpdateProofs ---------------------------
(***************************************************************************)
(* Theorems about the firmware update: for every size of the image, every  *)
(* depth of the monitor's queue and any number of uploads, restarts and    *)
(* lost connections, the running partition keeps a whole image, a restart  *)
(* never goes back to an older version, and the update keeps the promise   *)
(* of module Firmware.                                                     *)
(***************************************************************************)
EXTENDS OtaUpdate, SequenceTheorems, TLAPS

USE PiecesAssumption, MaxUploadsAssumption, QueueLengthAssumption, MaxOthersAssumption

-----------------------------------------------------------------------------
(* Lemmas about the operators *)

\* There are two partitions: the other of a partition is the one that is not it.
LEMMA OtherPartition ==
  ASSUME NEW p \in Partitions
  PROVE  /\ Other(p) \in Partitions /\ Other(p) # p
         /\ \A q \in Partitions : q = p \/ q = Other(p)
BY DEF Other, Partitions

\* Storing a content changes the target and nothing else.
LEMMA StoreTarget ==
  ASSUME TypeOK, NEW content, Store(content)
  PROVE  /\ image'[Target] = content
         /\ image'[running] = image[running]
         /\ DOMAIN image' = Partitions
         /\ \A p \in Partitions : p # Target => image'[p] = image[p]
BY OtherPartition DEF TypeOK, Store, Target

\* What a piece leaves in the target is the new version, no image, or what the end
\* of the form finds there.
LEMMA ContentsCases ==
  ASSUME NEW count, NEW content \in Contents(count)
  PROVE  content = Version \/ content = Broken \/ content = image[Target]
BY DEF Contents

\* Everything but the bootloader's choice is reset by a restart.
LEMMA BootChoice ==
  ASSUME TypeOK, image[running] # Broken, Restart
  PROVE  /\ image' = image /\ boot' = boot /\ uploads' = uploads
         /\ image[boot] # Broken => running' = boot
         /\ image[boot] = Broken => running' = running /\ boot = Target
         /\ httpPc' = "idle" /\ handle' = "unset" /\ leaked' = FALSE
BY OtherPartition DEF TypeOK, Restart, Target

-----------------------------------------------------------------------------
(* Types *)

LEMMA EmptyQueue == <<>> \in Seq(Messages) /\ Len(<<>>) = 0
BY EmptySeq

LEMMA TypeInit == Init => TypeOK
<1> SUFFICES ASSUME Init PROVE TypeOK
  OBVIOUS
<1>1. queue \in Seq(Messages) /\ Len(queue) = 0
  BY EmptyQueue DEF Init
<1>2. image \in [Partitions -> Versions \union {Broken}]
  <2>1. Factory \in Versions
    BY DEF Versions, Factory
  <2> QED BY <2>1 DEF Init
<1>3. 0 \in 0..MaxUploads /\ 0 \in 0..(Pieces + 1) /\ 0 \in 0..MaxOthers /\ 0 <= QueueLength
  OBVIOUS
<1> QED
  BY <1>1, <1>2, <1>3 DEF Init, TypeOK, Partitions, HttpPcs, RecvResults, Statuses

LEMMA TypeRestart ==
  ASSUME TypeOK, Restart
  PROVE  TypeOK'
<1>1. queue' \in Seq(Messages) /\ Len(queue') = 0
  BY EmptyQueue DEF Restart
<1>2. running' \in Partitions
  BY OtherPartition DEF TypeOK, Restart
<1>3. 0 \in 0..(Pieces + 1) /\ 0 \in 0..MaxOthers /\ 0 <= QueueLength
  OBVIOUS
<1> QED
  BY <1>1, <1>2, <1>3 DEF TypeOK, Restart, HttpPcs, RecvResults, Statuses

LEMMA StoreTyped ==
  ASSUME TypeOK, NEW content \in Versions \union {Broken}, Store(content)
  PROVE  image' \in [Partitions -> Versions \union {Broken}]
BY DEF TypeOK, Store

\* While an upload is received it has a version of its own, and nothing of it is
\* stored before its handle is open.
ReceivingInv == httpPc = "recv" => uploads > 0 /\ (handle = "unset" => received = 0)

LEMMA ContentsTyped ==
  ASSUME TypeOK, uploads > 0, NEW count, NEW content \in Contents(count)
  PROVE  content \in Versions \union {Broken}
BY ContentsCases, OtherPartition DEF TypeOK, Versions, Version, Factory, Target

LEMMA TypeReceives ==
  ASSUME TypeOK, ReceivingInv, Receives
  PROVE  TypeOK'
<1>1. image' \in [Partitions -> Versions \union {Broken}]
  <2>1. CASE UNCHANGED image
    BY <2>1 DEF TypeOK
  <2>2. CASE Store(Broken)
    BY <2>2, StoreTyped
  <2>3. CASE \E content \in Contents(received + 1) : Store(content)
    <3>1. PICK content \in Contents(received + 1) : Store(content)
      BY <2>3
    <3>2. uploads > 0
      BY DEF ReceivingInv, Receives, RecvFirst, RecvFirstNoHeader, RecvNext, RecvZero,
             RecvTimeout, RecvError, At
    <3>3. content \in Versions \union {Broken}
      BY <3>2, ContentsTyped
    <3> QED BY <3>1, <3>3, StoreTyped
  <2> QED
    BY <2>1, <2>2, <2>3 DEF Receives, RecvFirst, RecvFirstNoHeader, RecvNext, RecvZero,
       RecvTimeout, RecvError, flashVars
<1>2. received' \in 0..(Pieces + 1)
  <2>1. CASE RecvFirst
    <3>1. received = 0
      BY <2>1 DEF ReceivingInv, RecvFirst, At
    <3> QED BY <2>1, <3>1 DEF TypeOK, RecvFirst, GiveUp
  <2>2. CASE RecvNext
    BY <2>2 DEF TypeOK, RecvNext, GiveUp
  <2>3. CASE RecvFirstNoHeader \/ RecvZero \/ RecvTimeout \/ RecvError
    BY <2>3 DEF TypeOK, RecvFirstNoHeader, RecvZero, RecvTimeout, RecvError, GiveUp
  <2> QED BY <2>1, <2>2, <2>3 DEF Receives
<1>3. /\ httpPc' \in HttpPcs /\ handle' \in {"unset", "open"} /\ leaked' \in BOOLEAN
      /\ recvResult' \in RecvResults /\ status' \in Statuses /\ up' \in BOOLEAN
  BY DEF TypeOK, Receives, RecvFirst, RecvFirstNoHeader, RecvNext, RecvZero, RecvTimeout,
         RecvError, GiveUp, HttpPcs, RecvResults, Statuses
<1>4. UNCHANGED <<boot, running, uploads, monitorVars>>
  BY DEF Receives, RecvFirst, RecvFirstNoHeader, RecvNext, RecvZero, RecvTimeout, RecvError,
         flashVars
<1> QED
  BY <1>1, <1>2, <1>3, <1>4 DEF TypeOK, monitorVars

LEMMA QueueTyped ==
  ASSUME TypeOK, NEW message \in Messages, HasRoom, queue' = Append(queue, message)
  PROVE  queue' \in Seq(Messages) /\ Len(queue') <= QueueLength
BY AppendProperties, LenProperties DEF TypeOK, HasRoom

LEMMA TypeUpload ==
  ASSUME TypeOK, ReceivingInv, Upload
  PROVE  TypeOK'
<1>1. CASE Receives
  BY <1>1, TypeReceives
<1>2. CASE EndImage
  BY <1>2 DEF TypeOK, EndImage, EndFailed, HttpPcs, Statuses, flashVars, monitorVars
<1>3. CASE SetBoot
  BY <1>3, OtherPartition DEF TypeOK, SetBoot, EndFailed, Target, HttpPcs, Statuses, monitorVars
<1>4. CASE SendSuccessful \/ SendFailed
  <2>1. queue' \in Seq(Messages) /\ Len(queue') <= QueueLength
    BY <1>4, QueueTyped DEF SendSuccessful, SendFailed, SendOutcome, Messages, Outcomes
  <2>2. /\ httpPc' \in HttpPcs
        /\ UNCHANGED <<flashVars, received, handle, recvResult, leaked, uploads, status, others,
                       monitorPc, armed, up>>
    BY <1>4 DEF SendSuccessful, SendFailed, SendOutcome, HttpPcs
  <2> QED BY <2>1, <2>2 DEF TypeOK, flashVars
<1> QED
  BY <1>1, <1>2, <1>3, <1>4 DEF Upload

LEMMA TypeOthers ==
  ASSUME TypeOK, StartUpload \/ SendOther \/ Monitor \/ UNCHANGED vars
  PROVE  TypeOK'
<1>1. CASE StartUpload
  <2>1. uploads' \in 0..MaxUploads /\ received' \in 0..(Pieces + 1)
    BY <1>1 DEF TypeOK, StartUpload
  <2> QED
    BY <1>1, <2>1 DEF TypeOK, StartUpload, HttpPcs, RecvResults, flashVars, monitorVars
<1>2. CASE SendOther
  <2>1. queue' \in Seq(Messages) /\ Len(queue') <= QueueLength
    BY <1>2, QueueTyped DEF SendOther, Messages
  <2>2. others' \in 0..MaxOthers
    BY <1>2 DEF TypeOK, SendOther
  <2> QED BY <1>2, <2>1, <2>2 DEF TypeOK, SendOther, flashVars, uploadVars
<1>3. CASE MonitorReceive
  <2>1. queue' \in Seq(Messages) /\ Len(queue') <= QueueLength
    BY <1>3, HeadTailProperties, LenProperties DEF TypeOK, MonitorReceive
  <2>2. status' \in Statuses /\ monitorPc' \in {"receive", "arm"}
    BY <1>3 DEF TypeOK, MonitorReceive, Statuses
  <2> QED BY <1>3, <2>1, <2>2 DEF TypeOK, MonitorReceive, flashVars, uploadVars
<1>4. CASE MonitorArm
  <2>1. armed' \in BOOLEAN
    BY <1>4 DEF MonitorArm
  <2> QED BY <1>4, <2>1 DEF TypeOK, MonitorArm, flashVars, uploadVars
<1>5. CASE UNCHANGED vars
  BY <1>5 DEF TypeOK, vars, flashVars, uploadVars, monitorVars
<1> QED
  BY <1>1, <1>2, <1>3, <1>4, <1>5 DEF Monitor

-----------------------------------------------------------------------------
(* The inductive invariant *)

Inv == TypeOK /\ ReceivingInv /\ VersionsInv

LEMMA InvInit == Init => Inv
<1> SUFFICES ASSUME Init PROVE Inv
  OBVIOUS
<1>1. TypeOK
  BY TypeInit
<1>2. ReceivingInv
  BY DEF Init, ReceivingInv
<1>3. VersionsInv
  BY DEF Init, VersionsInv, Touched, NewerOrBroken, Version, Factory, Broken, Target, Other,
         Partitions
<1> QED BY <1>1, <1>2, <1>3 DEF Inv

LEMMA InvRestart ==
  ASSUME Inv, Restart
  PROVE  Inv'
<1> USE DEF Inv
<1>1. TypeOK'
  BY TypeRestart
<1>2. ReceivingInv'
  BY DEF Restart, ReceivingInv
<1>3. image[running] # Broken
  BY DEF VersionsInv
<1>4. CASE image[boot] # Broken
  <2>1. running' = boot /\ boot' = boot /\ image' = image /\ uploads' = uploads
    BY <1>3, <1>4, BootChoice
  <2>2. ~Touched' /\ httpPc' = "idle"
    BY <1>3, <2>1, BootChoice DEF Touched
  <2> QED BY <1>1, <1>2, <1>4, <2>1, <2>2 DEF VersionsInv, Version
<1>5. CASE image[boot] = Broken
  <2>1. /\ running' = running /\ boot' = boot /\ image' = image /\ uploads' = uploads
        /\ boot = Target
    BY <1>3, <1>5, BootChoice
  <2>2. NewerOrBroken(image[Target])'
    BY <1>5, <2>1 DEF NewerOrBroken, Target
  <2>3. httpPc' = "idle"
    BY <1>3, BootChoice
  <2> QED BY <1>1, <1>2, <2>1, <2>2, <2>3 DEF VersionsInv, Version
<1> QED BY <1>4, <1>5

\* Storing nothing, or the version being uploaded, keeps the versions in order.
LEMMA StoreKeepsOrder ==
  ASSUME Inv, httpPc = "recv",
         NEW content \in {Version, Broken, image[Target]}, Store(content),
         content \in {Version, Broken} \/ Touched,
         UNCHANGED <<boot, running, uploads>>, httpPc' # "set_boot"
  PROVE  VersionsInv'
<1>1. /\ Target \in Partitions /\ Target # running /\ running \in Partitions
      /\ Target' = Target /\ Version' = Version
  BY OtherPartition DEF Inv, TypeOK, Target, Version
<1>2. image'[running] = image[running] /\ image'[Target] = content
  BY StoreTarget DEF Inv
<1>3. image[running] \in Nat /\ image[running] < Version /\ Version \in Nat
  BY <1>1 DEF Inv, VersionsInv, TypeOK, Versions, Version, Factory, Broken
<1>4. NewerOrBroken(image[Target])'
  BY <1>1, <1>2, <1>3 DEF Inv, VersionsInv, NewerOrBroken, Touched
<1>5. \A p \in Partitions : image'[p] <= Version'
  <2> SUFFICES ASSUME NEW p \in Partitions PROVE image'[p] <= Version
    BY <1>1
  <2>1. CASE p = Target
    BY <1>1, <1>2, <1>3, <2>1 DEF Inv, VersionsInv, Broken
  <2>2. CASE p # Target
    BY <2>2, StoreTarget DEF Inv, VersionsInv
  <2> QED BY <2>1, <2>2
<1>6. image'[running'] # Broken /\ image'[running'] < Version'
  BY <1>1, <1>2, <1>3 DEF Inv, VersionsInv
<1> QED BY <1>4, <1>5, <1>6 DEF VersionsInv

LEMMA InvReceives ==
  ASSUME Inv, Receives
  PROVE  Inv'
<1>1. TypeOK'
  BY TypeReceives DEF Inv
<1>2. ReceivingInv'
  BY DEF Inv, TypeOK, ReceivingInv, Receives, RecvFirst, RecvFirstNoHeader, RecvNext, RecvZero,
         RecvTimeout, RecvError, GiveUp
<1>3. UNCHANGED <<boot, running, uploads>> /\ httpPc = "recv" /\ httpPc' # "set_boot"
  BY DEF Receives, RecvFirst, RecvFirstNoHeader, RecvNext, RecvZero, RecvTimeout, RecvError,
         GiveUp, At, flashVars
<1>4. VersionsInv'
  <2>1. CASE UNCHANGED image /\ handle' \in {handle, "unset"}
    <3>1. Target' = Target /\ Version' = Version
      BY <1>3 DEF Target, Version
    <3>2. Touched' => Touched
      BY <2>1, <1>3 DEF Touched, Receives, RecvFirst, RecvFirstNoHeader, RecvNext, RecvZero,
         RecvTimeout, RecvError, GiveUp, Inv, TypeOK
    <3>3. NewerOrBroken(image[Target]) => NewerOrBroken(image[Target])'
      BY <2>1, <1>3, <3>1 DEF NewerOrBroken
    <3> QED BY <2>1, <1>3, <3>1, <3>2, <3>3 DEF Inv, VersionsInv
  <2>2. CASE Store(Broken)
    BY <2>2, <1>3, StoreKeepsOrder
  <2>3. CASE \E content \in Contents(received + 1) : Store(content)
    <3>1. PICK content \in Contents(received + 1) : Store(content)
      BY <2>3
    <3>2. content \in {Version, Broken, image[Target]}
      BY <3>1, ContentsCases
    <3>3. content \in {Version, Broken} \/ Touched
      <4>1. CASE handle = "open"
        BY <4>1 DEF Touched
      <4>2. CASE handle = "unset"
        <5>1. received = 0
          BY <4>2, <1>3 DEF Inv, ReceivingInv
        <5>2. Contents(received + 1) \subseteq {Version, Broken}
          BY <5>1 DEF Contents
        <5> QED BY <5>2
      <4> QED BY <4>1, <4>2 DEF Inv, TypeOK
    <3> QED BY <1>3, <3>1, <3>2, <3>3, StoreKeepsOrder
  <2> QED
    BY <2>1, <2>2, <2>3 DEF Receives, RecvFirst, RecvFirstNoHeader, RecvNext, RecvZero,
       RecvTimeout, RecvError, GiveUp, flashVars
<1> QED BY <1>1, <1>2, <1>4 DEF Inv

\* Outside a receive no step writes an image.
LEMMA InvUpload ==
  ASSUME Inv, Upload
  PROVE  Inv'
<1>1. CASE Receives
  BY <1>1, InvReceives
<1>2. CASE EndImage \/ SetBoot \/ SendSuccessful \/ SendFailed
  <2>1. TypeOK'
    BY TypeUpload DEF Inv
  <2>2. /\ UNCHANGED <<image, running, uploads>> /\ httpPc' # "recv"
        /\ Target' = Target /\ Version' = Version
    BY <1>2 DEF EndImage, SetBoot, SendSuccessful, SendFailed, SendOutcome, EndFailed, flashVars,
       Target, Version
  <2>3. ReceivingInv'
    BY <2>2 DEF ReceivingInv
  <2>4. Touched' => Touched
    BY <1>2, OtherPartition DEF Touched, EndImage, SetBoot, SendSuccessful, SendFailed,
       SendOutcome, EndFailed, flashVars, At, Inv, TypeOK
  <2>5. httpPc' = "set_boot" => image[Target] # Broken
    BY <1>2 DEF EndImage, SetBoot, SendSuccessful, SendFailed, SendOutcome, EndFailed
  <2>6. NewerOrBroken(image[Target]) => NewerOrBroken(image[Target])'
    BY <2>2 DEF NewerOrBroken
  <2> QED BY <2>1, <2>2, <2>3, <2>4, <2>5, <2>6 DEF Inv, VersionsInv
<1> QED BY <1>1, <1>2 DEF Upload

LEMMA InvOthers ==
  ASSUME Inv, StartUpload \/ SendOther \/ Monitor \/ UNCHANGED vars
  PROVE  Inv'
<1>1. TypeOK'
  BY TypeOthers DEF Inv
<1>2. UNCHANGED flashVars /\ Target' = Target
  BY DEF StartUpload, SendOther, Monitor, MonitorReceive, MonitorArm, vars, flashVars, Target
<1>3. NewerOrBroken(image[Target]) => NewerOrBroken(image[Target])'
  BY <1>2 DEF NewerOrBroken, flashVars
<1>4. CASE StartUpload
  <2>1. uploads \in Nat /\ uploads' = uploads + 1 /\ Version \in Nat /\ Version' = Version + 1
    BY <1>4 DEF StartUpload, Inv, TypeOK, Version, Factory
  <2>2. ReceivingInv'
    BY <1>4, <2>1 DEF StartUpload, ReceivingInv
  <2>3. \A p \in Partitions : image'[p] \in Nat /\ image'[p] < Version'
    BY <1>2, <2>1 DEF flashVars, Inv, TypeOK, VersionsInv, Versions, Factory, Broken
  <2>4. (Touched' => Touched) /\ httpPc' = "recv"
    BY <1>2, <1>4 DEF StartUpload, Touched, flashVars
  <2>5. running' \in Partitions
    BY <1>1 DEF TypeOK
  <2> QED BY <1>1, <1>2, <1>3, <2>1, <2>2, <2>3, <2>4, <2>5 DEF Inv, VersionsInv, flashVars
<1>5. CASE SendOther \/ Monitor \/ UNCHANGED vars
  <2>1. UNCHANGED uploadVars
    BY <1>5 DEF SendOther, Monitor, MonitorReceive, MonitorArm, vars
  <2> QED
    BY <1>1, <1>2, <1>3, <2>1 DEF Inv, ReceivingInv, VersionsInv, Touched, Version, flashVars,
       uploadVars
<1> QED BY <1>4, <1>5

LEMMA InvNext == Inv /\ [Next]_vars => Inv'
BY InvUpload, InvOthers, InvRestart DEF Next, ResetCallback, PanicRestart, PowerCut

LEMMA Invariance == Spec => []Inv
BY InvInit, InvNext, PTL DEF Spec

\* Every variable keeps its type, so the monitor's queue never outgrows its depth.
THEOREM OtaTypeCorrect == Spec => []TypeOK
<1>1. Inv => TypeOK
  BY DEF Inv
<1> QED BY <1>1, Invariance, PTL

\* The running partition holds a whole image whatever uploads, crashes, power cuts
\* and restarts have happened.
THEOREM RunningStaysIntact == Spec => []RunningIntact
<1>1. Inv => RunningIntact
  BY DEF Inv, VersionsInv, RunningIntact
<1> QED BY <1>1, Invariance, PTL

\* No restart, wanted or not, brings an older version back.
THEOREM NeverDowngrades == Spec => NoDowngrade
<1>1. Inv /\ [Next]_vars => [running' # running => image[running'] > image[running]]_vars
  <2> SUFFICES ASSUME Inv, Next, running' # running
               PROVE  image[running'] > image[running]
    BY DEF vars, flashVars
  <2>1. Restart
    BY DEF Next, StartUpload, Upload, Receives, RecvFirst, RecvFirstNoHeader, RecvNext, RecvZero,
       RecvTimeout, RecvError, EndImage, SetBoot, SendSuccessful, SendFailed, SendOutcome,
       SendOther, Monitor, MonitorReceive, MonitorArm, ResetCallback, PanicRestart, PowerCut,
       flashVars
  <2>2. running' = boot /\ image[boot] # Broken /\ boot # running
    BY <2>1, BootChoice DEF Inv, VersionsInv
  <2>3. boot = Target
    BY <2>2, OtherPartition DEF Inv, TypeOK, Target
  <2> QED BY <2>2, <2>3 DEF Inv, VersionsInv, Touched, NewerOrBroken
<1> QED BY <1>1, Invariance, PTL DEF Spec, NoDowngrade

-----------------------------------------------------------------------------
(* What is reported *)

LEMMA ReportedInit == Init => SuccessMeansSelected
BY DEF Init, SuccessMeansSelected

LEMMA ReportedNext == TypeOK /\ SuccessMeansSelected /\ [Next]_vars => SuccessMeansSelected'
<1> SUFFICES ASSUME TypeOK, SuccessMeansSelected, [Next]_vars PROVE SuccessMeansSelected'
  OBVIOUS
<1> DEFINE Queued(q) == \E i \in 1..Len(q) : q[i] = "OTA_UPDATE_SUCCESSFUL"
<1>1. CASE Restart
  BY <1>1 DEF Restart, SuccessMeansSelected
<1>2. CASE StartUpload \/ Receives \/ EndImage \/ MonitorArm \/ UNCHANGED vars
  <2>1. /\ UNCHANGED <<boot, running, queue>>
        /\ status' = "successful" => status = "successful"
        /\ httpPc' # "send_successful" \/ httpPc' = httpPc
        /\ armed' => armed \/ status = "successful"
    <3>1. CASE StartUpload \/ UNCHANGED vars
      BY <3>1 DEF StartUpload, vars, flashVars, uploadVars, monitorVars
    <3>2. CASE Receives
      BY <3>2 DEF Receives, RecvFirst, RecvFirstNoHeader, RecvNext, RecvZero, RecvTimeout,
         RecvError, GiveUp, flashVars, monitorVars
    <3>3. CASE EndImage
      BY <3>3 DEF EndImage, EndFailed, flashVars, monitorVars
    <3>4. CASE MonitorArm
      BY <3>4 DEF MonitorArm, flashVars, uploadVars
    <3> QED BY <1>2, <3>1, <3>2, <3>3, <3>4
  <2> QED BY <2>1 DEF SuccessMeansSelected
<1>3. CASE SetBoot
  <2>1. CASE boot' = Target
    <3>1. boot' # running'
      BY <1>3, <2>1, OtherPartition DEF SetBoot, TypeOK, Target
    <3> QED BY <3>1 DEF SuccessMeansSelected
  <2>2. CASE UNCHANGED boot /\ EndFailed
    BY <1>3, <2>2 DEF SetBoot, EndFailed, SuccessMeansSelected, monitorVars
  <2> QED BY <1>3, <2>1, <2>2 DEF SetBoot
<1>4. CASE SendSuccessful \/ SendFailed \/ SendOther
  <2>1. PICK message \in Messages : /\ queue' = Append(queue, message)
                                    /\ message = "OTA_UPDATE_SUCCESSFUL" => httpPc = "send_successful"
    BY <1>4 DEF SendSuccessful, SendFailed, SendOther, SendOutcome, At, Messages, Outcomes
  <2>2. Queued(queue') => Queued(queue) \/ message = "OTA_UPDATE_SUCCESSFUL"
    BY <2>1, AppendProperties DEF TypeOK
  <2>3. /\ UNCHANGED <<boot, running, status, armed>>
        /\ httpPc' # "send_successful" \/ httpPc' = httpPc
    BY <1>4 DEF SendSuccessful, SendFailed, SendOther, SendOutcome, flashVars, uploadVars
  <2> QED BY <2>1, <2>2, <2>3 DEF SuccessMeansSelected
<1>5. CASE MonitorReceive
  <2>1. Queued(queue') => Queued(queue)
    BY <1>5, HeadTailProperties, LenProperties DEF MonitorReceive, TypeOK
  <2>2. Head(queue) = "OTA_UPDATE_SUCCESSFUL" => Queued(queue)
    BY <1>5, HeadTailProperties, LenProperties, EmptySeq DEF MonitorReceive, TypeOK
  <2>3. /\ UNCHANGED <<boot, running, httpPc, armed>>
        /\ status' = "successful" => status = "successful" \/ Head(queue) = "OTA_UPDATE_SUCCESSFUL"
    BY <1>5 DEF MonitorReceive, flashVars, uploadVars
  <2> QED BY <2>1, <2>2, <2>3 DEF SuccessMeansSelected
<1> QED
  BY <1>1, <1>2, <1>3, <1>4, <1>5 DEF Next, Upload, Monitor, ResetCallback, PanicRestart, PowerCut

\* A success is never reported, queued or acted upon without the new partition
\* selected: the restart it announces leads somewhere else than here.
THEOREM SuccessIsSelected == Spec => []SuccessMeansSelected
BY ReportedInit, ReportedNext, OtaTypeCorrect, PTL DEF Spec

-----------------------------------------------------------------------------
(* The promise *)

LEMMA PromiseInit == Init => Promise!Init
BY DEF Init, Promise!Init, waiting, Target, Other, Partitions, Factory, Broken

\* Outside a restart, a step on the image in the target is a Receive or a Discard.
LEMMA PromiseImage ==
  ASSUME Inv, Inv', UNCHANGED <<boot, running>>, image'[running] = image[running],
         image'[Target] \in {image[Target], Broken, Version}, httpPc = "recv" \/ UNCHANGED image
  PROVE  [Promise!Next]_<<image[running], waiting, boot # running>>
<1>1. Target' = Target /\ Target \in Partitions /\ running \in Partitions
  BY OtherPartition DEF Inv, TypeOK, Target
<1>2. image[running] \in Nat /\ image[Target] \in Nat /\ Version \in Nat
  BY <1>1 DEF Inv, TypeOK, Versions, Version, Factory, Broken
<1>3. CASE image'[Target] = image[Target]
  BY <1>1, <1>3 DEF waiting
<1>4. CASE image'[Target] = Broken
  <2>1. waiting' = 0
    BY <1>1, <1>2, <1>4 DEF waiting, Broken
  <2> QED BY <1>1, <2>1 DEF Promise!Next, Promise!Discard
<1>5. CASE image'[Target] = Version /\ httpPc = "recv"
  <2>1. waiting' = Version /\ Version > image[running]
    BY <1>1, <1>2, <1>5 DEF waiting, Inv, VersionsInv
  <2> QED BY <1>1, <1>2, <2>1 DEF Promise!Next, Promise!Receive
<1> QED BY <1>3, <1>4, <1>5, <1>1

LEMMA PromiseNext ==
  Inv /\ Inv' /\ [Next]_vars => [Promise!Next]_<<image[running], waiting, boot # running>>
<1> SUFFICES ASSUME Inv, Inv', [Next]_vars
             PROVE  [Promise!Next]_<<image[running], waiting, boot # running>>
  OBVIOUS
<1>1. CASE Restart
  <2>1. image' = image /\ boot' = boot
    BY <1>1 DEF Restart
  <2>2. CASE running' = running
    BY <2>1, <2>2 DEF waiting, Target
  <2>3. CASE running' # running
    <3>1. running' = boot /\ image[boot] # Broken /\ boot # running
      BY <1>1, <2>3, BootChoice DEF Inv, VersionsInv
    <3>2. boot = Target /\ running = Other(boot)
      BY <3>1, OtherPartition DEF Inv, TypeOK, Target
    <3>3. image[boot] > image[running] /\ image[boot] \in Nat /\ image[running] \in Nat
      BY <3>1, <3>2 DEF Inv, VersionsInv, Touched, NewerOrBroken, TypeOK, Versions, Factory, Broken
    <3>4. waiting = image[boot] /\ waiting # 0
      BY <3>2, <3>3 DEF waiting
    <3>5. waiting' = 0
      BY <2>1, <3>1, <3>2, <3>3 DEF waiting, Target
    <3>6. (boot' # running') = FALSE
      BY <2>1, <3>1
    <3>7. (image[running])' = waiting
      BY <2>1, <3>1, <3>4
    <3> QED BY <3>1, <3>4, <3>5, <3>6, <3>7 DEF Promise!Next, Promise!Install
  <2> QED BY <2>2, <2>3
<1>2. CASE Receives
  <2>1. UNCHANGED <<boot, running>> /\ httpPc = "recv"
    BY <1>2 DEF Receives, RecvFirst, RecvFirstNoHeader, RecvNext, RecvZero, RecvTimeout,
       RecvError, At, flashVars
  <2>2. UNCHANGED image \/ Store(Broken) \/ \E content \in Contents(received + 1) : Store(content)
    BY <1>2 DEF Receives, RecvFirst, RecvFirstNoHeader, RecvNext, RecvZero, RecvTimeout,
       RecvError, flashVars
  <2>3. /\ image'[running] = image[running]
        /\ image'[Target] \in {image[Target], Broken, Version}
    BY <2>2, StoreTarget, ContentsCases DEF Inv
  <2> QED BY <2>1, <2>3, PromiseImage
<1>3. CASE SetBoot
  <2>1. UNCHANGED <<image, running>> /\ waiting' = waiting
    BY <1>3 DEF SetBoot, waiting, Target
  <2>2. CASE boot' = Target
    <3>1. (boot' # running') = TRUE
      BY <2>1, <2>2, OtherPartition DEF Inv, TypeOK, Target
    <3>2. image[Target] # Broken /\ NewerOrBroken(image[Target])
      BY <1>3 DEF SetBoot, At, Inv, VersionsInv, Touched
    <3>3. waiting = image[Target] /\ waiting # 0
      BY <3>2 DEF waiting, NewerOrBroken, Broken
    <3> QED BY <2>1, <3>1, <3>3 DEF Promise!Next, Promise!Select
  <2>3. CASE UNCHANGED boot
    BY <2>1, <2>3
  <2> QED BY <1>3, <2>2, <2>3 DEF SetBoot
<1>4. CASE \/ StartUpload \/ EndImage \/ SendSuccessful \/ SendFailed \/ SendOther \/ Monitor
           \/ UNCHANGED vars
  <2>1. UNCHANGED flashVars
    BY <1>4 DEF StartUpload, EndImage, SendSuccessful, SendFailed, SendOutcome, SendOther, Monitor,
       MonitorReceive, MonitorArm, vars
  <2> QED BY <2>1 DEF flashVars, waiting, Target
<1> QED
  BY <1>1, <1>2, <1>3, <1>4 DEF Next, Upload, ResetCallback, PanicRestart, PowerCut

\* The update implements the promise of module Firmware: what runs changes only by
\* a restart into a whole, newer and selected image.
THEOREM UpdateKeepsPromise == Spec => KeepsPromise
BY PromiseInit, PromiseNext, Invariance, PTL DEF Spec, KeepsPromise, Promise!Spec
==============================================================================
