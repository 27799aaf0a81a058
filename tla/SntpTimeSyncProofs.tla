-------------------------- MODULE SntpTimeSyncProofs -------------------------
(***************************************************************************)
(* What TLAPS proves of SntpTimeSync for any set of time tasks and every   *)
(* depth of the monitor's queue.                                           *)
(***************************************************************************)
EXTENDS SntpTimeSync, TLAPS, SequenceTheorems

-----------------------------------------------------------------------------
(* Queues *)

Holds(q) == \E i \in 1..Len(q) : q[i] = "TIME_SERVICE_INITIALIZED"
Queued == Holds(queue)

LEMMA TailOfQueue ==
  ASSUME NEW S, NEW q \in Seq(S), q # <<>>
  PROVE  /\ Tail(q) \in Seq(S) /\ Len(Tail(q)) = Len(q) - 1
         /\ Holds(Tail(q)) \/ Head(q) = "TIME_SERVICE_INITIALIZED" => Holds(q)
<1>1. /\ Tail(q) \in Seq(S) /\ Len(Tail(q)) = Len(q) - 1 /\ Len(q) \in Nat \ {0}
      /\ Head(q) = q[1]
  BY HeadTailProperties, EmptySeq, LenProperties
<1>2. \A i \in 1..Len(Tail(q)) : Tail(q)[i] = q[i+1] /\ i+1 \in 1..Len(q)
  BY <1>1, HeadTailProperties
<1> QED BY <1>1, <1>2 DEF Holds

LEMMA AppendToQueue ==
  ASSUME NEW S, NEW q \in Seq(S), NEW msg \in S
  PROVE  /\ Append(q, msg) \in Seq(S) /\ Len(Append(q, msg)) = Len(q) + 1
         /\ Holds(Append(q, msg)) => Holds(q) \/ msg = "TIME_SERVICE_INITIALIZED"
<1>1. /\ Append(q, msg) \in Seq(S) /\ Len(Append(q, msg)) = Len(q) + 1 /\ Len(q) \in Nat
      /\ \A i \in 1..Len(q) : Append(q, msg)[i] = q[i]
      /\ Append(q, msg)[Len(q) + 1] = msg
  BY AppendProperties, LenProperties
<1> QED BY <1>1 DEF Holds

LEMMA EmptyQueue == <<>> \in Seq(Messages) /\ Len(<<>>) = 0 /\ ~Holds(<<>>)
BY EmptySeq DEF Holds

-----------------------------------------------------------------------------
(* Types *)

LEMMA TypeInit == Init => TypeOK
<1> SUFFICES ASSUME Init PROVE TypeOK
  OBVIOUS
<1>1. queue \in Seq(Messages) /\ Len(queue) <= QueueLength
  BY EmptyQueue, QueueLengthAssumption DEF Init
<1>2. pc \in [Tasks -> StartingPcs \union {"none", "delay"}]
  BY DEF Init
<1>3. 0 \in 0..MaxOthers
  BY MaxOthersAssumption
<1> QED BY <1>1, <1>2, <1>3 DEF Init, TypeOK

LEMMA TypeRestart ==
  ASSUME TypeOK, Restart, clock' \in {"unset", "set"}
  PROVE  TypeOK'
<1>1. queue' \in Seq(Messages) /\ Len(queue') <= QueueLength
  BY EmptyQueue, QueueLengthAssumption DEF Restart
<1>2. pc' \in [Tasks -> StartingPcs \union {"none", "delay"}]
  BY DEF Restart
<1>3. 0 \in 0..MaxOthers
  BY MaxOthersAssumption
<1> QED BY <1>1, <1>2, <1>3 DEF Restart, TypeOK

LEMMA TypeTimeTask ==
  ASSUME TypeOK, NEW t \in Tasks, TimeTask(t)
  PROVE  TypeOK'
<1> USE DEF TypeOK, Goto, wifiVars, monitorVars
<1>1. CASE Announce(t)
  <2>1. queue' \in Seq(Messages) /\ Len(queue') <= QueueLength
    BY <1>1, AppendToQueue, LenProperties, QueueLengthAssumption DEF Announce, HasRoom, Messages
  <2> QED BY <1>1, <2>1 DEF Announce
<1>2. CASE SetMode(t)
  <2>1. pc' \in [Tasks -> StartingPcs \union {"none", "delay"}] /\ opModeSet' \in BOOLEAN
    BY <1>2 DEF SetMode, StartingPcs
  <2> QED BY <1>2, <2>1 DEF SetMode
<1>3. CASE Check(t)
  BY <1>3 DEF Check, StartingPcs
<1>4. CASE ReadMode(t)
  BY <1>4 DEF ReadMode, StartingPcs
<1>5. CASE InitSntp(t)
  BY <1>5 DEF InitSntp, StartingPcs
<1>6. CASE DelayOver(t)
  BY <1>6 DEF DelayOver, StartingPcs
<1> QED BY <1>1, <1>2, <1>3, <1>4, <1>5, <1>6 DEF TimeTask

LEMMA TypeOthers ==
  ASSUME TypeOK, SetCallback \/ Connect \/ LoseLink \/ CallMqtt \/ Answer \/ SendOther \/ Monitor
  PROVE  TypeOK'
<1> USE DEF TypeOK, wifiVars, sntpVars, monitorVars
<1>1. CASE SetCallback \/ LoseLink \/ CallMqtt \/ Answer
  BY <1>1 DEF SetCallback, LoseLink, CallMqtt, Answer
<1>2. CASE Connect
  <2>1. pc' \in [Tasks -> StartingPcs \union {"none", "delay"}]
    BY <1>2 DEF Connect, StartTask, StartingPcs
  <2>2. calling' \in BOOLEAN
    BY <1>2 DEF Connect
  <2> QED BY <1>2, <2>1, <2>2 DEF Connect
<1>3. CASE SendOther
  <2>1. queue' \in Seq(Messages) /\ Len(queue') <= QueueLength
    BY <1>3, AppendToQueue, LenProperties, QueueLengthAssumption DEF SendOther, HasRoom, Messages
  <2> QED BY <1>3, <2>1, MaxOthersAssumption DEF SendOther
<1>4. CASE Monitor
  <2>1. queue' \in Seq(Messages) /\ Len(queue') <= QueueLength
    BY <1>4, TailOfQueue, LenProperties, QueueLengthAssumption DEF Monitor
  <2>2. timeSet' \in BOOLEAN
    BY <1>4 DEF Monitor
  <2> QED BY <1>4, <2>1, <2>2 DEF Monitor
<1> QED BY <1>1, <1>2, <1>3, <1>4

LEMMA TypeNext == TypeOK /\ [Next]_vars => TypeOK'
<1> SUFFICES ASSUME TypeOK, [Next]_vars PROVE TypeOK'
  OBVIOUS
<1>1. CASE UNCHANGED vars
  BY <1>1 DEF TypeOK, vars, wifiVars, sntpVars, monitorVars
<1>2. CASE PowerCut \/ SoftRestart \/ PanicRestart
  BY <1>2, TypeRestart DEF PowerCut, SoftRestart, PanicRestart, TypeOK
<1> QED BY <1>1, <1>2, TypeTimeTask, TypeOthers DEF Next

\* The monitor's queue keeps its depth whatever the tasks send.
THEOREM TimeTypeCorrect == Spec => []TypeOK
BY TypeInit, TypeNext, PTL DEF Spec

-----------------------------------------------------------------------------
(* What the page is told *)

\* A task that is about to announce the service has started it.
AnnounceInv ==
  /\ timeSet \/ Queued => running
  /\ \A t \in Tasks : pc[t] = "send" => running

LEMMA AnnounceInit == Init => AnnounceInv
BY EmptyQueue DEF Init, AnnounceInv, Queued

LEMMA AnnounceNext ==
  ASSUME TypeOK, AnnounceInv, [Next]_vars
  PROVE  AnnounceInv'
<1> USE DEF AnnounceInv, Queued
<1>1. ASSUME NEW t \in Tasks, Announce(t)
      PROVE  AnnounceInv'
  <2>1. running /\ UNCHANGED <<running, timeSet>>
    BY <1>1 DEF Announce, Goto
  <2> QED BY <2>1
<1>2. ASSUME NEW t \in Tasks, InitSntp(t)
      PROVE  AnnounceInv'
  BY <1>2 DEF InitSntp
<1>3. ASSUME NEW t \in Tasks, Check(t) \/ ReadMode(t) \/ SetMode(t) \/ DelayOver(t)
      PROVE  AnnounceInv'
  <2>1. UNCHANGED <<running, timeSet, queue>>
    BY <1>3 DEF Check, ReadMode, SetMode, DelayOver, monitorVars
  <2>2. \A s \in Tasks : pc'[s] = "send" => pc[s] = "send"
    BY <1>3 DEF Check, ReadMode, SetMode, DelayOver, Goto, TypeOK
  <2> QED BY <2>1, <2>2
<1>4. CASE Monitor
  <2>1. Queued' \/ timeSet' => Queued \/ timeSet
    BY <1>4, TailOfQueue DEF Monitor, TypeOK
  <2> QED BY <1>4, <2>1 DEF Monitor, sntpVars
<1>5. CASE SendOther
  <2>1. Queued' => Queued
    BY <1>5, AppendToQueue DEF SendOther, TypeOK, Messages
  <2> QED BY <1>5, <2>1 DEF SendOther, sntpVars
<1>6. CASE Connect
  <2>1. \A s \in Tasks : pc'[s] = "send" => pc[s] = "send"
    BY <1>6 DEF Connect, StartTask, TypeOK
  <2> QED BY <1>6, <2>1 DEF Connect, monitorVars
<1>7. CASE SetCallback \/ LoseLink \/ CallMqtt \/ Answer \/ UNCHANGED vars
  BY <1>7 DEF SetCallback, LoseLink, CallMqtt, Answer, vars, sntpVars, monitorVars
<1>8. CASE PowerCut \/ SoftRestart \/ PanicRestart
  BY <1>8, EmptyQueue DEF PowerCut, SoftRestart, PanicRestart, Restart
<1> QED BY <1>1, <1>2, <1>3, <1>4, <1>5, <1>6, <1>7, <1>8 DEF Next, TimeTask

\* The page is told of the time service only when lwIP's client runs, however many tasks
\* start it at once (sntp_time_sync.c:20-28).
THEOREM AnnouncedServiceRuns == Spec => []AnnouncedRuns
<1>1. AnnounceInv => AnnouncedRuns
  BY DEF AnnounceInv, AnnouncedRuns, Queued, Holds
<1> QED BY <1>1, TypeInit, TypeNext, AnnounceInit, AnnounceNext, PTL DEF Spec

-----------------------------------------------------------------------------
(* The operating mode *)

\* The service needs no start by another task.
Settled == opModeSet \/ clock = "set"

\* A task that sets the mode is alone: another could have been created only when it had
\* gone through its start, and then the mode is set, or the clock was and no task sets it.
ModeInv ==
  /\ running => opModeSet
  /\ fault # "set_mode"
  /\ \A t \in Tasks :
       /\ pc[t] = "delay" => Settled
       /\ pc[t] \in {"init", "send"} => opModeSet
       /\ pc[t] = "read_mode" => opModeSet \/ clock = "unset"
       /\ pc[t] = "set_mode" => ~opModeSet /\ clock = "unset"
  /\ \A s, t \in Tasks : s # t /\ Starting(s) /\ Starting(t) => Settled

LEMMA ModeInit == Init => ModeInv
BY DEF Init, ModeInv, Starting, StartingPcs

\* Where one task is after its step, and the others are where they were.
LEMMA OneTaskMoves ==
  ASSUME TypeOK, NEW t \in Tasks, NEW from, NEW to, Goto(t, from, to)
  PROVE  /\ pc[t] = from /\ pc'[t] = to
         /\ \A s \in Tasks : s # t => pc'[s] = pc[s]
BY DEF TypeOK, Goto

LEMMA ModeTimeTask ==
  ASSUME TypeOK, ModeInv, NEW t \in Tasks, TimeTask(t)
  PROVE  ModeInv'
<1> USE DEF ModeInv, Settled, Starting, StartingPcs
<1>1. CASE Check(t)
  <2>1. Goto(t, "check", IF clock = "unset" THEN "read_mode" ELSE "delay")
        /\ UNCHANGED <<clock, opModeSet, running, fault>>
    BY <1>1 DEF Check
  <2> QED BY <2>1, OneTaskMoves DEF TypeOK
<1>2. CASE ReadMode(t)
  <2>1. Goto(t, "read_mode", IF opModeSet THEN "init" ELSE "set_mode")
        /\ UNCHANGED <<clock, opModeSet, running, fault>>
    BY <1>2 DEF ReadMode
  <2> QED BY <2>1, OneTaskMoves DEF TypeOK
<1>3. CASE SetMode(t)
  <2>1. pc[t] = "set_mode" /\ ~running
    BY <1>3 DEF SetMode, Goto
  <2>2. Goto(t, "set_mode", "init") /\ opModeSet' = TRUE /\ UNCHANGED <<clock, running, fault>>
    BY <1>3, <2>1 DEF SetMode
  <2>3. \A s \in Tasks : s # t => pc[s] # "set_mode"
    BY <2>1
  <2> QED BY <2>2, <2>3, OneTaskMoves DEF TypeOK
<1>4. CASE InitSntp(t)
  <2>1. Goto(t, "init", "send") /\ UNCHANGED <<clock, opModeSet, fault>>
    BY <1>4 DEF InitSntp
  <2> QED BY <2>1, OneTaskMoves DEF TypeOK
<1>5. CASE Announce(t)
  <2>1. Goto(t, "send", "delay") /\ UNCHANGED <<clock, opModeSet, running, fault>>
    BY <1>5 DEF Announce
  <2> QED BY <2>1, OneTaskMoves DEF TypeOK
<1>6. CASE DelayOver(t)
  <2>1. Goto(t, "delay", "check") /\ UNCHANGED <<clock, opModeSet, running, fault>>
    BY <1>6 DEF DelayOver
  <2> QED BY <2>1, OneTaskMoves DEF TypeOK
<1> QED BY <1>1, <1>2, <1>3, <1>4, <1>5, <1>6 DEF TimeTask

LEMMA ModeConnect ==
  ASSUME timed, TypeOK, ModeInv, Connect
  PROVE  ModeInv'
<1> USE DEF ModeInv, Settled, Starting, StartingPcs
<1>1. /\ \A s \in Tasks : ~Starting(s)
      /\ UNCHANGED <<clock, opModeSet, running, fault>>
      /\ StartTask \/ UNCHANGED pc
  BY DEF Connect
<1>2. CASE UNCHANGED pc
  BY <1>1, <1>2
<1>3. ASSUME NEW t \in Tasks, pc' = [pc EXCEPT ![t] = "check"]
      PROVE  ModeInv'
  <2>1. pc'[t] = "check" /\ \A s \in Tasks : s # t => pc'[s] = pc[s]
    BY <1>3 DEF TypeOK
  <2> QED BY <1>1, <2>1
<1> QED BY <1>1, <1>2, <1>3 DEF StartTask

LEMMA ModeNext ==
  ASSUME timed, TypeOK, ModeInv, [Next]_vars
  PROVE  ModeInv'
<1>1. CASE SetCallback \/ LoseLink \/ CallMqtt \/ SendOther \/ Monitor \/ UNCHANGED vars
  <2>1. UNCHANGED <<clock, pc, opModeSet, running>> /\ (UNCHANGED fault \/ fault' # "set_mode")
    BY <1>1 DEF SetCallback, LoseLink, CallMqtt, SendOther, Monitor, vars, sntpVars
  <2> QED BY <2>1 DEF ModeInv, Settled, Starting
<1>2. CASE Answer
  BY <1>2 DEF Answer, ModeInv, Settled, Starting, sntpVars
<1>3. CASE PowerCut \/ SoftRestart \/ PanicRestart
  BY <1>3 DEF PowerCut, SoftRestart, PanicRestart, Restart, ModeInv, Starting, StartingPcs
<1> QED BY <1>1, <1>2, <1>3, ModeTimeTask, ModeConnect DEF Next

\* No step changes how long a connection takes.
LEMMA SameTiming == [Next]_vars => timed' = timed
BY DEF Next, SetCallback, Connect, LoseLink, CallMqtt, TimeTask, Check, ReadMode, SetMode,
       InitSntp, Announce, DelayOver, Answer, SendOther, Monitor, PowerCut, SoftRestart,
       PanicRestart, Restart, vars, wifiVars

\* When a connection takes longer than a task's start, no task sets the operating mode of
\* a client that runs (sntp_time_sync.c:13-25).
THEOREM ModeComesFirst == Spec => []ModeSetBeforeRunning
<1> DEFINE Inv == timed => ModeInv
<1>1. Inv => ModeSetBeforeRunning
  BY DEF ModeInv, ModeSetBeforeRunning
<1>2. Init => Inv
  BY ModeInit
<1>3. TypeOK /\ Inv /\ [Next]_vars => Inv'
  <2> SUFFICES ASSUME TypeOK, Inv, [Next]_vars, timed' PROVE ModeInv'
    OBVIOUS
  <2>1. timed' = timed
    BY SameTiming
  <2> QED BY <2>1, ModeNext
<1> HIDE DEF Inv
<1> QED BY <1>1, <1>2, <1>3, TypeInit, TypeNext, PTL DEF Spec
==============================================================================
