--------------------------- MODULE MqttDelivery ---------------------------
(***************************************************************************)
(* What the QoS levels promise of one message, whichever way it goes: once *)
(* the sender has taken it, it is delivered before it is reported as done, *)
(* never after, and a QoS 2 message never twice.  A session that is lost   *)
(* drops what it had not completed.                                        *)
(***************************************************************************)
EXTENDS Naturals

CONSTANTS Messages, ExactlyOnce    \* all messages; those sent with QoS 2
VARIABLES stage,                   \* stage of every message
          copies                   \* times its receiver got it, counted up to 2

Init == stage = [m \in Messages |-> "new"] /\ copies = [m \in Messages |-> 0]

Take(m) == /\ stage[m] = "new"
           /\ stage' = [stage EXCEPT ![m] = "open"]
           /\ UNCHANGED copies

Deliver(m) == /\ stage[m] = "open"
              /\ m \in ExactlyOnce => copies[m] = 0
              /\ copies' = [copies EXCEPT ![m] = IF @ = 2 THEN 2 ELSE @ + 1]
              /\ UNCHANGED stage

Finish(m) == /\ stage[m] = "open" /\ copies[m] > 0
             /\ stage' = [stage EXCEPT ![m] = "done"]
             /\ UNCHANGED copies

DropSession == /\ stage' = [m \in Messages |-> IF stage[m] = "open" THEN "dropped" ELSE stage[m]]
               /\ UNCHANGED copies

Next == DropSession \/ \E m \in Messages : Take(m) \/ Deliver(m) \/ Finish(m)

Spec == Init /\ [][Next]_<<stage, copies>>
=============================================================================
