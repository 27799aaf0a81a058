------------------------------ MODULE Firmware -------------------------------
(***************************************************************************)
(* What the update over the air promises, whatever happens to uploads,     *)
(* messages and the power supply: the device runs a whole image, goes to   *)
(* another one only by a restart after that image was uploaded completely  *)
(* and selected, and never goes back to an older one.  Versions are the    *)
(* numbers of the uploads; 0 is no image.                                  *)
(***************************************************************************)
EXTENDS Naturals

CONSTANT Factory      \* the version the device is delivered with

VARIABLES
  installed,   \* the version that runs
  waiting,     \* the newer version stored beside it, 0 if there is none
  selected     \* the next start tries the stored version first

Init == installed = Factory /\ waiting = 0 /\ selected = FALSE

\* The last piece of an upload has been stored.
Receive ==
  /\ waiting' \in Nat /\ waiting' > installed
  /\ UNCHANGED <<installed, selected>>

\* Another upload overwrites what was stored.
Discard == waiting' = 0 /\ UNCHANGED <<installed, selected>>

Select ==
  /\ waiting # 0
  /\ selected' = TRUE
  /\ UNCHANGED <<installed, waiting>>

Install ==
  /\ selected /\ waiting # 0
  /\ installed' = waiting
  /\ waiting' = 0 /\ selected' = FALSE

Next == Receive \/ Discard \/ Select \/ Install

Spec == Init /\ [][Next]_<<installed, waiting, selected>>
==============================================================================
