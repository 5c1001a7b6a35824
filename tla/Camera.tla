------------------------------- MODULE Camera -------------------------------
(***************************************************************************)
(* What sensors/ICamera promises its user: frames come in the order of     *)
(* their ids, only between start() and the return of stop(), and a camera  *)
(* may die, after which no frame comes until it is stopped and started     *)
(* again.                                                                  *)
(***************************************************************************)
EXTENDS Naturals

VARIABLES status,       \* "off", "on" or "dead"
          last          \* the id of the last frame

TurnOn  == status = "off" /\ status' = "on" /\ UNCHANGED last
Deliver == status = "on" /\ last' \in Nat /\ last' > last /\ UNCHANGED status
Die     == status = "on" /\ status' = "dead" /\ UNCHANGED last
TurnOff == status # "off" /\ status' = "off" /\ UNCHANGED last

Spec ==
  /\ status = "off" /\ last = 0
  /\ [][TurnOn \/ Deliver \/ Die \/ TurnOff]_<<status, last>>
=============================================================================
