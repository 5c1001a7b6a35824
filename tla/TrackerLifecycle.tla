-------------------------- MODULE TrackerLifecycle --------------------------
(***************************************************************************)
(* What SystemManager promises to the program that owns it, without        *)
(* threads, queues or states: the tracker is down, starting, failing, up   *)
(* or stopping; the servos are moved only while the driver is powered; it  *)
(* is powered by a start and unpowered before the tracker is down again;   *)
(* a stop leaves by way of the neutral pose, which nothing follows.  A     *)
(* start or a stop that has begun comes to an end.                         *)
(***************************************************************************)
CONSTANT NeutralSolvable  (* the kinematics can reach the neutral pose *)

VARIABLES
  phase,    (* "down", "starting", "failing", "up" or "stopping"          *)
  powered,  (* the servo driver runs                                      *)
  posture   (* who moved the servos last; "driver": it parks them itself  *)

vars == <<phase, powered, posture>>

Init == phase = "down" /\ ~powered /\ posture = "driver"

Enter(from, to) == phase = from /\ phase' = to /\ UNCHANGED <<powered, posture>>

Begin  == Enter("down", "starting") /\ ~powered
Come   == Enter("starting", "up") /\ powered
Abort  == Enter("starting", "failing") /\ ~powered
GiveUp == Enter("failing", "down") /\ ~powered
Halt   == Enter("up", "stopping")
Gone   == Enter("stopping", "down") /\ ~powered

PowerUp ==
  /\ phase = "starting" /\ ~powered
  /\ powered' = TRUE /\ posture' = "driver"
  /\ UNCHANGED phase

PowerDown ==
  /\ powered
  /\ \/ phase = "starting" /\ phase' = "failing"
     \/ /\ phase = "stopping" /\ (NeutralSolvable => posture = "neutral")
        /\ UNCHANGED phase
  /\ powered' = FALSE /\ posture' = "driver"

Move ==
  /\ powered /\ posture # "neutral"
  /\ posture' \in {"park", "auto", "manual"}
  /\ UNCHANGED <<phase, powered>>

Neutral ==
  /\ phase = "stopping" /\ powered /\ NeutralSolvable
  /\ posture' = "neutral"
  /\ UNCHANGED <<phase, powered>>

Progress ==
  Come \/ Abort \/ GiveUp \/ Gone \/ PowerUp \/ PowerDown \/ Neutral

Next == Begin \/ Halt \/ Move \/ Progress

Safe == Init /\ [][Next]_vars

Spec == Safe /\ WF_vars(Progress)
=============================================================================
