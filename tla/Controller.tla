----------------------------- MODULE Controller -----------------------------
(***************************************************************************)
(* Controller: from an estimate to a bounded setpoint of the platform, a   *)
(* proportional law with a deadband.  onEstimate() keeps no state and      *)
(* hands out a setpoint for every estimate.                                *)
(***************************************************************************)
EXTENDS Fractions

CONSTANTS Width, Height,        \* Config::width, height
          Deadband,             \* Config::deadband
          KPan, KTilt,          \* Config::k_pan, k_tilt
          MaxPan, MaxTilt,      \* Config::max_pan_rad, max_tilt_rad
          MinConfidence         \* Config::min_confidence

ASSUME ControllerAssumption ==
  /\ Width \in Int /\ Height \in Int
  /\ {Deadband, KPan, KTilt, MaxPan, MaxTilt, MinConfidence} \subseteq Fraction
  /\ Leq(Zero, Deadband) /\ Lt(Deadband, One)
  /\ \A f \in {KPan, KTilt, MaxPan, MaxTilt} : Leq(Zero, f)
  /\ Lt(Zero, MinConfidence)

Level == [pan |-> Zero, tilt |-> Zero]

(* How far a coordinate is from the middle, in halves of the image.        *)
Error(c, size) == Over(Minus(c, <<size, 2>>), <<size, 2>>)

(* Mutant: the deadband is cut out and the rest left as it was.            *)
ApplyDeadbandJumps(e) == IF Leq(Abs(e), Deadband) THEN Zero ELSE e

(* The deadband is cut out and the rest stretched to meet it.              *)
ApplyDeadband(e) ==
  IF Leq(Abs(e), Deadband) THEN Zero
  ELSE LET rest == Over(Minus(Abs(e), Deadband), Minus(One, Deadband))
       IN IF e[1] >= 0 THEN rest ELSE Neg(rest)

(* One axis: a centroid that is no number stays none.                      *)
Steered(c, size, gain, limit) ==
  IF c = <<0, 0>> THEN c
  ELSE Clamp(Times(gain, ApplyDeadband(Error(c, size))), Neg(limit), limit)

(* Mutant: no confidence gate.                                             *)
SetpointUngated(est) ==
  IF Width <= 0 \/ Height <= 0 THEN Level
  ELSE [pan |-> Steered(est.cx, Width, KPan, MaxPan),
        tilt |-> Steered(est.cy, Height, KTilt, MaxTilt)]

Setpoint(est) ==
  IF Lt(est.confidence, MinConfidence) \/ Width <= 0 \/ Height <= 0
  THEN Level
  ELSE [pan |-> Steered(est.cx, Width, KPan, MaxPan),
        tilt |-> Steered(est.cy, Height, KTilt, MaxTilt)]
=============================================================================
