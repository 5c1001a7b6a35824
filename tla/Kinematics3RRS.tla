--------------------------- MODULE Kinematics3RRS ---------------------------
(***************************************************************************)
(* Kinematics3RRS: what computeIK_() makes of the two solutions each leg's *)
(* geometry has, and the continuity it keeps from one setpoint to the      *)
(* next.  The trigonometry that leads to the two angles is not modelled: a *)
(* pose gives each leg the pair <<qA, qB>> of gamma + a and gamma - a, or  *)
(* no solution: a degenerate, an unreachable or a non-finite one.          *)
(* Mechanism angles are whole numbers of half degrees, commanded angles    *)
(* whole degrees.                                                          *)
(***************************************************************************)
EXTENDS Integers

CONSTANTS Legs,             \* the three legs
          ServoNeutral,     \* Config::servo_neutral_deg, per leg
          ServoDir          \* Config::servo_dir, per leg

ASSUME KinematicsAssumption ==
  /\ ServoNeutral \in [Legs -> 0 .. 180]
  /\ ServoDir \in [Legs -> {-1, 1}]

Unsolvable == << >>

VARIABLES geometryValid,    \* every length of the configuration is positive
          qPrev,            \* q_prev_: mechanism angle of each leg
          lastValid,        \* last_valid_deg_: last computed target
          cmd               \* the last command handed to cmdCb_

kinematicsVars == <<geometryValid, qPrev, lastValid, cmd>>

Turn == 720                 \* a full turn in half degrees
Angle == -(Turn \div 2) .. Turn \div 2 - 1

KinematicsTypeOK ==
  /\ geometryValid \in BOOLEAN
  /\ qPrev \in [Legs -> Angle]
  /\ lastValid \in [Legs -> 0 .. 180]
  /\ cmd.status \in {"none", "Ok", "KinematicsFallbackLastValid",
                     "KinematicsInvalidConfig"}
  /\ cmd.targets \in [Legs -> 0 .. 180]

KinematicsInit ==
  /\ geometryValid \in BOOLEAN
  /\ qPrev = [leg \in Legs |-> 0]
  /\ lastValid = ServoNeutral
  /\ cmd = [status |-> "none", targets |-> ServoNeutral]

WrapAngle(q) == ((q + Turn \div 2) % Turn) - Turn \div 2

Distance(p, q) == IF p < q THEN q - p ELSE p - q

ChooseClosest(q1, q2, prev) ==
  IF Distance(WrapAngle(q1), prev) <= Distance(WrapAngle(q2), prev)
  THEN WrapAngle(q1) ELSE WrapAngle(q2)

OtherBranch(q1, q2, cur) ==
  IF Distance(cur, WrapAngle(q1)) < Distance(cur, WrapAngle(q2))
  THEN WrapAngle(q2) ELSE WrapAngle(q1)

(* cos(q) < 0: the horn points inward.                                     *)
Inward(q) == q < -(Turn \div 4) \/ q > Turn \div 4

(* Mutant: the closest branch, wherever it points.                         *)
MechanismAngleNoSwitch(q, prev) == ChooseClosest(q[1], q[2], prev)

(* The angle a leg takes: the closest, or the other if that points inward. *)
MechanismAngle(q, prev) ==
  LET near == ChooseClosest(q[1], q[2], prev)
  IN IF Inward(near) THEN OtherBranch(q[1], q[2], near) ELSE near

(* Mapped to the servo, clamped to 0..180 and rounded half up.             *)
ServoDegrees(leg, q) ==
  LET deg2 == 2 * ServoNeutral[leg] + ServoDir[leg] * q
  IN ((IF deg2 < 0 THEN 0 ELSE IF deg2 > 360 THEN 360 ELSE deg2) + 1) \div 2

(* Mutant: a fallback is reported as a solution.                           *)
StatusSilent(solved) == "Ok"

Status(solved) ==
  IF solved = Legs THEN "Ok" ELSE "KinematicsFallbackLastValid"

(* computeIK_(): every call hands out a command.  A leg without a solution *)
(* repeats what was last computed for it, and the status says so; the legs *)
(* that have one move on all the same.                                     *)
Solve(pose) ==
  LET solved == {leg \in Legs : pose[leg] # Unsolvable}
  IN /\ qPrev' = [leg \in Legs |->
                    IF leg \in solved
                    THEN MechanismAngle(pose[leg], qPrev[leg])
                    ELSE qPrev[leg]]
     /\ lastValid' = [leg \in Legs |->
                        IF leg \in solved THEN ServoDegrees(leg, qPrev'[leg])
                        ELSE lastValid[leg]]
     /\ cmd' = [status |-> Status(solved), targets |-> lastValid']
     /\ UNCHANGED geometryValid

RefuseGeometry ==
  /\ cmd' = [status |-> "KinematicsInvalidConfig", targets |-> lastValid]
  /\ UNCHANGED <<geometryValid, qPrev, lastValid>>

ComputeIK(pose) == IF geometryValid THEN Solve(pose) ELSE RefuseGeometry
=============================================================================
