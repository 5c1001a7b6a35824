-------------------------- MODULE ActuatorManager --------------------------
(***************************************************************************)
(* actuators/ActuatorManager: every command is clamped to the range of     *)
(* each channel, and from the second one on no output may be further than  *)
(* max_step from the one before.  Angles are integers in any unit.         *)
(***************************************************************************)
EXTENDS Integers

CONSTANTS Channels,     \* the servos
          MinOut,       \* Config::min_out
          MaxOut,       \* Config::max_out
          MaxStep       \* Config::max_step

ASSUME LimitsAssumption ==
  /\ MinOut \in [Channels -> Int]
  /\ MaxOut \in [Channels -> Int]
  /\ MaxStep \in [Channels -> Nat]
  /\ \A ch \in Channels : MinOut[ch] <= MaxOut[ch]

VARIABLES lastOut,      \* lastOut_
          hasLast       \* hasLast_

managerVars == <<lastOut, hasLast>>

(* The values at most d away from x.                                       *)
Within(x, d) == (x - d) .. (x + d)

Clamp(x, lo, hi) == IF x < lo THEN lo ELSE IF hi < x THEN hi ELSE x

(* prev moved towards desired by at most step.                             *)
Limited(prev, desired, step) ==
  IF desired \in Within(prev, step) THEN desired
  ELSE IF prev < desired THEN prev + step ELSE prev - step

(* Mutant: the step is not limited.                                        *)
SafeOutputUnlimited(ch, target) == Clamp(target, MinOut[ch], MaxOut[ch])

(* Mutant: the range is checked before the first output only.              *)
SafeOutputUnclamped(ch, target) ==
  IF hasLast THEN Limited(lastOut[ch], target, MaxStep[ch])
  ELSE Clamp(target, MinOut[ch], MaxOut[ch])

(* The output of one channel for a target.                                 *)
SafeOutput(ch, target) ==
  LET desired == Clamp(target, MinOut[ch], MaxOut[ch])
  IN  IF hasLast THEN Limited(lastOut[ch], desired, MaxStep[ch]) ELSE desired

ManagerInit ==
  /\ lastOut = [ch \in Channels |-> 0]
  /\ hasLast = FALSE

OnCommand(target) ==
  /\ lastOut' = [ch \in Channels |-> SafeOutput(ch, target[ch])]
  /\ hasLast' = TRUE
=============================================================================
