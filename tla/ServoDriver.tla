---------------------------- MODULE ServoDriver ----------------------------
(***************************************************************************)
(* actuators/ServoDriver between ActuatorManager and PCA9685: start() picks*)
(* a runtime mode under the startup policy, apply() turns angles into      *)
(* pulses, start() and stop() may park the servos.  start(), stop() and    *)
(* the commands come one at a time (SystemManager spawns the actuator      *)
(* thread after start() and joins it before stop()), so each call is one   *)
(* step; what a step leaves open is which bus calls fail.                  *)
(*                                                                         *)
(* level is what the servos are told, lastOut what the manager believes    *)
(* they were told.  shown and missed are history variables that relate     *)
(* the two: where the level of a channel comes from, and how many outputs  *)
(* the channel has not taken since.                                        *)
(***************************************************************************)
EXTENDS ActuatorManager, PCA9685

CONSTANTS Targets,      \* angles a command may ask for
          MinDeg, MaxDeg, Neutral, MinPulse, MaxPulse,  \* ChannelConfig
          Inverted,     \* channels mounted mirrored
          MaxMissed     \* bound: outputs in a row a channel may miss

ASSUME ServoAssumption ==
  /\ Targets \subseteq Int
  /\ MinDeg \in [Channels -> Int] /\ MaxDeg \in [Channels -> Int]
  /\ \A ch \in Channels : MinDeg[ch] < MaxDeg[ch]
  /\ Neutral \in [Channels -> Int]
  /\ MinPulse \in Nat /\ MaxPulse \in Nat /\ MinPulse <= MaxPulse
  /\ Period < 2 * Ticks * (Period - MaxPulse)  \* by half a count and more
  /\ Inverted \subseteq Channels
  /\ MaxMissed \in Nat

VARIABLES config,       \* Config: startup_policy, park_on_start, park_on_stop
          running,      \* running_
          mode,         \* runtimeMode_
          device,       \* pca_ holds a chip driver
          shown, missed

driverVars == <<config, running, mode, device>>
history    == <<shown, missed>>
vars == <<managerVars, chipVars, driverVars, history>>

Policies == {"PreferHardware", "RequireHardware", "LogOnly"}

Configs == [policy : Policies, parkOnStart : BOOLEAN, parkOnStop : BOOLEAN]

(* The variables' types; the manager's outputs are within its limits.      *)
TypeOK ==
  /\ lastOut \in [Channels -> Int] /\ hasLast \in BOOLEAN
  /\ hasLast => \A ch \in Channels : lastOut[ch] \in MinOut[ch] .. MaxOut[ch]
  /\ chip \in Chips /\ level \in [Channels -> 0 .. Ticks - 1]
  /\ config \in Configs
  /\ running \in BOOLEAN
  /\ mode \in {"Stopped", "Hardware", "LogOnly"}
  /\ device \in BOOLEAN
  /\ shown \in [Channels -> {"nothing", "park", "command"}]
  /\ missed \in [Channels -> Nat]

-----------------------------------------------------------------------------
(* Mutant: the angle is not clamped.                                       *)
LevelUnclamped(ch, deg) ==
  LET span  == MaxDeg[ch] - MinDeg[ch]
      up    == deg - MinDeg[ch]
      pulse == MinPulse * span + up * (MaxPulse - MinPulse)
  IN  Counts(pulse, Period * span)

(* The count of an angle: deg_to_pulse_us, kept as a fraction of the       *)
(* channel's span, then set_pulse_us.                                      *)
Level(ch, deg) ==
  LET span  == MaxDeg[ch] - MinDeg[ch]
      up    == Clamp(deg, MinDeg[ch], MaxDeg[ch]) - MinDeg[ch]
      t     == IF ch \in Inverted THEN span - up ELSE up
      pulse == MinPulse * span + t * (MaxPulse - MinPulse)
  IN  Counts(pulse, Period * span)

(* The channels that take the pulses of angles written in runtime mode m:  *)
(* none without hardware, and those alone whose bus call does not fail.    *)
Write(angles, from, m, held) ==
  \E took \in SUBSET Channels :
    /\ took # {} => m = "Hardware" /\ held
    /\ \A ch \in Channels \ took : missed[ch] < MaxMissed
    /\ level' = [ch \in Channels |->
                  IF ch \in took THEN Level(ch, angles[ch]) ELSE level[ch]]
    /\ shown' = [ch \in Channels |->
                  IF ch \in took THEN from ELSE shown[ch]]
    /\ missed' = [ch \in Channels |->
                  IF ch \in took THEN 0 ELSE missed[ch] + 1]

NoWrite == UNCHANGED <<level, shown, missed>>

(* park_all() in runtime mode m, when it is configured.                    *)
Park(wanted, m, held) ==
  IF wanted /\ m = "Hardware" THEN Write(Neutral, "park", m, held) ELSE NoWrite

-----------------------------------------------------------------------------
Init ==
  /\ ManagerInit
  /\ chip \in Chips
  /\ level = [ch \in Channels |-> 0]
  /\ config \in Configs
  /\ running = FALSE
  /\ mode = "Stopped"
  /\ device \in BOOLEAN
  /\ shown = [ch \in Channels |-> "nothing"]
  /\ missed = [ch \in Channels |-> 0]

(* start() with hardware: tryCreateAndInitHardware_ succeeds.              *)
StartHardware ==
  /\ ~running
  /\ config.policy # "LogOnly"
  /\ ChipInitialised
  /\ running' = TRUE
  /\ mode' = "Hardware"
  /\ device' = TRUE
  /\ Park(config.parkOnStart, mode', device')
  /\ UNCHANGED <<managerVars, config>>

(* start() without: the bus cannot be opened or init() fails on the way.   *)
StartWithoutHardware ==
  /\ ~running
  /\ IF config.policy = "LogOnly" THEN UNCHANGED chip ELSE ChipInitFails
  /\ running' = (config.policy # "RequireHardware")
  /\ mode' = IF running' THEN "LogOnly" ELSE "Stopped"
  /\ device' = FALSE
  /\ Park(config.parkOnStart, mode', device')
  /\ UNCHANGED <<managerVars, config>>

(* Mutant: the mode is reset before the servos are parked.                 *)
StopResetsModeFirst ==
  /\ running
  /\ running' = FALSE
  /\ mode' = "Stopped"
  /\ Park(config.parkOnStop, mode', device)
  /\ UNCHANGED <<managerVars, chip, config, device>>

(* stop(): the servos are parked in the mode the driver still has.         *)
Stop ==
  /\ running
  /\ running' = FALSE
  /\ Park(config.parkOnStop, mode, device)
  /\ mode' = "Stopped"
  /\ UNCHANGED <<managerVars, chip, config, device>>

(* A command: ActuatorManager::onCommand and, through the safe command     *)
(* callback, apply(), which does nothing when the driver is stopped.       *)
Command ==
  \E target \in [Channels -> Targets] :
    /\ OnCommand(target)
    /\ Write(lastOut', "command", IF running THEN mode ELSE "Stopped", device)
    /\ UNCHANGED <<chip, driverVars>>

Next ==
  \/ StartHardware
  \/ StartWithoutHardware
  \/ Stop
  \/ Command

Spec == Init /\ [][Next]_vars

-----------------------------------------------------------------------------
(* A driver in hardware mode drives a chip that is awake, set up and       *)
(* scaled, whatever state failed attempts of this or an earlier run left   *)
(* it in; every other mode agrees with the startup policy.                 *)
HardwareReady ==
  /\ mode = "Hardware" =>
       running /\ device /\ Ready(chip) /\ config.policy # "LogOnly"
  /\ mode = "LogOnly" => running /\ config.policy # "RequireHardware"
  /\ mode = "Stopped" => ~running

(* The servos lag behind what the slew limiter believes by at most one     *)
(* step for every output they missed, over bus failures, stops and         *)
(* restarts, as long as they were last moved by a command.                 *)
LagBounded ==
  \A ch \in Channels : shown[ch] = "command" =>
    /\ hasLast
    /\ \E deg \in MinOut[ch] .. MaxOut[ch] :
         /\ deg \in Within(lastOut[ch], missed[ch] * MaxStep[ch])
         /\ level[ch] = Level(ch, deg)

(* No pulse is outside the range of its servo, by more than the rounding   *)
(* to counts, nor wrapped around by the twelve bits of the register.       *)
PulsesInRange ==
  \A ch \in Channels : shown[ch] # "nothing" =>
    /\ 2 * Period * level[ch] >= 2 * Ticks * MinPulse - Period
    /\ 2 * Period * level[ch] <= 2 * Ticks * MaxPulse + Period

(* stop() leaves every servo that answers at its neutral angle, though it  *)
(* has reset running_ by then.                                             *)
StopParks ==
  [][ mode = "Hardware" /\ mode' = "Stopped" /\ config.parkOnStop =>
        \A ch \in Channels : missed'[ch] = 0 =>
          /\ shown'[ch] = "park"
          /\ level'[ch] = Level(ch, Neutral[ch]) ]_vars

(* A servo that commands move is never moved by more than a step, and one  *)
(* more for every output it has missed before, over bus failures, stops    *)
(* and restarts.  Only what parking has moved may jump.                    *)
MotionLimited ==
  [][ \A ch \in Channels :
        shown[ch] = "command" /\ shown'[ch] = "command" =>
          \E before, after \in MinOut[ch] .. MaxOut[ch] :
            /\ level[ch] = Level(ch, before) /\ level'[ch] = Level(ch, after)
            /\ after \in Within(before, (missed[ch] + 1) * MaxStep[ch]) ]_vars
=============================================================================
