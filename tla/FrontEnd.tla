------------------------------ MODULE FrontEnd ------------------------------
(***************************************************************************)
(* What the two front ends share: the tracker they start, steer and stop.  *)
(* Of SystemManager only what they set is kept: the mode that decides what *)
(* a call does, the manual setpoint and the threshold.                     *)
(***************************************************************************)
EXTENDS Integers, Sequences

CONSTANTS Angles,           \* what a slider or a typed setpoint may say
          MaxThreshold,     \* 255
          ThresholdStep,    \* 5, and UiViewer's Config::thr_step
          StartThreshold    \* AppConfig's tracker.threshold

ASSUME FrontEndAssumption ==
  /\ 0 \in Angles
  /\ MaxThreshold \in Nat /\ ThresholdStep \in Nat
  /\ StartThreshold \in 0 .. MaxThreshold

VARIABLES frontEnd,     \* "terminal" (app) or "window" (qt)
          tracker,      \* "stopped", "failed" to start, "auto", "manual"
                        \* or "fault"
          setpoint,     \* the last manual setpoint taken, <<tilt, pan>>
          threshold     \* the tracker's threshold

trackerVars == <<frontEnd, tracker, setpoint, threshold>>

Setpoints == Angles \X Angles
NoSetpoint == << >>
Levels == 0 .. MaxThreshold

FrontEndTypeOK ==
  /\ frontEnd \in {"terminal", "window"}
  /\ tracker \in {"stopped", "failed", "auto", "manual", "fault"}
  /\ setpoint \in Setpoints \cup {NoSetpoint}
  /\ threshold \in Levels

FrontEndInit ==
  /\ frontEnd \in {"terminal", "window"}
  /\ tracker = "stopped"
  /\ setpoint = NoSetpoint
  /\ threshold = StartThreshold

Accepts == tracker \in {"auto", "manual"}
HasThreads == tracker \notin {"stopped", "failed"}

(* The mode becomes one of these and nothing else of the tracker changes.  *)
Mode(modes) ==
  /\ tracker' \in modes
  /\ UNCHANGED <<frontEnd, setpoint, threshold>>

StartTracker == Mode({"auto", "failed"})
StopTracker == Mode({"stopped"})
EnterManual == Mode({IF Accepts THEN "manual" ELSE tracker})
ExitManual == Mode({IF Accepts THEN "auto" ELSE tracker})

(* setManualSetpoint() does nothing unless the mode is MANUAL.             *)
SetManualSetpoint(sp) ==
  /\ setpoint' = IF tracker = "manual" THEN sp ELSE setpoint
  /\ UNCHANGED <<frontEnd, tracker, threshold>>

SetTrackerThreshold(t) ==
  /\ threshold' = t
  /\ UNCHANGED <<frontEnd, tracker, setpoint>>

(* One click on a threshold, which stays a byte.                           *)
Raised(t) ==
  IF t + ThresholdStep > MaxThreshold THEN MaxThreshold ELSE t + ThresholdStep
Lowered(t) == IF t < ThresholdStep THEN 0 ELSE t - ThresholdStep

(* What the tracker does by itself: a command of the kinematics that is    *)
(* not Ok, and an estimate whose check of the mode is overtaken.           *)
TrackerFaults == Accepts /\ Mode({"fault"})
TrackerLeavesManual == tracker = "manual" /\ Mode({"auto"})
=============================================================================
