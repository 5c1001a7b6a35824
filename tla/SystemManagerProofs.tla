------------------------ MODULE SystemManagerProofs -------------------------
(***************************************************************************)
(* Theorems of SystemManager for every bound on frames and calls, with and *)
(* without a camera, whether or not the neutral pose can be solved.        *)
(***************************************************************************)
EXTENDS SystemManager, SequenceTheorems, TLAPS

(* TRUE and FALSE are Booleans: the SMT encoding has to be told. *)
LEMMA Booleans == \A b : b = TRUE \/ b = FALSE => b \in BOOLEAN
OBVIOUS

-----------------------------------------------------------------------------
(* The queues of one item.                                                 *)

(* A queue of at most one item is emptied by taking its head.              *)
LEMMA ShortQueue ==
  ASSUME NEW S, NEW s \in Seq(S), Len(s) <= 1, s # <<>>
  PROVE  Head(s) \in S /\ Tail(s) = <<>> /\ Len(s) = 1
<1>. Len(s) \in Nat \ {0}
  BY EmptySeq
<1>1. Len(s) = 1
  OBVIOUS
<1>2. Tail(s) \in Seq(S) /\ Len(Tail(s)) = 0
  BY <1>1, HeadTailProperties
<1>. QED
  BY <1>1, <1>2, EmptySeq, HeadTailProperties

(* A queue of capacity one holds the newest item alone after push_latest.  *)
LEMMA PushedLatestOne ==
  ASSUME NEW S, NEW s \in Seq(S), Len(s) <= 1, NEW e \in S
  PROVE  PushedLatest(s, 1, e) = <<e>>
<1>. DEFINE kept == IF IsFull(s, 1) THEN Tail(s) ELSE s
<1>1. kept = <<>>
  <2>1. CASE s = <<>>
    BY <2>1, EmptySeq DEF IsFull
  <2>2. CASE s # <<>>
    <3>1. Tail(s) = <<>> /\ Len(s) = 1
      BY <2>2, ShortQueue
    <3>2. IsFull(s, 1)
      BY <3>1 DEF IsFull
    <3>. QED
      BY <3>1, <3>2
  <2>. QED
    BY <2>1, <2>2
<1>2. PushedLatest(s, 1, e) = Append(kept, e)
  BY DEF PushedLatest
<1>. HIDE DEF kept
<1>3. Append(<<>>, e) = <<e>>
  OBVIOUS
<1>. QED
  BY <1>1, <1>2, <1>3

-----------------------------------------------------------------------------
(* The inductive invariant.  Its parts say, for every place of the client, *)
(* what the other threads and the devices may be doing meanwhile.          *)

(* Places of start() at which no thread exists, and the driver is off.     *)
BeforePower == {"startup", "start_driver", "fault", "give_up"}

(* Places at which both threads exist. *)
Staffed == {"start_camera", "fail_cmd_stop", "fail_join_control", "neutral",
            "park", "searching", "stopping", "stop_camera", "stop_frames",
            "join_control"} \cup ManualPlaces

(* Places at which only the actuator thread is left. *)
HalfStaffed == {"fail_join_actuator", "clear_commands", "lock_neutral",
                "solve_neutral", "stop_commands", "join_actuator"}

Down == client = "outside" /\ ~running
Up   == client = "outside" /\ running

LockInv ==
  /\ kin_owner = "control" <=> control = "solve"
  /\ kin_owner = "client" <=> client \in {"solve_neutral", "solve_manual"}

(* running_ tells start() and manual operation from stop(). *)
RunningInv ==
  /\ client \in StartPlaces \cup ManualPlaces => running
  /\ client \in StopPlaces => ~running

ThreadsInv ==
  /\ (control # "none") <=> (client \in Staffed \/ Up)
  /\ (actuator # "none") <=> (client \in Staffed \cup HalfStaffed \/ Up)

DriverInv == ~driver <=> (client \in BeforePower \cup {"idle_state"} \/ Down)

CameraInv ==
  camera # "off" =>
    Up \/ client \in {"neutral", "park", "searching", "stopping", "stop_camera"}
                     \cup ManualPlaces

(* A loop ends on a stopped and drained queue, a queue is stopped only     *)
(* while the client goes on to join, and nothing fills it after that.      *)
QueuesInv ==
  /\ control = "none" => frame_q = <<>>
  /\ control = "done" => frame_stopped /\ frame_q = <<>>
  /\ control # "none" /\ frame_stopped =>
       client \in {"fail_cmd_stop", "fail_join_control", "join_control"}
  /\ actuator = "none" => cmd_q = <<>>
  /\ actuator = "done" => cmd_stopped /\ cmd_q = <<>>
  /\ actuator # "none" /\ cmd_stopped =>
       client \in {"fail_join_control", "fail_join_actuator", "join_actuator"}

(* The state start() has set is not touched while start() runs, since the  *)
(* control thread cannot pass its gate.                                    *)
StateInv ==
  /\ Down => state \in {"IDLE", "FAULT"}
  /\ Up \/ client \in ManualPlaces =>
       state \in {"SEARCHING", "TRACKING", "MANUAL", "FAULT"}
  /\ client = "give_up" => state = "FAULT"
  /\ client \in StartPlaces =>
       /\ ~CanAutoProcess(state)
       /\ control \in {"none", "wait", "estimated", "gate", "done"}

ControlBusy == control \notin {"none", "wait", "done"}

(* Frame numbers fall from the camera to the servos. *)
OrderInv ==
  /\ est.frame <= captured
  /\ frame_q # <<>> => est.frame < Head(frame_q) /\ Head(frame_q) <= captured
  /\ actuated <= est.frame
  /\ ControlBusy => actuated < est.frame
  /\ cmd_q # <<>> /\ Head(cmd_q).src = "auto" =>
       /\ actuated < Head(cmd_q).frame
       /\ Head(cmd_q).frame <= est.frame
       /\ ControlBusy => Head(cmd_q).frame < est.frame
  /\ actuator = "apply" /\ cmd.src = "auto" =>
       /\ actuated < cmd.frame
       /\ cmd.frame <= est.frame
       /\ ControlBusy => cmd.frame < est.frame
       /\ cmd_q # <<>> /\ Head(cmd_q).src = "auto" =>
            cmd.frame < Head(cmd_q).frame

(* From the neutral solve of stop() to the end of the actuator thread, the *)
(* neutral command is queued, being applied, or the last one applied.      *)
NeutralInv ==
  NeutralSolvable =>
    /\ client \in {"stop_commands", "join_actuator"} =>
         \/ cmd_q = <<Synthetic("neutral")>>
         \/ /\ cmd_q = <<>> /\ actuator = "apply"
            /\ cmd = Synthetic("neutral")
         \/ /\ cmd_q = <<>> /\ actuator \in {"wait", "done"}
            /\ servo = Synthetic("neutral")
    /\ client = "stop_driver" => servo = Synthetic("neutral")

IInv ==
  /\ TypeOK
  /\ LockInv /\ RunningInv /\ ThreadsInv /\ DriverInv /\ CameraInv
  /\ QueuesInv /\ StateInv /\ OrderInv /\ NeutralInv
-----------------------------------------------------------------------------
(* Queues of capacity one.                                                 *)

(* A queue of one item. *)
LEMMA OneItem ==
  ASSUME NEW S, NEW e \in S
  PROVE  <<e>> \in Seq(S) /\ Len(<<e>>) = 1 /\ Head(<<e>>) = e /\ <<e>> # <<>>
OBVIOUS

(* The empty queue, which clear() and reset() leave. *)
LEMMA NoItem ==
  ASSUME NEW S
  PROVE  <<>> \in Seq(S) /\ Len(<<>>) = 0
BY EmptySeq

(* What push_latest and wait_pop do to frame_q_ and cmd_q_, whose capacity is *)
(* one: the new item is all that is left, and popping leaves nothing.      *)
LEMMA QueueSteps ==
  ASSUME TypeOK
  PROVE  /\ \A n \in Nat : PushedLatest(frame_q, QueueCapacity, n) = <<n>>
         /\ \A c \in Command : PushedLatest(cmd_q, QueueCapacity, c) = <<c>>
         /\ frame_q # <<>> => Head(frame_q) \in Nat /\ Tail(frame_q) = <<>>
         /\ cmd_q # <<>> => Head(cmd_q) \in Command /\ Tail(cmd_q) = <<>>
BY PushedLatestOne, ShortQueue DEF TypeOK, QueueCapacity

(* The commands the program builds are commands. *)
LEMMA Commands ==
  /\ \A src \in Source : Synthetic(src) \in Command
  /\ \A n \in Nat : Automatic(n) \in Command
BY DEF Synthetic, Automatic, Command, Source

(* The typing of each queue, as TypeOK has it. *)
CommandQueueType == cmd_q \in Seq(Command) /\ Len(cmd_q) <= QueueCapacity
FrameQueueType   == frame_q \in Seq(Nat) /\ Len(frame_q) <= QueueCapacity

(* What a push leaves in the command queue. *)
LEMMA PushCommandStep ==
  ASSUME TypeOK, NEW c \in Command, PushCommand(c)
  PROVE  /\ CommandQueueType'
         /\ \/ cmd_stopped /\ cmd_q' = cmd_q
            \/ ~cmd_stopped /\ cmd_q' = <<c>>
<1>1. CASE cmd_stopped
  BY <1>1 DEF PushCommand, TypeOK, CommandQueueType
<1>2. CASE ~cmd_stopped
  <2>1. cmd_q' = <<c>>
    BY <1>2, QueueSteps DEF PushCommand
  <2>2. Len(cmd_q') = 1
    BY <2>1
  <2>. QED
    BY <1>2, <2>1, <2>2 DEF CommandQueueType, QueueCapacity
<1>. QED
  BY <1>1, <1>2

(* What onFrame_ leaves in the frame queue. *)
LEMMA FrameStep ==
  ASSUME TypeOK, OnFrame
  PROVE  /\ captured' = captured + 1
         /\ FrameQueueType'
         /\ \/ frame_stopped /\ frame_q' = frame_q
            \/ ~frame_stopped /\ frame_q' = <<captured'>>
<1>1. captured' = captured + 1 /\ captured' \in Nat
  BY DEF OnFrame, TypeOK
<1>2. CASE frame_stopped
  BY <1>1, <1>2 DEF OnFrame, TypeOK, FrameQueueType
<1>3. CASE ~frame_stopped
  <2>1. frame_q' = <<captured'>>
    BY <1>1, <1>3, QueueSteps DEF OnFrame
  <2>2. Len(frame_q') = 1
    BY <2>1
  <2>. QED
    BY <1>1, <1>3, <2>1, <2>2 DEF FrameQueueType, QueueCapacity
<1>. QED
  BY <1>1, <1>2, <1>3

(* What the command callback of the kinematics leaves. *)
LEMMA KinematicsStep ==
  ASSUME TypeOK, NEW ok \in BOOLEAN, NEW c \in Command,
         OnKinematicsCommand(ok, c)
  PROVE  /\ kin_owner' = "nobody" /\ CommandQueueType'
         /\ \/ state' = "FAULT" /\ cmd_q' = cmd_q /\ ~ok
            \/ state' = state /\ cmd_stopped /\ cmd_q' = cmd_q
            \/ state' = state /\ ~cmd_stopped /\ cmd_q' = <<c>>
<1>1. CASE ok
  BY <1>1, PushCommandStep DEF OnKinematicsCommand
<1>2. CASE ~ok
  BY <1>2 DEF OnKinematicsCommand, TypeOK, CommandQueueType
<1>. QED
  BY <1>1, <1>2

(* The same, for the setpoint of the control thread. *)
LEMMA ControlSolvesStep ==
  ASSUME TypeOK, ControlSolves
  PROVE  /\ kin_owner' = "nobody" /\ CommandQueueType'
         /\ \/ state' = "FAULT" /\ cmd_q' = cmd_q
            \/ state' = state /\ cmd_stopped /\ cmd_q' = cmd_q
            \/ /\ state' = state /\ ~cmd_stopped
               /\ cmd_q' = <<Automatic(est.frame)>>
<1>1. PICK ok \in BOOLEAN : OnKinematicsCommand(ok, Automatic(est.frame))
  BY NeutralAssumption DEF ControlSolves
<1>2. Automatic(est.frame) \in Command
  BY Commands DEF TypeOK
<1>. QED
  BY <1>1, <1>2, KinematicsStep

(* The same, for applyNeutralOnce_. *)
LEMMA StopSolvesStep ==
  ASSUME TypeOK, StopSolvesNeutral
  PROVE  /\ kin_owner' = "nobody" /\ CommandQueueType'
         /\ \/ state' = "FAULT" /\ cmd_q' = cmd_q /\ ~NeutralSolvable
            \/ state' = state /\ cmd_stopped /\ cmd_q' = cmd_q
            \/ /\ state' = state /\ ~cmd_stopped
               /\ cmd_q' = <<Synthetic("neutral")>>
<1>1. OnKinematicsCommand(NeutralSolvable, Synthetic("neutral"))
  BY DEF StopSolvesNeutral, ClientSolves
<1>2. Synthetic("neutral") \in Command
  BY Commands DEF Source
<1>. QED
  BY <1>1, <1>2, NeutralAssumption, KinematicsStep

(* The same, for setManualSetpoint. *)
LEMMA ManualSolvesStep ==
  ASSUME TypeOK, ManualSolves
  PROVE  /\ kin_owner' = "nobody" /\ CommandQueueType'
         /\ \/ state' = "FAULT" /\ cmd_q' = cmd_q
            \/ state' = state /\ cmd_stopped /\ cmd_q' = cmd_q
            \/ /\ state' = state /\ ~cmd_stopped
               /\ cmd_q' = <<Synthetic("manual")>>
<1>1. PICK ok \in BOOLEAN : OnKinematicsCommand(ok, Synthetic("manual"))
  BY DEF ManualSolves, ClientSolves
<1>2. Synthetic("manual") \in Command
  BY Commands DEF Source
<1>. QED
  BY <1>1, <1>2, KinematicsStep

(* A synthetic command carries its own source, so it is not automatic. *)
LEMMA SyntheticHead ==
  \A src \in Source : Head(<<Synthetic(src)>>).src = src
BY DEF Synthetic

(* Frame numbers are numbers wherever they travel. *)
LEMMA Numbers ==
  ASSUME TypeOK
  PROVE  /\ est.frame \in Nat /\ cmd.frame \in Nat
         /\ frame_q # <<>> => Head(frame_q) \in Nat
         /\ cmd_q # <<>> => Head(cmd_q).frame \in Nat
BY QueueSteps DEF TypeOK, Command

-----------------------------------------------------------------------------
(* The steps preserve each part of the invariant.                          *)

(* Every step keeps every variable in its type. *)
LEMMA TypeStep == TypeOK /\ [Next]_vars => TypeOK'
<1>. SUFFICES ASSUME TypeOK, [Next]_vars PROVE TypeOK'
  OBVIOUS
<1>. USE QueueSteps, OneItem, NoItem, Booleans, NeutralAssumption
     DEF TypeOK, ClientGoto, queues, plant, QueueCapacity, Command, Source,
         TrackerState, ClientPlaces, StartPlaces, StopPlaces, ManualPlaces,
         ControlPlaces, ActuatorPlaces
<1>1. CASE OnFrame
  BY <1>1, FrameStep DEF OnFrame, FrameQueueType
<1>2. CASE CameraDies
  BY <1>2 DEF CameraDies
<1>3. CASE ControlTakesFrame
  BY <1>3 DEF ControlTakesFrame, ControlGoto
<1>4. CASE ControlExits
  BY <1>4 DEF ControlExits, ControlGoto
<1>5. CASE EstimateChecksRunning
  BY <1>5 DEF EstimateChecksRunning, ControlChecks, ControlGoto
<1>6. CASE EstimateChecksState
  BY <1>6 DEF EstimateChecksState, ControlChecks, ControlGoto
<1>7. CASE EstimateSetsState
  BY <1>7 DEF EstimateSetsState, ControlGoto
<1>8. CASE EstimateChecksAgain
  BY <1>8 DEF EstimateChecksAgain, ControlChecks, ControlGoto
<1>9. CASE SetpointChecksRunning
  BY <1>9 DEF SetpointChecksRunning, ControlChecks, ControlGoto
<1>10. CASE SetpointChecksState
  BY <1>10 DEF SetpointChecksState, ControlChecks, ControlGoto
<1>11. CASE ControlLocks
  BY <1>11 DEF ControlLocks, ControlGoto, LockKinematics
<1>12. CASE ControlSolves
  BY <1>12, ControlSolvesStep DEF ControlSolves, ControlGoto, CommandQueueType
<1>13. CASE ActuatorTakesCommand
  BY <1>13 DEF ActuatorTakesCommand
<1>14. CASE ActuatorExits
  BY <1>14 DEF ActuatorExits
<1>15. CASE ActuatorApplies
  BY <1>15 DEF ActuatorApplies
<1>16. CASE StartCall
  BY <1>16 DEF StartCall, Calls
<1>17. CASE StopCall
  BY <1>17 DEF StopCall, Calls
<1>18. CASE EnterManualCall
  BY <1>18 DEF EnterManualCall, ManualCall, Calls, RefusesManual
<1>19. CASE ExitManualCall
  BY <1>19 DEF ExitManualCall, ManualCall, Calls, RefusesManual
<1>20. CASE ManualSetpointCall
  BY <1>20 DEF ManualSetpointCall, Calls
<1>21. CASE StartSetsStartup
  BY <1>21 DEF StartSetsStartup, ClientSetsState
<1>22. CASE StartDriver
  BY <1>22 DEF StartDriver, Synthetic
<1>23. CASE StartSpawns
  BY <1>23 DEF StartSpawns
<1>24. CASE StartCamera
  BY <1>24 DEF StartCamera
<1>25. CASE StartFailsInCamera
  BY <1>25 DEF StartFailsInCamera, StopCommandQueue, JoinControl,
       JoinActuator, StopDriver, Synthetic
<1>26. CASE StartSetsFault
  BY <1>26 DEF StartSetsFault, ClientSetsState
<1>27. CASE StartReturnsFalse
  BY <1>27 DEF StartReturnsFalse
<1>28. CASE StartSetsNeutral
  BY <1>28 DEF StartSetsNeutral, ClientSetsState
<1>29. CASE StartParks
  <2>1. Synthetic("park") \in Command
    BY Commands DEF Source
  <2>. QED
    BY <1>29, <2>1, PushCommandStep DEF StartParks, CommandQueueType
<1>30. CASE StartSetsSearching
  BY <1>30 DEF StartSetsSearching, ClientSetsState
<1>31. CASE StopSetsStopping
  BY <1>31 DEF StopSetsStopping, ClientSetsState
<1>32. CASE StopCamera
  BY <1>32 DEF StopCamera
<1>33. CASE StopFrames
  BY <1>33 DEF StopFrames
<1>34. CASE StopJoinsControl
  BY <1>34 DEF StopJoinsControl, JoinControl
<1>35. CASE StopClearsCommands
  BY <1>35 DEF StopClearsCommands
<1>36. CASE StopLocksNeutral
  BY <1>36 DEF StopLocksNeutral, ClientLocks, LockKinematics
<1>37. CASE StopSolvesNeutral
  BY <1>37, StopSolvesStep DEF StopSolvesNeutral, ClientSolves, CommandQueueType
<1>38. CASE StopCommands
  BY <1>38 DEF StopCommands, StopCommandQueue
<1>39. CASE StopJoinsActuator
  BY <1>39 DEF StopJoinsActuator, JoinActuator
<1>40. CASE StopStopsDriver
  BY <1>40 DEF StopStopsDriver, StopDriver, Synthetic
<1>41. CASE StopSetsIdle
  BY <1>41 DEF StopSetsIdle, ClientSetsState
<1>42. CASE EnterManual
  BY <1>42 DEF EnterManual, ClientSetsState
<1>43. CASE ExitManual
  BY <1>43 DEF ExitManual, ClientSetsState
<1>44. CASE ManualLocks
  BY <1>44 DEF ManualLocks, ClientLocks, LockKinematics
<1>45. CASE ManualSolves
  BY <1>45, ManualSolvesStep DEF ManualSolves, ClientSolves, CommandQueueType
<1>46. CASE UNCHANGED vars
  BY <1>46 DEF vars
<1>. QED
  BY <1>1, <1>2, <1>3, <1>4, <1>5, <1>6, <1>7, <1>8, <1>9, <1>10, <1>11,
       <1>12, <1>13, <1>14, <1>15, <1>16, <1>17, <1>18, <1>19, <1>20, <1>21,
       <1>22, <1>23, <1>24, <1>25, <1>26, <1>27, <1>28, <1>29, <1>30, <1>31,
       <1>32, <1>33, <1>34, <1>35, <1>36, <1>37, <1>38, <1>39, <1>40, <1>41,
       <1>42, <1>43, <1>44, <1>45, <1>46 DEF Next, Control, Actuator,
       ClientCalls, ClientRuns, Start, Stop, Manual

(* Every step keeps the locks, running_, the threads, the driver and the   *)
(* camera in the places the client's progress allows.                      *)
LEMMA SkeletonStep ==
  IInv /\ [Next]_vars =>
    (LockInv /\ RunningInv /\ ThreadsInv /\ DriverInv /\ CameraInv)'
<1>. SUFFICES ASSUME IInv, [Next]_vars
              PROVE  (LockInv /\ RunningInv /\ ThreadsInv /\ DriverInv
                       /\ CameraInv)'
  OBVIOUS
<1>. USE QueueSteps, NeutralAssumption
     DEF IInv, TypeOK, LockInv, RunningInv, ThreadsInv, DriverInv, CameraInv,
          StateInv, ClientGoto, queues, plant, CanAutoProcess, StartPlaces,
          StopPlaces, ManualPlaces, BeforePower, Staffed, HalfStaffed, Down,
          Up
<1>1. CASE OnFrame
  BY <1>1, FrameStep DEF OnFrame
<1>2. CASE CameraDies
  BY <1>2 DEF CameraDies
<1>3. CASE ControlTakesFrame
  BY <1>3 DEF ControlTakesFrame, ControlGoto
<1>4. CASE ControlExits
  BY <1>4 DEF ControlExits, ControlGoto
<1>5. CASE EstimateChecksRunning
  BY <1>5 DEF EstimateChecksRunning, ControlChecks, ControlGoto
<1>6. CASE EstimateChecksState
  BY <1>6 DEF EstimateChecksState, ControlChecks, ControlGoto
<1>7. CASE EstimateSetsState
  BY <1>7 DEF EstimateSetsState, ControlGoto
<1>8. CASE EstimateChecksAgain
  BY <1>8 DEF EstimateChecksAgain, ControlChecks, ControlGoto
<1>9. CASE SetpointChecksRunning
  BY <1>9 DEF SetpointChecksRunning, ControlChecks, ControlGoto
<1>10. CASE SetpointChecksState
  BY <1>10 DEF SetpointChecksState, ControlChecks, ControlGoto
<1>11. CASE ControlLocks
  BY <1>11 DEF ControlLocks, ControlGoto, LockKinematics
<1>12. CASE ControlSolves
  BY <1>12, ControlSolvesStep DEF ControlSolves, ControlGoto, Automatic
<1>13. CASE ActuatorTakesCommand
  BY <1>13 DEF ActuatorTakesCommand
<1>14. CASE ActuatorExits
  BY <1>14 DEF ActuatorExits
<1>15. CASE ActuatorApplies
  BY <1>15 DEF ActuatorApplies
<1>16. CASE StartCall
  BY <1>16 DEF StartCall, Calls
<1>17. CASE StopCall
  BY <1>17 DEF StopCall, Calls
<1>18. CASE EnterManualCall
  BY <1>18 DEF EnterManualCall, ManualCall, Calls, RefusesManual
<1>19. CASE ExitManualCall
  BY <1>19 DEF ExitManualCall, ManualCall, Calls, RefusesManual
<1>20. CASE ManualSetpointCall
  BY <1>20 DEF ManualSetpointCall, Calls
<1>21. CASE StartSetsStartup
  BY <1>21 DEF StartSetsStartup, ClientSetsState
<1>22. CASE StartDriver
  BY <1>22 DEF StartDriver, Synthetic
<1>23. CASE StartSpawns
  BY <1>23 DEF StartSpawns
<1>24. CASE StartCamera
  BY <1>24 DEF StartCamera
<1>25. CASE StartFailsInCamera
  BY <1>25 DEF StartFailsInCamera, StopCommandQueue, JoinControl,
       JoinActuator, StopDriver, Synthetic
<1>26. CASE StartSetsFault
  BY <1>26 DEF StartSetsFault, ClientSetsState
<1>27. CASE StartReturnsFalse
  BY <1>27 DEF StartReturnsFalse
<1>28. CASE StartSetsNeutral
  BY <1>28 DEF StartSetsNeutral, ClientSetsState
<1>29. CASE StartParks
  <2>1. Synthetic("park") \in Command
    BY Commands DEF Source
  <2>. QED
    BY <1>29, <2>1, PushCommandStep DEF StartParks
<1>30. CASE StartSetsSearching
  BY <1>30 DEF StartSetsSearching, ClientSetsState
<1>31. CASE StopSetsStopping
  BY <1>31 DEF StopSetsStopping, ClientSetsState
<1>32. CASE StopCamera
  BY <1>32 DEF StopCamera
<1>33. CASE StopFrames
  BY <1>33 DEF StopFrames
<1>34. CASE StopJoinsControl
  BY <1>34 DEF StopJoinsControl, JoinControl
<1>35. CASE StopClearsCommands
  BY <1>35 DEF StopClearsCommands
<1>36. CASE StopLocksNeutral
  BY <1>36 DEF StopLocksNeutral, ClientLocks, LockKinematics
<1>37. CASE StopSolvesNeutral
  BY <1>37, StopSolvesStep DEF StopSolvesNeutral, ClientSolves
<1>38. CASE StopCommands
  BY <1>38 DEF StopCommands, StopCommandQueue
<1>39. CASE StopJoinsActuator
  BY <1>39 DEF StopJoinsActuator, JoinActuator
<1>40. CASE StopStopsDriver
  BY <1>40 DEF StopStopsDriver, StopDriver, Synthetic
<1>41. CASE StopSetsIdle
  BY <1>41 DEF StopSetsIdle, ClientSetsState
<1>42. CASE EnterManual
  BY <1>42 DEF EnterManual, ClientSetsState
<1>43. CASE ExitManual
  BY <1>43 DEF ExitManual, ClientSetsState
<1>44. CASE ManualLocks
  BY <1>44 DEF ManualLocks, ClientLocks, LockKinematics
<1>45. CASE ManualSolves
  BY <1>45, ManualSolvesStep DEF ManualSolves, ClientSolves
<1>46. CASE UNCHANGED vars
  BY <1>46 DEF vars
<1>. QED
  BY <1>1, <1>2, <1>3, <1>4, <1>5, <1>6, <1>7, <1>8, <1>9, <1>10, <1>11,
       <1>12, <1>13, <1>14, <1>15, <1>16, <1>17, <1>18, <1>19, <1>20, <1>21,
       <1>22, <1>23, <1>24, <1>25, <1>26, <1>27, <1>28, <1>29, <1>30, <1>31,
       <1>32, <1>33, <1>34, <1>35, <1>36, <1>37, <1>38, <1>39, <1>40, <1>41,
       <1>42, <1>43, <1>44, <1>45, <1>46 DEF Next, Control, Actuator,
       ClientCalls, ClientRuns, Start, Stop, Manual

(* Every step keeps the queues' protocol: filled only while a thread drains *)
(* them, stopped only while the client joins.                              *)
LEMMA QueuesStep == IInv /\ [Next]_vars => QueuesInv'
<1>. SUFFICES ASSUME IInv, [Next]_vars PROVE QueuesInv'
  OBVIOUS
<1>. USE QueueSteps, NeutralAssumption
     DEF IInv, TypeOK, QueuesInv, ThreadsInv, CameraInv, StateInv, RunningInv,
          ClientGoto, queues, plant, CanAutoProcess, StartPlaces, StopPlaces,
          ManualPlaces, BeforePower, Staffed, HalfStaffed, Down, Up
<1>1. CASE OnFrame
  BY <1>1, FrameStep DEF OnFrame
<1>2. CASE CameraDies
  BY <1>2 DEF CameraDies
<1>3. CASE ControlTakesFrame
  BY <1>3 DEF ControlTakesFrame, ControlGoto
<1>4. CASE ControlExits
  BY <1>4 DEF ControlExits, ControlGoto
<1>5. CASE EstimateChecksRunning
  BY <1>5 DEF EstimateChecksRunning, ControlChecks, ControlGoto
<1>6. CASE EstimateChecksState
  BY <1>6 DEF EstimateChecksState, ControlChecks, ControlGoto
<1>7. CASE EstimateSetsState
  BY <1>7 DEF EstimateSetsState, ControlGoto
<1>8. CASE EstimateChecksAgain
  BY <1>8 DEF EstimateChecksAgain, ControlChecks, ControlGoto
<1>9. CASE SetpointChecksRunning
  BY <1>9 DEF SetpointChecksRunning, ControlChecks, ControlGoto
<1>10. CASE SetpointChecksState
  BY <1>10 DEF SetpointChecksState, ControlChecks, ControlGoto
<1>11. CASE ControlLocks
  BY <1>11 DEF ControlLocks, ControlGoto, LockKinematics
<1>12. CASE ControlSolves
  BY <1>12, ControlSolvesStep DEF ControlSolves, ControlGoto, Automatic
<1>13. CASE ActuatorTakesCommand
  BY <1>13 DEF ActuatorTakesCommand
<1>14. CASE ActuatorExits
  BY <1>14 DEF ActuatorExits
<1>15. CASE ActuatorApplies
  BY <1>15 DEF ActuatorApplies
<1>16. CASE StartCall
  BY <1>16 DEF StartCall, Calls
<1>17. CASE StopCall
  BY <1>17 DEF StopCall, Calls
<1>18. CASE EnterManualCall
  BY <1>18 DEF EnterManualCall, ManualCall, Calls, RefusesManual
<1>19. CASE ExitManualCall
  BY <1>19 DEF ExitManualCall, ManualCall, Calls, RefusesManual
<1>20. CASE ManualSetpointCall
  BY <1>20 DEF ManualSetpointCall, Calls
<1>21. CASE StartSetsStartup
  BY <1>21 DEF StartSetsStartup, ClientSetsState
<1>22. CASE StartDriver
  BY <1>22 DEF StartDriver, Synthetic
<1>23. CASE StartSpawns
  BY <1>23 DEF StartSpawns
<1>24. CASE StartCamera
  BY <1>24 DEF StartCamera
<1>25. CASE StartFailsInCamera
  BY <1>25 DEF StartFailsInCamera, StopCommandQueue, JoinControl,
       JoinActuator, StopDriver, Synthetic
<1>26. CASE StartSetsFault
  BY <1>26 DEF StartSetsFault, ClientSetsState
<1>27. CASE StartReturnsFalse
  BY <1>27 DEF StartReturnsFalse
<1>28. CASE StartSetsNeutral
  BY <1>28 DEF StartSetsNeutral, ClientSetsState
<1>29. CASE StartParks
  <2>1. Synthetic("park") \in Command
    BY Commands DEF Source
  <2>. QED
    BY <1>29, <2>1, PushCommandStep DEF StartParks
<1>30. CASE StartSetsSearching
  BY <1>30 DEF StartSetsSearching, ClientSetsState
<1>31. CASE StopSetsStopping
  BY <1>31 DEF StopSetsStopping, ClientSetsState
<1>32. CASE StopCamera
  BY <1>32 DEF StopCamera
<1>33. CASE StopFrames
  BY <1>33 DEF StopFrames
<1>34. CASE StopJoinsControl
  BY <1>34 DEF StopJoinsControl, JoinControl
<1>35. CASE StopClearsCommands
  BY <1>35 DEF StopClearsCommands
<1>36. CASE StopLocksNeutral
  BY <1>36 DEF StopLocksNeutral, ClientLocks, LockKinematics
<1>37. CASE StopSolvesNeutral
  BY <1>37, StopSolvesStep DEF StopSolvesNeutral, ClientSolves
<1>38. CASE StopCommands
  BY <1>38 DEF StopCommands, StopCommandQueue
<1>39. CASE StopJoinsActuator
  BY <1>39 DEF StopJoinsActuator, JoinActuator
<1>40. CASE StopStopsDriver
  BY <1>40 DEF StopStopsDriver, StopDriver, Synthetic
<1>41. CASE StopSetsIdle
  BY <1>41 DEF StopSetsIdle, ClientSetsState
<1>42. CASE EnterManual
  BY <1>42 DEF EnterManual, ClientSetsState
<1>43. CASE ExitManual
  BY <1>43 DEF ExitManual, ClientSetsState
<1>44. CASE ManualLocks
  BY <1>44 DEF ManualLocks, ClientLocks, LockKinematics
<1>45. CASE ManualSolves
  BY <1>45, ManualSolvesStep DEF ManualSolves, ClientSolves
<1>46. CASE UNCHANGED vars
  BY <1>46 DEF vars
<1>. QED
  BY <1>1, <1>2, <1>3, <1>4, <1>5, <1>6, <1>7, <1>8, <1>9, <1>10, <1>11,
       <1>12, <1>13, <1>14, <1>15, <1>16, <1>17, <1>18, <1>19, <1>20, <1>21,
       <1>22, <1>23, <1>24, <1>25, <1>26, <1>27, <1>28, <1>29, <1>30, <1>31,
       <1>32, <1>33, <1>34, <1>35, <1>36, <1>37, <1>38, <1>39, <1>40, <1>41,
       <1>42, <1>43, <1>44, <1>45, <1>46 DEF Next, Control, Actuator,
       ClientCalls, ClientRuns, Start, Stop, Manual

(* Every step keeps state_ in step with the client between its calls.      *)
LEMMA StateStep == IInv /\ [Next]_vars => StateInv'
<1>. SUFFICES ASSUME IInv, [Next]_vars PROVE StateInv'
  OBVIOUS
<1>. USE QueueSteps, NeutralAssumption
     DEF IInv, TypeOK, StateInv, ThreadsInv, RunningInv, ClientGoto, queues,
          plant, CanAutoProcess, StartPlaces, StopPlaces, ManualPlaces,
          BeforePower, Staffed, HalfStaffed, Down, Up
<1>1. CASE OnFrame
  BY <1>1, FrameStep DEF OnFrame
<1>2. CASE CameraDies
  BY <1>2 DEF CameraDies
<1>3. CASE ControlTakesFrame
  BY <1>3 DEF ControlTakesFrame, ControlGoto
<1>4. CASE ControlExits
  BY <1>4 DEF ControlExits, ControlGoto
<1>5. CASE EstimateChecksRunning
  BY <1>5 DEF EstimateChecksRunning, ControlChecks, ControlGoto
<1>6. CASE EstimateChecksState
  BY <1>6 DEF EstimateChecksState, ControlChecks, ControlGoto
<1>7. CASE EstimateSetsState
  BY <1>7 DEF EstimateSetsState, ControlGoto
<1>8. CASE EstimateChecksAgain
  BY <1>8 DEF EstimateChecksAgain, ControlChecks, ControlGoto
<1>9. CASE SetpointChecksRunning
  BY <1>9 DEF SetpointChecksRunning, ControlChecks, ControlGoto
<1>10. CASE SetpointChecksState
  BY <1>10 DEF SetpointChecksState, ControlChecks, ControlGoto
<1>11. CASE ControlLocks
  BY <1>11 DEF ControlLocks, ControlGoto, LockKinematics
<1>12. CASE ControlSolves
  BY <1>12, ControlSolvesStep DEF ControlSolves, ControlGoto, Automatic
<1>13. CASE ActuatorTakesCommand
  BY <1>13 DEF ActuatorTakesCommand
<1>14. CASE ActuatorExits
  BY <1>14 DEF ActuatorExits
<1>15. CASE ActuatorApplies
  BY <1>15 DEF ActuatorApplies
<1>16. CASE StartCall
  BY <1>16 DEF StartCall, Calls
<1>17. CASE StopCall
  BY <1>17 DEF StopCall, Calls
<1>18. CASE EnterManualCall
  BY <1>18 DEF EnterManualCall, ManualCall, Calls, RefusesManual
<1>19. CASE ExitManualCall
  BY <1>19 DEF ExitManualCall, ManualCall, Calls, RefusesManual
<1>20. CASE ManualSetpointCall
  BY <1>20 DEF ManualSetpointCall, Calls
<1>21. CASE StartSetsStartup
  BY <1>21 DEF StartSetsStartup, ClientSetsState
<1>22. CASE StartDriver
  BY <1>22 DEF StartDriver, Synthetic
<1>23. CASE StartSpawns
  BY <1>23 DEF StartSpawns
<1>24. CASE StartCamera
  BY <1>24 DEF StartCamera
<1>25. CASE StartFailsInCamera
  BY <1>25 DEF StartFailsInCamera, StopCommandQueue, JoinControl,
       JoinActuator, StopDriver, Synthetic
<1>26. CASE StartSetsFault
  BY <1>26 DEF StartSetsFault, ClientSetsState
<1>27. CASE StartReturnsFalse
  BY <1>27 DEF StartReturnsFalse
<1>28. CASE StartSetsNeutral
  BY <1>28 DEF StartSetsNeutral, ClientSetsState
<1>29. CASE StartParks
  <2>1. Synthetic("park") \in Command
    BY Commands DEF Source
  <2>. QED
    BY <1>29, <2>1, PushCommandStep DEF StartParks
<1>30. CASE StartSetsSearching
  BY <1>30 DEF StartSetsSearching, ClientSetsState
<1>31. CASE StopSetsStopping
  BY <1>31 DEF StopSetsStopping, ClientSetsState
<1>32. CASE StopCamera
  BY <1>32 DEF StopCamera
<1>33. CASE StopFrames
  BY <1>33 DEF StopFrames
<1>34. CASE StopJoinsControl
  BY <1>34 DEF StopJoinsControl, JoinControl
<1>35. CASE StopClearsCommands
  BY <1>35 DEF StopClearsCommands
<1>36. CASE StopLocksNeutral
  BY <1>36 DEF StopLocksNeutral, ClientLocks, LockKinematics
<1>37. CASE StopSolvesNeutral
  BY <1>37, StopSolvesStep DEF StopSolvesNeutral, ClientSolves
<1>38. CASE StopCommands
  BY <1>38 DEF StopCommands, StopCommandQueue
<1>39. CASE StopJoinsActuator
  BY <1>39 DEF StopJoinsActuator, JoinActuator
<1>40. CASE StopStopsDriver
  BY <1>40 DEF StopStopsDriver, StopDriver, Synthetic
<1>41. CASE StopSetsIdle
  BY <1>41 DEF StopSetsIdle, ClientSetsState
<1>42. CASE EnterManual
  BY <1>42 DEF EnterManual, ClientSetsState
<1>43. CASE ExitManual
  BY <1>43 DEF ExitManual, ClientSetsState
<1>44. CASE ManualLocks
  BY <1>44 DEF ManualLocks, ClientLocks, LockKinematics
<1>45. CASE ManualSolves
  BY <1>45, ManualSolvesStep DEF ManualSolves, ClientSolves
<1>46. CASE UNCHANGED vars
  BY <1>46 DEF vars
<1>. QED
  BY <1>1, <1>2, <1>3, <1>4, <1>5, <1>6, <1>7, <1>8, <1>9, <1>10, <1>11,
       <1>12, <1>13, <1>14, <1>15, <1>16, <1>17, <1>18, <1>19, <1>20, <1>21,
       <1>22, <1>23, <1>24, <1>25, <1>26, <1>27, <1>28, <1>29, <1>30, <1>31,
       <1>32, <1>33, <1>34, <1>35, <1>36, <1>37, <1>38, <1>39, <1>40, <1>41,
       <1>42, <1>43, <1>44, <1>45, <1>46 DEF Next, Control, Actuator,
       ClientCalls, ClientRuns, Start, Stop, Manual

(* Every step keeps frame numbers falling from the camera to the servos.   *)
LEMMA OrderStep == IInv /\ [Next]_vars => OrderInv'
<1>. SUFFICES ASSUME IInv, [Next]_vars PROVE OrderInv'
  OBVIOUS
<1>. USE QueueSteps, Numbers, NeutralAssumption
     DEF IInv, TypeOK, OrderInv, ControlBusy, ThreadsInv, QueuesInv,
          ClientGoto, queues, plant, CanAutoProcess, StartPlaces, StopPlaces,
          ManualPlaces, BeforePower, Staffed, HalfStaffed, Down, Up
<1>1. CASE OnFrame
  BY <1>1, FrameStep DEF OnFrame
<1>2. CASE CameraDies
  BY <1>2 DEF CameraDies
<1>3. CASE ControlTakesFrame
  BY <1>3, SMTT(30) DEF ControlTakesFrame, ControlGoto
<1>4. CASE ControlExits
  BY <1>4 DEF ControlExits, ControlGoto
<1>5. CASE EstimateChecksRunning
  BY <1>5 DEF EstimateChecksRunning, ControlChecks, ControlGoto
<1>6. CASE EstimateChecksState
  BY <1>6 DEF EstimateChecksState, ControlChecks, ControlGoto
<1>7. CASE EstimateSetsState
  BY <1>7 DEF EstimateSetsState, ControlGoto
<1>8. CASE EstimateChecksAgain
  BY <1>8 DEF EstimateChecksAgain, ControlChecks, ControlGoto
<1>9. CASE SetpointChecksRunning
  BY <1>9 DEF SetpointChecksRunning, ControlChecks, ControlGoto
<1>10. CASE SetpointChecksState
  BY <1>10 DEF SetpointChecksState, ControlChecks, ControlGoto
<1>11. CASE ControlLocks
  BY <1>11 DEF ControlLocks, ControlGoto, LockKinematics
<1>12. CASE ControlSolves
  BY <1>12, ControlSolvesStep DEF ControlSolves, ControlGoto, Automatic
<1>13. CASE ActuatorTakesCommand
  BY <1>13 DEF ActuatorTakesCommand
<1>14. CASE ActuatorExits
  BY <1>14 DEF ActuatorExits
<1>15. CASE ActuatorApplies
  BY <1>15 DEF ActuatorApplies
<1>16. CASE StartCall
  BY <1>16 DEF StartCall, Calls
<1>17. CASE StopCall
  BY <1>17 DEF StopCall, Calls
<1>18. CASE EnterManualCall
  BY <1>18 DEF EnterManualCall, ManualCall, Calls, RefusesManual
<1>19. CASE ExitManualCall
  BY <1>19 DEF ExitManualCall, ManualCall, Calls, RefusesManual
<1>20. CASE ManualSetpointCall
  BY <1>20 DEF ManualSetpointCall, Calls
<1>21. CASE StartSetsStartup
  BY <1>21 DEF StartSetsStartup, ClientSetsState
<1>22. CASE StartDriver
  BY <1>22 DEF StartDriver, Synthetic
<1>23. CASE StartSpawns
  BY <1>23 DEF StartSpawns
<1>24. CASE StartCamera
  BY <1>24 DEF StartCamera
<1>25. CASE StartFailsInCamera
  BY <1>25 DEF StartFailsInCamera, StopCommandQueue, JoinControl,
       JoinActuator, StopDriver, Synthetic
<1>26. CASE StartSetsFault
  BY <1>26 DEF StartSetsFault, ClientSetsState
<1>27. CASE StartReturnsFalse
  BY <1>27 DEF StartReturnsFalse
<1>28. CASE StartSetsNeutral
  BY <1>28 DEF StartSetsNeutral, ClientSetsState
<1>29. CASE StartParks
  <2>1. Head(<<Synthetic("park")>>).src = "park"
    BY SyntheticHead DEF Source
  <2>2. UNCHANGED <<est, cmd, frame_q, captured, actuated, actuator, control>>
    BY <1>29 DEF StartParks
  <2>3. cmd_q' = cmd_q \/ cmd_q' = <<Synthetic("park")>>
    BY <1>29, Commands, PushCommandStep DEF StartParks, Source
  <2>. QED
    BY <2>1, <2>2, <2>3
<1>30. CASE StartSetsSearching
  BY <1>30 DEF StartSetsSearching, ClientSetsState
<1>31. CASE StopSetsStopping
  BY <1>31 DEF StopSetsStopping, ClientSetsState
<1>32. CASE StopCamera
  BY <1>32 DEF StopCamera
<1>33. CASE StopFrames
  BY <1>33 DEF StopFrames
<1>34. CASE StopJoinsControl
  BY <1>34 DEF StopJoinsControl, JoinControl
<1>35. CASE StopClearsCommands
  BY <1>35 DEF StopClearsCommands
<1>36. CASE StopLocksNeutral
  BY <1>36 DEF StopLocksNeutral, ClientLocks, LockKinematics
<1>37. CASE StopSolvesNeutral
  <2>1. Head(<<Synthetic("neutral")>>).src = "neutral"
    BY SyntheticHead DEF Source
  <2>2. UNCHANGED <<est, cmd, frame_q, captured, actuated, actuator, control>>
    BY <1>37 DEF StopSolvesNeutral, ClientSolves
  <2>3. cmd_q' = cmd_q \/ cmd_q' = <<Synthetic("neutral")>>
    BY <1>37, StopSolvesStep
  <2>. QED
    BY <2>1, <2>2, <2>3
<1>38. CASE StopCommands
  BY <1>38 DEF StopCommands, StopCommandQueue
<1>39. CASE StopJoinsActuator
  BY <1>39 DEF StopJoinsActuator, JoinActuator
<1>40. CASE StopStopsDriver
  BY <1>40 DEF StopStopsDriver, StopDriver, Synthetic
<1>41. CASE StopSetsIdle
  BY <1>41 DEF StopSetsIdle, ClientSetsState
<1>42. CASE EnterManual
  BY <1>42 DEF EnterManual, ClientSetsState
<1>43. CASE ExitManual
  BY <1>43 DEF ExitManual, ClientSetsState
<1>44. CASE ManualLocks
  BY <1>44 DEF ManualLocks, ClientLocks, LockKinematics
<1>45. CASE ManualSolves
  <2>1. Head(<<Synthetic("manual")>>).src = "manual"
    BY SyntheticHead DEF Source
  <2>2. UNCHANGED <<est, cmd, frame_q, captured, actuated, actuator, control>>
    BY <1>45 DEF ManualSolves, ClientSolves
  <2>3. cmd_q' = cmd_q \/ cmd_q' = <<Synthetic("manual")>>
    BY <1>45, ManualSolvesStep
  <2>. QED
    BY <2>1, <2>2, <2>3
<1>46. CASE UNCHANGED vars
  BY <1>46 DEF vars
<1>. QED
  BY <1>1, <1>2, <1>3, <1>4, <1>5, <1>6, <1>7, <1>8, <1>9, <1>10, <1>11,
       <1>12, <1>13, <1>14, <1>15, <1>16, <1>17, <1>18, <1>19, <1>20, <1>21,
       <1>22, <1>23, <1>24, <1>25, <1>26, <1>27, <1>28, <1>29, <1>30, <1>31,
       <1>32, <1>33, <1>34, <1>35, <1>36, <1>37, <1>38, <1>39, <1>40, <1>41,
       <1>42, <1>43, <1>44, <1>45, <1>46 DEF Next, Control, Actuator,
       ClientCalls, ClientRuns, Start, Stop, Manual

(* Every step keeps the neutral command the last one of stop().            *)
LEMMA NeutralStep == IInv /\ [Next]_vars => NeutralInv'
<1>. SUFFICES ASSUME IInv, [Next]_vars PROVE NeutralInv'
  OBVIOUS
<1>. USE QueueSteps, NeutralAssumption
     DEF IInv, TypeOK, NeutralInv, ThreadsInv, QueuesInv, DriverInv,
          RunningInv, ClientGoto, queues, plant, CanAutoProcess, StartPlaces,
          StopPlaces, ManualPlaces, BeforePower, Staffed, HalfStaffed, Down,
          Up
<1>1. CASE OnFrame
  BY <1>1, FrameStep DEF OnFrame
<1>2. CASE CameraDies
  BY <1>2 DEF CameraDies
<1>3. CASE ControlTakesFrame
  BY <1>3 DEF ControlTakesFrame, ControlGoto
<1>4. CASE ControlExits
  BY <1>4 DEF ControlExits, ControlGoto
<1>5. CASE EstimateChecksRunning
  BY <1>5 DEF EstimateChecksRunning, ControlChecks, ControlGoto
<1>6. CASE EstimateChecksState
  BY <1>6 DEF EstimateChecksState, ControlChecks, ControlGoto
<1>7. CASE EstimateSetsState
  BY <1>7 DEF EstimateSetsState, ControlGoto
<1>8. CASE EstimateChecksAgain
  BY <1>8 DEF EstimateChecksAgain, ControlChecks, ControlGoto
<1>9. CASE SetpointChecksRunning
  BY <1>9 DEF SetpointChecksRunning, ControlChecks, ControlGoto
<1>10. CASE SetpointChecksState
  BY <1>10 DEF SetpointChecksState, ControlChecks, ControlGoto
<1>11. CASE ControlLocks
  BY <1>11 DEF ControlLocks, ControlGoto, LockKinematics
<1>12. CASE ControlSolves
  BY <1>12, ControlSolvesStep DEF ControlSolves, ControlGoto, Automatic
<1>13. CASE ActuatorTakesCommand
  BY <1>13 DEF ActuatorTakesCommand
<1>14. CASE ActuatorExits
  BY <1>14 DEF ActuatorExits
<1>15. CASE ActuatorApplies
  BY <1>15 DEF ActuatorApplies
<1>16. CASE StartCall
  BY <1>16 DEF StartCall, Calls
<1>17. CASE StopCall
  BY <1>17 DEF StopCall, Calls
<1>18. CASE EnterManualCall
  BY <1>18 DEF EnterManualCall, ManualCall, Calls, RefusesManual
<1>19. CASE ExitManualCall
  BY <1>19 DEF ExitManualCall, ManualCall, Calls, RefusesManual
<1>20. CASE ManualSetpointCall
  BY <1>20 DEF ManualSetpointCall, Calls
<1>21. CASE StartSetsStartup
  BY <1>21 DEF StartSetsStartup, ClientSetsState
<1>22. CASE StartDriver
  BY <1>22 DEF StartDriver, Synthetic
<1>23. CASE StartSpawns
  BY <1>23 DEF StartSpawns
<1>24. CASE StartCamera
  BY <1>24 DEF StartCamera
<1>25. CASE StartFailsInCamera
  BY <1>25 DEF StartFailsInCamera, StopCommandQueue, JoinControl,
       JoinActuator, StopDriver, Synthetic
<1>26. CASE StartSetsFault
  BY <1>26 DEF StartSetsFault, ClientSetsState
<1>27. CASE StartReturnsFalse
  BY <1>27 DEF StartReturnsFalse
<1>28. CASE StartSetsNeutral
  BY <1>28 DEF StartSetsNeutral, ClientSetsState
<1>29. CASE StartParks
  <2>1. Synthetic("park") \in Command
    BY Commands DEF Source
  <2>. QED
    BY <1>29, <2>1, PushCommandStep DEF StartParks
<1>30. CASE StartSetsSearching
  BY <1>30 DEF StartSetsSearching, ClientSetsState
<1>31. CASE StopSetsStopping
  BY <1>31 DEF StopSetsStopping, ClientSetsState
<1>32. CASE StopCamera
  BY <1>32 DEF StopCamera
<1>33. CASE StopFrames
  BY <1>33 DEF StopFrames
<1>34. CASE StopJoinsControl
  BY <1>34 DEF StopJoinsControl, JoinControl
<1>35. CASE StopClearsCommands
  BY <1>35 DEF StopClearsCommands
<1>36. CASE StopLocksNeutral
  BY <1>36 DEF StopLocksNeutral, ClientLocks, LockKinematics
<1>37. CASE StopSolvesNeutral
  BY <1>37, StopSolvesStep DEF StopSolvesNeutral, ClientSolves
<1>38. CASE StopCommands
  BY <1>38 DEF StopCommands, StopCommandQueue
<1>39. CASE StopJoinsActuator
  BY <1>39 DEF StopJoinsActuator, JoinActuator
<1>40. CASE StopStopsDriver
  BY <1>40 DEF StopStopsDriver, StopDriver, Synthetic
<1>41. CASE StopSetsIdle
  BY <1>41 DEF StopSetsIdle, ClientSetsState
<1>42. CASE EnterManual
  BY <1>42 DEF EnterManual, ClientSetsState
<1>43. CASE ExitManual
  BY <1>43 DEF ExitManual, ClientSetsState
<1>44. CASE ManualLocks
  BY <1>44 DEF ManualLocks, ClientLocks, LockKinematics
<1>45. CASE ManualSolves
  BY <1>45, ManualSolvesStep DEF ManualSolves, ClientSolves
<1>46. CASE UNCHANGED vars
  BY <1>46 DEF vars
<1>. QED
  BY <1>1, <1>2, <1>3, <1>4, <1>5, <1>6, <1>7, <1>8, <1>9, <1>10, <1>11,
       <1>12, <1>13, <1>14, <1>15, <1>16, <1>17, <1>18, <1>19, <1>20, <1>21,
       <1>22, <1>23, <1>24, <1>25, <1>26, <1>27, <1>28, <1>29, <1>30, <1>31,
       <1>32, <1>33, <1>34, <1>35, <1>36, <1>37, <1>38, <1>39, <1>40, <1>41,
       <1>42, <1>43, <1>44, <1>45, <1>46 DEF Next, Control, Actuator,
       ClientCalls, ClientRuns, Start, Stop, Manual

-----------------------------------------------------------------------------
(* The theorems.                                                           *)

(* A tracker that has not been started satisfies the invariant. *)
LEMMA InitInv == Init => IInv
<1>. SUFFICES ASSUME Init PROVE IInv
  OBVIOUS
<1>1. TypeOK
  BY NoItem, Booleans
     DEF Init, TypeOK, QueueCapacity, Command, Source, TrackerState, Synthetic,
         ClientPlaces, ControlPlaces, ActuatorPlaces
<1>2. LockInv /\ RunningInv /\ ThreadsInv /\ DriverInv /\ CameraInv
  BY DEF Init, LockInv, RunningInv, ThreadsInv, DriverInv, CameraInv,
         StartPlaces, StopPlaces, ManualPlaces, Staffed, HalfStaffed,
         BeforePower, Down, Up
<1>3. QueuesInv /\ StateInv /\ OrderInv /\ NeutralInv
  BY DEF Init, QueuesInv, StateInv, OrderInv, NeutralInv, ControlBusy,
         StartPlaces, ManualPlaces, Down, Up, CanAutoProcess
<1>. QED
  BY <1>1, <1>2, <1>3 DEF IInv

(* The invariant holds whenever the specification's steps are taken.  None *)
(* of the properties below is inductive: each depends on where the client  *)
(* is in start() or stop(), which is what IInv ties everything to.         *)
THEOREM InvHolds == Spec => []IInv
<1>1. IInv /\ [Next]_vars => IInv'
  BY TypeStep, SkeletonStep, QueuesStep, StateStep, OrderStep, NeutralStep
     DEF IInv
<1>. QED
  BY <1>1, InitInv, PTL DEF Spec

(* Every variable keeps its type; both queues hold one item at most. *)
THEOREM TypeCorrect == Spec => []TypeOK
<1>1. IInv => TypeOK
  BY DEF IInv
<1>. QED
  BY <1>1, InvHolds, PTL

(* Two threads never solve the kinematics at once: kin_mtx_ covers all     *)
(* three places that do.                                                   *)
THEOREM KinematicsSafe == Spec => []KinematicsSerialised
<1>1. IInv => KinematicsSerialised
  BY DEF IInv, LockInv, KinematicsSerialised
<1>. QED
  BY <1>1, InvHolds, PTL

(* A failed start() and a stop() leave nothing of the tracker behind. *)
THEOREM DownIsQuiet == Spec => []QuietWhenDown
<1>1. IInv => QuietWhenDown
  <2>. SUFFICES ASSUME IInv, Down PROVE QuietWhenDown
    BY DEF QuietWhenDown, Down
  <2>1. control = "none" /\ actuator = "none"
    BY DEF IInv, ThreadsInv, Down, Up, Staffed, HalfStaffed, ManualPlaces
  <2>2. camera = "off"
    BY DEF IInv, CameraInv, Down, Up, ManualPlaces
  <2>3. ~driver
    BY DEF IInv, TypeOK, DriverInv
  <2>4. frame_q = <<>> /\ cmd_q = <<>>
    BY <2>1 DEF IInv, QueuesInv
  <2>5. state \in {"IDLE", "FAULT"}
    BY DEF IInv, StateInv
  <2>. QED
    BY <2>1, <2>2, <2>3, <2>4, <2>5 DEF QuietWhenDown
<1>. QED
  BY <1>1, InvHolds, PTL

(* start() never assigns to a std::thread that is still joinable. *)
THEOREM SpawnsSafe == Spec => []SpawnsOnlyJoined
<1>1. IInv => SpawnsOnlyJoined
  BY DEF IInv, ThreadsInv, SpawnsOnlyJoined, Staffed, HalfStaffed,
         ManualPlaces, Up
<1>. QED
  BY <1>1, InvHolds, PTL

(* The servos get the neutral command of stop() before the driver stops,   *)
(* and nothing after it.                                                   *)
THEOREM NeutralIsLast == Spec => []NeutralBeforePowerOff
<1>1. IInv => NeutralBeforePowerOff
  BY DEF IInv, NeutralInv, NeutralBeforePowerOff
<1>. QED
  BY <1>1, InvHolds, PTL

(* The actuator thread works on a command only while the driver runs. *)
THEOREM DriverServesWrites == Spec => []NoWriteToStoppedDriver
<1>1. IInv => NoWriteToStoppedDriver
  BY DEF IInv, TypeOK, ThreadsInv, DriverInv, NoWriteToStoppedDriver, Staffed,
         HalfStaffed, ManualPlaces, BeforePower, Down, Up
<1>. QED
  BY <1>1, InvHolds, PTL

(* No frame moves the servos twice or after a later one, through any       *)
(* number of restarts.                                                     *)
THEOREM FramesInOrder == Spec => []EachFrameOnceInOrder
<1>1. IInv => EachFrameOnceInOrder
  BY DEF IInv, OrderInv, EachFrameOnceInOrder
<1>. QED
  BY <1>1, InvHolds, PTL

(* Between calls a running tracker is SEARCHING, TRACKING, MANUAL or FAULT. *)
THEOREM StateSettles == Spec => []StateSettledBetweenCalls
<1>1. IInv => StateSettledBetweenCalls
  BY DEF IInv, StateInv, Up, StateSettledBetweenCalls
<1>. QED
  BY <1>1, InvHolds, PTL

-----------------------------------------------------------------------------
(* Every step of SystemManager is a step of TrackerLifecycle or leaves its *)
(* variables alone: the safety half of ImplementsLifecycle.  That start()  *)
(* and stop() return is checked by TLC.                                    *)

(* The places of stop() at which the neutral command exists. *)
AfterNeutral == {"stop_commands", "join_actuator", "stop_driver"}

(* Only stop() sends neutral, once and if it can be solved; only the driver *)
(* itself moves the servos as "driver".                                     *)
PostureInv ==
  /\ servo.src = "neutral" => client \in AfterNeutral /\ NeutralSolvable
  /\ actuator = "apply" =>
       /\ cmd.src # "driver"
       /\ cmd.src = "neutral" => client \in AfterNeutral /\ NeutralSolvable
  /\ cmd_q # <<>> =>
       /\ Head(cmd_q).src # "driver"
       /\ Head(cmd_q).src = "neutral" =>
            /\ client \in AfterNeutral /\ NeutralSolvable
            /\ servo.src # "neutral"
            /\ actuator = "apply" => cmd.src # "neutral"

(* What the two mechanisms that queue a command leave at its head. *)
LEMMA HeadSource ==
  /\ \A src \in Source : Head(<<Synthetic(src)>>).src = src
  /\ \A n \in Nat : Head(<<Automatic(n)>>).src = "auto"
BY DEF Synthetic, Automatic

(* Steps of the camera and of the control thread but its last. *)
Aside ==
  \/ OnFrame \/ CameraDies
  \/ ControlTakesFrame \/ ControlExits
  \/ EstimateChecksRunning \/ EstimateChecksState \/ EstimateSetsState
  \/ EstimateChecksAgain \/ SetpointChecksRunning \/ SetpointChecksState
  \/ ControlLocks

(* They touch nothing that commands pass through. *)
LEMMA AsideStep ==
  Aside => UNCHANGED <<client, running, actuator, driver, cmd, cmd_q, servo>>
BY DEF Aside, OnFrame, CameraDies, ControlTakesFrame, ControlExits,
       ControlChecks, EstimateChecksRunning, EstimateChecksState,
       EstimateSetsState, EstimateChecksAgain, SetpointChecksRunning,
       SetpointChecksState, ControlLocks, queues, plant

(* Every step keeps neutral commands inside the last part of stop(). *)
LEMMA PostureStep == IInv /\ PostureInv /\ [Next]_vars => PostureInv'
<1>. SUFFICES ASSUME IInv, PostureInv, [Next]_vars PROVE PostureInv'
  OBVIOUS
<1>. TypeOK
  BY DEF IInv
<1>. USE DEF PostureInv, AfterNeutral, ClientGoto, queues, plant
<1>1. CASE Aside
  BY <1>1, AsideStep
<1>2. CASE ControlSolves
  <2>1. UNCHANGED <<client, actuator, cmd, servo>>
    BY <1>2 DEF ControlSolves
  <2>2. cmd_q' = cmd_q \/ cmd_q' = <<Automatic(est.frame)>>
    BY <1>2, ControlSolvesStep
  <2>3. Head(<<Automatic(est.frame)>>).src = "auto"
    BY HeadSource DEF TypeOK
  <2>. QED
    BY <2>1, <2>2, <2>3
<1>3. CASE Actuator
  <2>1. Tail(cmd_q) = <<>> \/ cmd_q = <<>>
    BY QueueSteps
  <2>. QED
    BY <1>3, <2>1
       DEF Actuator, ActuatorTakesCommand, ActuatorExits, ActuatorApplies
<1>4. CASE ClientCalls
  BY <1>4 DEF ClientCalls, StartCall, StopCall, EnterManualCall, ExitManualCall,
              ManualCall, ManualSetpointCall, Calls
<1>5. CASE Start
  <2>1. CASE StartParks
    <3>1. Head(<<Synthetic("park")>>).src = "park"
      BY HeadSource DEF Source
    <3>2. UNCHANGED <<actuator, cmd, servo>> /\ client = "park"
      BY <2>1 DEF StartParks
    <3>3. cmd_q' = cmd_q \/ cmd_q' = <<Synthetic("park")>>
      BY <2>1, Commands, PushCommandStep DEF StartParks, Source
    <3>. QED
      BY <3>1, <3>2, <3>3
  <2>2. CASE Start /\ ~StartParks
    BY <2>2
       DEF Start, StartSetsStartup, StartDriver, StartSpawns, StartCamera,
           StartFailsInCamera, StopCommandQueue, JoinControl, JoinActuator,
           StopDriver, StartSetsFault, StartReturnsFalse, StartSetsNeutral,
           StartSetsSearching, ClientSetsState, Synthetic
  <2>. QED
    BY <1>5, <2>1, <2>2
<1>6. CASE Stop
  <2>1. CASE StopSolvesNeutral
    <3>1. UNCHANGED <<actuator, cmd, servo>> /\ client' = "stop_commands"
          /\ client = "solve_neutral"
      BY <2>1 DEF StopSolvesNeutral, ClientSolves
    <3>2. \/ cmd_q' = cmd_q
          \/ cmd_q' = <<Synthetic("neutral")>> /\ NeutralSolvable
      <4>1. CASE NeutralSolvable
        BY <2>1, <4>1, StopSolvesStep
      <4>2. CASE ~NeutralSolvable
        BY <2>1, <4>2
           DEF StopSolvesNeutral, ClientSolves, OnKinematicsCommand
      <4>. QED
        BY <4>1, <4>2
    <3>3. Head(<<Synthetic("neutral")>>).src = "neutral"
      BY HeadSource DEF Source
    <3>. QED
      BY <3>1, <3>2, <3>3
  <2>2. CASE StopStopsDriver
    BY <2>2 DEF StopStopsDriver, StopDriver, Synthetic, IInv, ThreadsInv,
                QueuesInv, Staffed, HalfStaffed, ManualPlaces, Up
  <2>3. CASE Stop /\ ~StopSolvesNeutral /\ ~StopStopsDriver
    BY <2>3
       DEF Stop, StopSetsStopping, StopCamera, StopFrames, StopJoinsControl,
           JoinControl, StopClearsCommands, StopLocksNeutral, ClientLocks,
           StopCommands, StopCommandQueue, StopJoinsActuator, JoinActuator,
           StopSetsIdle, ClientSetsState
  <2>. QED
    BY <1>6, <2>1, <2>2, <2>3
<1>7. CASE Manual
  <2>1. CASE ManualSolves
    <3>1. UNCHANGED <<actuator, cmd, servo>> /\ client = "solve_manual"
      BY <2>1 DEF ManualSolves, ClientSolves
    <3>2. cmd_q' = cmd_q \/ cmd_q' = <<Synthetic("manual")>>
      BY <2>1, ManualSolvesStep
    <3>3. Head(<<Synthetic("manual")>>).src = "manual"
      BY HeadSource DEF Source
    <3>. QED
      BY <3>1, <3>2, <3>3
  <2>2. CASE Manual /\ ~ManualSolves
    BY <2>2 DEF Manual, EnterManual, ExitManual, ManualLocks, ClientLocks,
                ClientSetsState
  <2>. QED
    BY <1>7, <2>1, <2>2
<1>8. CASE UNCHANGED vars
  BY <1>8 DEF vars
<1>. QED
  BY <1>1, <1>2, <1>3, <1>4, <1>5, <1>6, <1>7, <1>8
     DEF Next, Control, ClientRuns, Aside

(* A tracker that has not been started has moved no servo. *)
LEMMA PostureHolds == Spec => []PostureInv
<1>1. Init => PostureInv
  BY DEF Init, PostureInv, Synthetic
<1>. QED
  BY <1>1, PostureStep, InvHolds, PTL DEF Spec

-----------------------------------------------------------------------------
(* A step that leaves the client, running_, the driver and the servos      *)
(* alone leaves the lifecycle alone.                                       *)
LEMMA LifecycleStutters ==
  UNCHANGED <<client, running, driver, servo>> => UNCHANGED Lifecycle!vars
BY DEF Lifecycle!vars, Phase

(* Every step is a lifecycle step or leaves the lifecycle alone. *)
LEMMA LifecycleStep ==
  IInv /\ PostureInv /\ [Next]_vars => [Lifecycle!Next]_(Lifecycle!vars)
<1>. SUFFICES ASSUME IInv, PostureInv, [Next]_vars
              PROVE  [Lifecycle!Next]_(Lifecycle!vars)
  OBVIOUS
<1>. TypeOK /\ RunningInv /\ ThreadsInv /\ DriverInv /\ NeutralInv
  BY DEF IInv
<1>. USE DEF ClientGoto, queues, plant, Phase, Lifecycle!Next, Lifecycle!vars,
             Lifecycle!Enter, StartPlaces, StopPlaces, ManualPlaces, RunningInv
<1>1. CASE Aside \/ ControlSolves \/ ActuatorTakesCommand \/ ActuatorExits
  BY <1>1, AsideStep, LifecycleStutters
     DEF ControlSolves, ActuatorTakesCommand, ActuatorExits
<1>2. CASE ActuatorApplies
  <2>1. driver /\ UNCHANGED <<client, running, driver>>
    BY <1>2 DEF ActuatorApplies, TypeOK, ThreadsInv, DriverInv, Staffed,
                HalfStaffed, BeforePower, Down, Up
  <2>2. servo' = cmd
    BY <1>2, <2>1 DEF ActuatorApplies
  <2>3. CASE cmd.src = "neutral"
    BY <1>2, <2>1, <2>2, <2>3 DEF Lifecycle!Progress, Lifecycle!Neutral,
       PostureInv, AfterNeutral, ActuatorApplies
  <2>4. CASE cmd.src # "neutral"
    <3>1. cmd.src \in {"park", "auto", "manual"}
      BY <1>2, <2>4 DEF PostureInv, ActuatorApplies, TypeOK, Command, Source
    <3>2. servo.src # "neutral"
      <4>. SUFFICES ASSUME servo.src = "neutral" PROVE FALSE
        OBVIOUS
      <4>1. NeutralSolvable /\ client \in AfterNeutral /\ actuator = "apply"
        BY <1>2 DEF PostureInv, ActuatorApplies
      <4>2. client # "stop_driver"
        BY <4>1 DEF ThreadsInv, Staffed, HalfStaffed, Up
      <4>3. cmd_q = <<Synthetic("neutral")>>
        BY <2>4, <4>1, <4>2 DEF NeutralInv, AfterNeutral, Synthetic
      <4>4. Head(cmd_q).src = "neutral" /\ cmd_q # <<>>
        BY <4>3, HeadSource DEF Source
      <4>. QED
        BY <4>4 DEF PostureInv
    <3>. QED
      BY <2>1, <2>2, <3>1, <3>2 DEF Lifecycle!Move
  <2>. QED
    BY <2>3, <2>4
<1>3. CASE ClientCalls
  BY <1>3 DEF ClientCalls, StartCall, StopCall, EnterManualCall, ExitManualCall,
              ManualCall, ManualSetpointCall, Calls, Lifecycle!Begin,
              Lifecycle!Halt, DriverInv, Down
<1>4. CASE Start
  BY <1>4 DEF Start, StartSetsStartup, StartDriver, StartSpawns, StartCamera,
              StartFailsInCamera, StopCommandQueue, JoinControl, JoinActuator,
              StopDriver, StartSetsFault, StartReturnsFalse, StartSetsNeutral,
              StartParks, StartSetsSearching, ClientSetsState, Synthetic,
              DriverInv, BeforePower, Down, TypeOK, Lifecycle!Progress,
              Lifecycle!PowerUp, Lifecycle!PowerDown, Lifecycle!Come,
              Lifecycle!Abort, Lifecycle!GiveUp
<1>5. CASE Stop
  BY <1>5 DEF Stop, StopSetsStopping, StopCamera, StopFrames, StopJoinsControl,
              JoinControl, StopClearsCommands, StopLocksNeutral, ClientLocks,
              StopSolvesNeutral, ClientSolves, StopCommands, StopCommandQueue,
              StopJoinsActuator, JoinActuator, StopStopsDriver, StopDriver,
              StopSetsIdle, ClientSetsState, Synthetic, NeutralInv, DriverInv,
              BeforePower, Down, TypeOK, Lifecycle!Progress,
              Lifecycle!PowerDown, Lifecycle!Gone
<1>6. CASE Manual
  BY <1>6 DEF Manual, EnterManual, ExitManual, ManualLocks, ClientLocks,
              ManualSolves, ClientSolves, ClientSetsState
<1>7. CASE UNCHANGED vars
  BY <1>7, LifecycleStutters DEF vars
<1>. QED
  BY <1>1, <1>2, <1>3, <1>4, <1>5, <1>6, <1>7
     DEF Next, Control, Actuator, ClientRuns, Aside

(* The runtime implements the lifecycle as far as safety goes: the servos  *)
(* are moved only while the driver is powered, a start that fails powers   *)
(* it down again, and a stop powers it down after the neutral pose.        *)
THEOREM ImplementsLifecycleSafely == Spec => Lifecycle!Safe
<1>1. Init => Lifecycle!Init
  BY DEF Init, Lifecycle!Init, Phase, Synthetic, StartPlaces, StopPlaces
<1>. QED
  BY <1>1, LifecycleStep, InvHolds, PostureHolds, PTL DEF Spec, Lifecycle!Safe
=============================================================================
