--------------------------- MODULE SystemManager ----------------------------
(***************************************************************************)
(* solar::SystemManager (src/src/system/SystemManager.cpp): the runtime    *)
(* that owns the camera, the control thread, the actuator thread and the   *)
(* servo driver, and the tracker state they share.                         *)
(*                                                                         *)
(* Four threads run:                                                       *)
(*   the client    the one thread that calls the public operations: the    *)
(*                 event loop's thread, or Qt's GUI thread                 *)
(*   the camera    calls onFrame_ between camera_->start() and stop()      *)
(*   control       frame_q_ -> tracker -> controller -> kinematics         *)
(*   actuator      cmd_q_ -> actuator manager -> servo driver              *)
(*                                                                         *)
(* A step is one access to what threads share: an atomic (running_,        *)
(* state_), a queue operation, a lock or a join.  setState_ loads state_   *)
(* and stores only a different value; either way it acts as a store of its *)
(* argument at one instant (the load's, if they are equal), which is how   *)
(* it is modelled.  The queues are those of module QueueOps: an operation  *)
(* is atomic and wait_pop is enabled when there is an item or the queue is *)
(* stopped, which is what ThreadSafeQueue is shown to implement.           *)
(*                                                                         *)
(* A frame is its capture number.  What the algorithms make of it is       *)
(* nondeterministic: an invalid frame, a confident estimate or not, a pose *)
(* the kinematics can reach or not.                                        *)
(***************************************************************************)
EXTENDS QueueOps

CONSTANTS
  HasCamera,        (* a camera was passed to the constructor              *)
  NeutralSolvable,  (* the inverse kinematics reach the zero pose          *)
  MaxFrames,        (* bound on the frames captured                        *)
  MaxCalls          (* bound on the client's calls                         *)

ASSUME HasCameraAssumption == HasCamera \in BOOLEAN
ASSUME NeutralAssumption == NeutralSolvable \in BOOLEAN
ASSUME BoundsAssumption == MaxFrames \in Nat /\ MaxCalls \in Nat

VARIABLES
  state,          (* state_                                                *)
  running,        (* running_                                              *)
  frame_q,        (* frame_q_: capture numbers                             *)
  frame_stopped,
  cmd_q,          (* cmd_q_: commands                                      *)
  cmd_stopped,
  kin_owner,      (* who holds kin_mtx_                                    *)
  client,         (* where the client thread is                            *)
  control,        (* where the control thread is                           *)
  actuator,       (* where the actuator thread is                          *)
  camera,         (* the camera's worker: off, streaming or dead           *)
  driver,         (* ServoDriver::running_                                 *)
  est,            (* the estimate the control thread works on              *)
  cmd,            (* the command the actuator thread works on              *)
  servo,          (* the command the servos were last given                *)
  captured,       (* history: frames captured                              *)
  actuated,       (* history: newest frame whose command reached the servos *)
  calls           (* history: calls the client made                        *)

queues   == <<frame_q, frame_stopped, cmd_q, cmd_stopped>>
plant    == <<camera, driver, servo, captured, actuated>>
vars     == <<state, running, queues, kin_owner, client, control, actuator,
              est, cmd, plant, calls>>

-----------------------------------------------------------------------------
(* Values.                                                                 *)

TrackerState == {"IDLE", "STARTUP", "NEUTRAL", "SEARCHING", "TRACKING",
                 "MANUAL", "STOPPING", "FAULT"}

Source == {"driver", "park", "auto", "manual", "neutral"}

(* A command, by what asked for it; `frame` is 0 unless it is automatic.   *)
Command == [src : Source, frame : Nat]

Synthetic(src) == [src |-> src, frame |-> 0]
Automatic(n)   == [src |-> "auto", frame |-> n]

(* "none": no std::thread.  "done": the loop ended, the thread is still to *)
(* be joined.                                                              *)
ControlPlaces == {"none", "wait", "estimated", "gate", "set_state", "regate",
                  "setpoint", "setpoint_gate", "lock", "solve", "done"}

ActuatorPlaces == {"none", "wait", "apply", "done"}

StartPlaces == {"startup", "start_driver", "spawn", "start_camera",
                "fail_cmd_stop", "fail_join_control", "fail_join_actuator",
                "fail_driver", "fault", "give_up",
                "neutral", "park", "searching"}

StopPlaces == {"stopping", "stop_camera", "stop_frames", "join_control",
               "clear_commands", "lock_neutral", "solve_neutral",
               "stop_commands", "join_actuator", "stop_driver", "idle_state"}

ManualPlaces == {"enter_manual", "exit_manual", "lock_manual", "solve_manual"}

ClientPlaces == {"outside"} \cup StartPlaces \cup StopPlaces \cup ManualPlaces

(* capacity of both queues: ThreadSafeQueue<...> frame_q_{1}, cmd_q_{1} *)
QueueCapacity == 1

(* canAutoProcess_ *)
CanAutoProcess(s) == s \in {"SEARCHING", "TRACKING"}

\* Fault variant: the IDLE of a stopped tracker is not refused.
RefusesManualIfFailed(s) == s \in {"FAULT", "STOPPING"}

(* The states in which enterManual and exitManual return at once. *)
RefusesManual(s) == s \in {"FAULT", "STOPPING", "IDLE"}

Init ==
  /\ state = "IDLE" /\ running = FALSE
  /\ frame_q = <<>> /\ frame_stopped = FALSE
  /\ cmd_q = <<>> /\ cmd_stopped = FALSE
  /\ kin_owner = "nobody"
  /\ client = "outside" /\ control = "none" /\ actuator = "none"
  /\ camera = "off" /\ driver = FALSE
  /\ est = [frame |-> 0, confident |-> FALSE]
  /\ cmd = Synthetic("driver") /\ servo = Synthetic("driver")
  /\ captured = 0 /\ actuated = 0 /\ calls = 0

-----------------------------------------------------------------------------
(* Queue operations of the two queues.                                     *)

PushCommand(c) ==
  cmd_q' = IF cmd_stopped THEN cmd_q
                          ELSE PushedLatest(cmd_q, QueueCapacity, c)

(* The command callback of the kinematics: a command that is not Ok raises *)
(* FAULT and is dropped, an Ok one is queued.  The caller holds kin_mtx_   *)
(* and releases it afterwards.                                             *)
OnKinematicsCommand(ok, c) ==
  /\ kin_owner' = "nobody"
  /\ IF ok THEN PushCommand(c) /\ UNCHANGED state
           ELSE state' = "FAULT" /\ UNCHANGED cmd_q

LockKinematics(who) == kin_owner = "nobody" /\ kin_owner' = who

-----------------------------------------------------------------------------
(* The camera's thread.                                                    *)

(* onFrame_, called for every captured frame. *)
OnFrame ==
  /\ camera = "streaming"
  /\ captured < MaxFrames
  /\ captured' = captured + 1
  /\ frame_q' = IF frame_stopped THEN frame_q
                ELSE PushedLatest(frame_q, QueueCapacity, captured')
  /\ UNCHANGED <<state, running, frame_stopped, cmd_q, cmd_stopped, kin_owner,
                 client, control, actuator, camera, driver, est, cmd, servo,
                 actuated, calls>>

(* A publisher's thread returns from run_ after an error: no more frames,  *)
(* and nobody is told.                                                     *)
CameraDies ==
  /\ camera = "streaming"
  /\ camera' = "dead"
  /\ UNCHANGED <<state, running, queues, kin_owner, client, control, actuator,
                 driver, est, cmd, servo, captured, actuated, calls>>

-----------------------------------------------------------------------------
(* The control thread: controlLoop_ and the callbacks it runs through.     *)

ControlGoto(place) == control' = place

(* wait_pop hands over a frame.  SunTracker drops an invalid frame;        *)
(* otherwise it calls the estimate callback.                               *)
ControlTakesFrame ==
  /\ control = "wait" /\ frame_q # <<>>
  /\ frame_q' = Tail(frame_q)
  /\ \/ /\ \E confident \in BOOLEAN :
             est' = [frame |-> Head(frame_q), confident |-> confident]
        /\ ControlGoto("estimated")
     \/ UNCHANGED <<est, control>>
  /\ UNCHANGED <<state, running, frame_stopped, cmd_q, cmd_stopped, kin_owner,
                 client, actuator, cmd, plant, calls>>

(* wait_pop returns nullopt: the loop ends. *)
ControlExits ==
  /\ control = "wait" /\ frame_q = <<>> /\ frame_stopped
  /\ ControlGoto("done")
  /\ UNCHANGED <<state, running, queues, kin_owner, client, actuator, est, cmd,
                 plant, calls>>

(* A condition the callback reads before it goes on; if it fails the       *)
(* callback returns and the loop waits for the next frame.                 *)
ControlChecks(place, condition, next) ==
  /\ control = place
  /\ ControlGoto(IF condition THEN next ELSE "wait")
  /\ UNCHANGED <<state, running, queues, kin_owner, client, actuator, est, cmd,
                 plant, calls>>

EstimateChecksRunning == ControlChecks("estimated", running, "gate")

\* Fault variant: the estimate callback does not look at the state.
EstimateUngated == ControlChecks("gate", TRUE, "set_state")

EstimateChecksState == ControlChecks("gate", CanAutoProcess(state), "set_state")

(* setState_(confidence >= min_confidence_ ? TRACKING : SEARCHING) *)
EstimateSetsState ==
  /\ control = "set_state"
  /\ state' = IF est.confident THEN "TRACKING" ELSE "SEARCHING"
  /\ ControlGoto("regate")
  /\ UNCHANGED <<running, queues, kin_owner, client, actuator, est, cmd, plant,
                 calls>>

(* The second look at the state; then Controller::onEstimate, which always *)
(* ends in the setpoint callback.                                          *)
EstimateChecksAgain ==
  ControlChecks("regate", CanAutoProcess(state), "setpoint")

SetpointChecksRunning == ControlChecks("setpoint", running, "setpoint_gate")

SetpointChecksState ==
  ControlChecks("setpoint_gate", CanAutoProcess(state), "lock")

\* Fault variant: kin_mtx_ is not taken around kinematics_.onSetpoint.
ControlEntersUnlocked ==
  /\ control = "lock"
  /\ kin_owner' = "control"
  /\ ControlGoto("solve")
  /\ UNCHANGED <<state, running, queues, client, actuator, est, cmd, plant,
                 calls>>

ControlLocks ==
  /\ control = "lock"
  /\ LockKinematics("control")
  /\ ControlGoto("solve")
  /\ UNCHANGED <<state, running, queues, client, actuator, est, cmd, plant,
                 calls>>

\* Fault variant: a command is numbered by the newest frame, not by its own.
ControlSolvesForNewest ==
  /\ control = "solve"
  /\ \E ok \in IF est.confident THEN BOOLEAN ELSE {NeutralSolvable} :
       OnKinematicsCommand(ok, Automatic(captured))
  /\ ControlGoto("wait")
  /\ UNCHANGED <<running, frame_q, frame_stopped, cmd_stopped, client, actuator,
                 est, cmd, plant, calls>>

(* Kinematics3RRS::onSetpoint and its command callback.  Without           *)
(* confidence the setpoint is the zero pose.                               *)
ControlSolves ==
  /\ control = "solve"
  /\ \E ok \in IF est.confident THEN BOOLEAN ELSE {NeutralSolvable} :
       OnKinematicsCommand(ok, Automatic(est.frame))
  /\ ControlGoto("wait")
  /\ UNCHANGED <<running, frame_q, frame_stopped, cmd_stopped, client, actuator,
                 est, cmd, plant, calls>>

Control ==
  \/ ControlTakesFrame \/ ControlExits
  \/ EstimateChecksRunning \/ EstimateChecksState \/ EstimateSetsState
  \/ EstimateChecksAgain \/ SetpointChecksRunning \/ SetpointChecksState
  \/ ControlLocks \/ ControlSolves

-----------------------------------------------------------------------------
(* The actuator thread: actuatorLoop_.                                     *)

ActuatorTakesCommand ==
  /\ actuator = "wait" /\ cmd_q # <<>>
  /\ cmd' = Head(cmd_q)
  /\ cmd_q' = Tail(cmd_q)
  /\ actuator' = "apply"
  /\ UNCHANGED <<state, running, frame_q, frame_stopped, cmd_stopped, kin_owner,
                 client, control, est, plant, calls>>

\* Fault variant: a stopped queue ends the loop before it is drained.
ActuatorExitsUndrained ==
  /\ actuator = "wait" /\ cmd_stopped
  /\ actuator' = "done"
  /\ UNCHANGED <<state, running, queues, kin_owner, client, control, est, cmd,
                 plant, calls>>

ActuatorExits ==
  /\ actuator = "wait" /\ cmd_q = <<>> /\ cmd_stopped
  /\ actuator' = "done"
  /\ UNCHANGED <<state, running, queues, kin_owner, client, control, est, cmd,
                 plant, calls>>

(* ActuatorManager::onCommand, the safe command callback and               *)
(* ServoDriver::apply, which writes nothing once the driver is stopped.    *)
ActuatorApplies ==
  /\ actuator = "apply"
  /\ servo' = IF driver THEN cmd ELSE servo
  /\ actuated' = IF driver /\ cmd.src = "auto" THEN cmd.frame ELSE actuated
  /\ actuator' = "wait"
  /\ UNCHANGED <<state, running, queues, kin_owner, client, control, est, cmd,
                 camera, driver, captured, calls>>

Actuator == ActuatorTakesCommand \/ ActuatorExits \/ ActuatorApplies

-----------------------------------------------------------------------------
(* The client: start().                                                    *)

ClientGoto(from, to) == client = from /\ client' = to

Calls(to) ==
  /\ ClientGoto("outside", to)
  /\ calls < MaxCalls
  /\ calls' = calls + 1

(* setState_(s) by the client, on its way from one place to another. *)
ClientSetsState(from, s, to) ==
  /\ ClientGoto(from, to)
  /\ state' = s
  /\ UNCHANGED <<running, queues, kin_owner, control, actuator, est, cmd, plant,
                 calls>>

(* running_.compare_exchange_strong(false, true); a running tracker        *)
(* returns true at once.                                                   *)
StartCall ==
  /\ Calls("startup")
  /\ ~running
  /\ running' = TRUE
  /\ UNCHANGED <<state, queues, kin_owner, control, actuator, est, cmd, plant>>

StartSetsStartup ==
  ClientSetsState("startup", "STARTUP",
                  IF HasCamera THEN "start_driver" ELSE "fault")

(* ServoDriver::start; with park_on_start it moves the servos itself. *)
StartDriver ==
  /\ \/ /\ ClientGoto("start_driver", "spawn")
        /\ driver' = TRUE
        /\ servo' = Synthetic("driver")
     \/ /\ ClientGoto("start_driver", "fault")
        /\ UNCHANGED <<driver, servo>>
  /\ UNCHANGED <<state, running, queues, kin_owner, control, actuator, est, cmd,
                 camera, captured, actuated, calls>>

(* Both queues are cleared and reset, then both threads are created.  No   *)
(* other thread of the tracker runs yet.                                   *)
StartSpawns ==
  /\ ClientGoto("spawn", "start_camera")
  /\ frame_q' = <<>> /\ frame_stopped' = FALSE
  /\ cmd_q' = <<>> /\ cmd_stopped' = FALSE
  /\ control' = "wait" /\ actuator' = "wait"
  /\ UNCHANGED <<state, running, kin_owner, est, cmd, plant, calls>>

(* camera_->start(); if it fails, the first step of the cleanup is         *)
(* frame_q_.stop().                                                        *)
StartCamera ==
  /\ \/ /\ ClientGoto("start_camera", "neutral")
        /\ camera' = "streaming"
        /\ UNCHANGED frame_stopped
     \/ /\ ClientGoto("start_camera", "fail_cmd_stop")
        /\ frame_stopped' = TRUE
        /\ UNCHANGED camera
  /\ UNCHANGED <<state, running, frame_q, cmd_q, cmd_stopped, kin_owner,
                 control, actuator, driver, est, cmd, servo, captured,
                 actuated, calls>>

StopCommandQueue(from, to) ==
  /\ ClientGoto(from, to)
  /\ cmd_stopped' = TRUE
  /\ UNCHANGED <<state, running, frame_q, frame_stopped, cmd_q, kin_owner,
                 control, actuator, est, cmd, plant, calls>>

JoinControl(from, to) ==
  /\ ClientGoto(from, to)
  /\ control = "done" /\ control' = "none"
  /\ UNCHANGED <<state, running, queues, kin_owner, actuator, est, cmd, plant,
                 calls>>

JoinActuator(from, to) ==
  /\ ClientGoto(from, to)
  /\ actuator = "done" /\ actuator' = "none"
  /\ UNCHANGED <<state, running, queues, kin_owner, control, est, cmd, plant,
                 calls>>

(* ServoDriver::stop; with park_on_stop it moves the servos itself. *)
StopDriver(from, to) ==
  /\ ClientGoto(from, to)
  /\ driver' = FALSE
  /\ servo' = Synthetic("driver")
  /\ UNCHANGED <<state, running, queues, kin_owner, control, actuator, est, cmd,
                 camera, captured, actuated, calls>>

StartFailsInCamera ==
  \/ StopCommandQueue("fail_cmd_stop", "fail_join_control")
  \/ JoinControl("fail_join_control", "fail_join_actuator")
  \/ JoinActuator("fail_join_actuator", "fail_driver")
  \/ StopDriver("fail_driver", "fault")

StartSetsFault == ClientSetsState("fault", "FAULT", "give_up")

StartReturnsFalse ==
  /\ ClientGoto("give_up", "outside")
  /\ running' = FALSE
  /\ UNCHANGED <<state, queues, kin_owner, control, actuator, est, cmd, plant,
                 calls>>

StartSetsNeutral == ClientSetsState("neutral", "NEUTRAL", "park")

(* applyParkOnce_: straight into the command queue, past the kinematics. *)
StartParks ==
  /\ ClientGoto("park", "searching")
  /\ PushCommand(Synthetic("park"))
  /\ UNCHANGED <<state, running, frame_q, frame_stopped, cmd_stopped, kin_owner,
                 control, actuator, est, cmd, plant, calls>>

StartSetsSearching == ClientSetsState("searching", "SEARCHING", "outside")

Start ==
  \/ StartSetsStartup \/ StartDriver \/ StartSpawns \/ StartCamera
  \/ StartFailsInCamera \/ StartSetsFault \/ StartReturnsFalse
  \/ StartSetsNeutral \/ StartParks \/ StartSetsSearching

-----------------------------------------------------------------------------
(* The client: stop().                                                     *)

(* running_.compare_exchange_strong(true, false); a tracker that does not  *)
(* run returns at once.                                                    *)
StopCall ==
  /\ Calls("stopping")
  /\ running
  /\ running' = FALSE
  /\ UNCHANGED <<state, queues, kin_owner, control, actuator, est, cmd, plant>>

StopSetsStopping == ClientSetsState("stopping", "STOPPING", "stop_camera")

(* camera_->stop() returns when the camera's thread has been joined. *)
StopCamera ==
  /\ ClientGoto("stop_camera", "stop_frames")
  /\ camera' = "off"
  /\ UNCHANGED <<state, running, queues, kin_owner, control, actuator, driver,
                 est, cmd, servo, captured, actuated, calls>>

\* Fault variant: the frame queue is never stopped.
StopFramesForgotten ==
  /\ ClientGoto("stop_frames", "join_control")
  /\ UNCHANGED <<state, running, queues, kin_owner, control, actuator, est, cmd,
                 plant, calls>>

StopFrames ==
  /\ ClientGoto("stop_frames", "join_control")
  /\ frame_stopped' = TRUE
  /\ UNCHANGED <<state, running, frame_q, cmd_q, cmd_stopped, kin_owner,
                 control, actuator, est, cmd, plant, calls>>

\* Fault variant: stop() goes on without waiting for the control thread.
StopJoinsControlLate ==
  /\ ClientGoto("join_control", "clear_commands")
  /\ UNCHANGED <<state, running, queues, kin_owner, control, actuator, est, cmd,
                 plant, calls>>

StopJoinsControl == JoinControl("join_control", "clear_commands")

(* cmd_q_.clear() and cmd_q_.reset(): what the pipeline still had queued   *)
(* is given up for the neutral command.                                    *)
StopClearsCommands ==
  /\ ClientGoto("clear_commands", "lock_neutral")
  /\ cmd_q' = <<>> /\ cmd_stopped' = FALSE
  /\ UNCHANGED <<state, running, frame_q, frame_stopped, kin_owner, control,
                 actuator, est, cmd, plant, calls>>

ClientLocks(from, to) ==
  /\ ClientGoto(from, to)
  /\ LockKinematics("client")
  /\ UNCHANGED <<state, running, queues, control, actuator, est, cmd, plant,
                 calls>>

ClientSolves(from, to, ok, c) ==
  /\ ClientGoto(from, to)
  /\ OnKinematicsCommand(ok, c)
  /\ UNCHANGED <<running, frame_q, frame_stopped, cmd_stopped, control,
                 actuator, est, cmd, plant, calls>>

StopLocksNeutral == ClientLocks("lock_neutral", "solve_neutral")

(* applyNeutralOnce_: the zero pose through the kinematics. *)
StopSolvesNeutral ==
  ClientSolves("solve_neutral", "stop_commands", NeutralSolvable,
               Synthetic("neutral"))

StopCommands == StopCommandQueue("stop_commands", "join_actuator")

\* Fault variant: stop() goes on without waiting for the actuator thread.
StopJoinsActuatorLate ==
  /\ ClientGoto("join_actuator", "stop_driver")
  /\ UNCHANGED <<state, running, queues, kin_owner, control, actuator, est, cmd,
                 plant, calls>>

StopJoinsActuator == JoinActuator("join_actuator", "stop_driver")

StopStopsDriver == StopDriver("stop_driver", "idle_state")

StopSetsIdle == ClientSetsState("idle_state", "IDLE", "outside")

Stop ==
  \/ StopSetsStopping \/ StopCamera \/ StopFrames \/ StopJoinsControl
  \/ StopClearsCommands \/ StopLocksNeutral \/ StopSolvesNeutral
  \/ StopCommands \/ StopJoinsActuator \/ StopStopsDriver \/ StopSetsIdle

-----------------------------------------------------------------------------
(* The client: manual operation.                                           *)

(* enterManual and exitManual look at the state once and then set it. *)
ManualCall(to) ==
  /\ Calls(to)
  /\ ~RefusesManual(state)
  /\ UNCHANGED <<state, running, queues, kin_owner, control, actuator, est, cmd,
                 plant>>

EnterManualCall == ManualCall("enter_manual")
EnterManual     == ClientSetsState("enter_manual", "MANUAL", "outside")

ExitManualCall == ManualCall("exit_manual")
ExitManual     == ClientSetsState("exit_manual", "SEARCHING", "outside")

(* setManualSetpoint: only in MANUAL and only while running; running_ is   *)
(* written by no other thread, so both are read in one step.               *)
ManualSetpointCall ==
  /\ Calls("lock_manual")
  /\ state = "MANUAL"
  /\ running
  /\ UNCHANGED <<state, running, queues, kin_owner, control, actuator, est, cmd,
                 plant>>

ManualLocks == ClientLocks("lock_manual", "solve_manual")

ManualSolves ==
  \E ok \in BOOLEAN :
    ClientSolves("solve_manual", "outside", ok, Synthetic("manual"))

Manual == EnterManual \/ ExitManual \/ ManualLocks \/ ManualSolves

-----------------------------------------------------------------------------
(* The specification.                                                      *)

ClientCalls ==
  \/ StartCall \/ StopCall
  \/ EnterManualCall \/ ExitManualCall \/ ManualSetpointCall

ClientRuns == Start \/ Stop \/ Manual

Next ==
  \/ OnFrame \/ CameraDies \/ Control \/ Actuator \/ ClientCalls \/ ClientRuns

Spec == Init /\ [][Next]_vars

(* Every thread is scheduled: each of them runs on whenever it can, and a  *)
(* call the client has begun is carried on.  Nothing is assumed of what    *)
(* the client calls, nor of the camera.  kin_mtx_ needs no more than this: *)
(* a bounded number of calls cannot starve the control thread.             *)
Fairness == WF_vars(Control) /\ WF_vars(Actuator) /\ WF_vars(ClientRuns)

FairSpec == Spec /\ Fairness

-----------------------------------------------------------------------------
(* Properties.                                                             *)

(* Types; both queues hold one item at most. *)
TypeOK ==
  /\ state \in TrackerState
  /\ running \in BOOLEAN
  /\ frame_q \in Seq(Nat) /\ Len(frame_q) <= QueueCapacity
  /\ frame_stopped \in BOOLEAN
  /\ cmd_q \in Seq(Command) /\ Len(cmd_q) <= QueueCapacity
  /\ cmd_stopped \in BOOLEAN
  /\ kin_owner \in {"nobody", "control", "client"}
  /\ client \in ClientPlaces
  /\ control \in ControlPlaces
  /\ actuator \in ActuatorPlaces
  /\ camera \in {"off", "streaming", "dead"}
  /\ driver \in BOOLEAN
  /\ est \in [frame : Nat, confident : BOOLEAN]
  /\ cmd \in Command /\ servo \in Command
  /\ captured \in Nat /\ actuated \in Nat /\ calls \in Nat

(* The continuity state of the kinematics is used by one thread at a time, *)
(* although the control thread, setManualSetpoint and stop() all solve.    *)
KinematicsSerialised ==
  control = "solve" => client \notin {"solve_manual", "solve_neutral"}

(* When start() has failed or stop() has returned, nothing of the tracker  *)
(* is left behind: no thread to join, no camera, no driver, no frame or    *)
(* command that a later start() could act on, and a state that says so.    *)
QuietWhenDown ==
  client = "outside" /\ ~running =>
    /\ control = "none" /\ actuator = "none"
    /\ camera = "off" /\ ~driver
    /\ frame_q = <<>> /\ cmd_q = <<>>
    /\ state \in {"IDLE", "FAULT"}

(* start() assigns to control_thread_ and actuator_thread_ only when both  *)
(* are joined; assigning to a joinable std::thread terminates the process. *)
SpawnsOnlyJoined == client = "spawn" => control = "none" /\ actuator = "none"

(* The driver is stopped only after the neutral command of stop() has      *)
(* reached the servos, and nothing came after it: neither a frame still in *)
(* the pipeline nor an earlier command.                                    *)
NeutralBeforePowerOff ==
  client = "stop_driver" /\ NeutralSolvable => servo = Synthetic("neutral")

(* A command reaches the servo driver only while the driver runs: the      *)
(* branch of ServoDriver::apply for a stopped driver is dead code here.    *)
NoWriteToStoppedDriver == actuator = "apply" => driver

(* Every frame moves the servos at most once, and in capture order, across *)
(* the two queues that drop and the restarts of the tracker.               *)
EachFrameOnceInOrder ==
  actuator = "apply" /\ cmd.src = "auto" => actuated < cmd.frame

(* Between calls the client reads a state that agrees with the lifecycle:  *)
(* no transitional state survives the call that set it.                    *)
StateSettledBetweenCalls ==
  client = "outside" /\ running =>
    state \in {"SEARCHING", "TRACKING", "MANUAL", "FAULT"}

(* No frame and no command is queued or in a thread's hands.               *)
Drained ==
  /\ frame_q = <<>> /\ control \in {"none", "wait", "done"}
  /\ cmd_q = <<>> /\ actuator \in {"none", "wait", "done"}

(* Every frame that waits in the queue is taken or superseded, every       *)
(* command is given to the actuator or superseded: the two loops never     *)
(* stall on each other or on the client.  When the camera has died, which  *)
(* nobody is told, what it left behind is worked off, and then nothing of  *)
(* it can move the servos any more, whatever the state still says.         *)
PipelineMoves ==
  /\ frame_q # <<>> ~> frame_q = <<>>
  /\ cmd_q # <<>> ~> cmd_q = <<>>
  /\ camera = "dead" ~> Drained \/ camera = "off"

(* What start() and stop() promise to the client.                          *)
Phase ==
  CASE client \in {"fault", "give_up"} -> "failing"
    [] client \in StartPlaces \ {"fault", "give_up"} -> "starting"
    [] client \in StopPlaces  -> "stopping"
    [] OTHER                  -> IF running THEN "up" ELSE "down"

Lifecycle == INSTANCE TrackerLifecycle
               WITH phase <- Phase, powered <- driver, posture <- servo.src

(* The runtime implements the lifecycle, with its liveness: start() and    *)
(* stop() return, whatever the other threads are doing.                    *)
ImplementsLifecycle == Lifecycle!Spec
=============================================================================
