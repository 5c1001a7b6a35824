# Formal model of the sun tracker

This directory specifies the runtime of the sun tracker (`src/src/`) in TLA+:
modules that model its components, TLC configurations that check them on small
instances, and theorems that the TLA+ proof system checks for every value of
the constants. All paths below are relative to the repository.

## 1. Inventory

A camera thread delivers frames; a control thread turns each frame into a sun
estimate, a platform setpoint and three servo angles; an actuator thread limits
the angles and writes them to a PCA9685 over I2C. A client thread (the terminal
event loop, or Qt's GUI thread) starts and stops all of it and may steer by hand.

```
 camera thread           control thread                       actuator thread
 publisher.run_ --cb--> frame_q_(1) -> SunTracker -> estimate cb
                                       -> Controller -> setpoint cb
                                       -> Kinematics3RRS -> command cb -> cmd_q_(1)
                                                            -> ActuatorManager -> ServoDriver -> PCA9685
 client thread: start(), stop(), enterManual(), exitManual(), setManualSetpoint()
```

| Component | State it keeps | Operations | What makes it correct |
|---|---|---|---|
| `common/ThreadSafeQueue` | deque, `stopped_`, mutex, condition variable | push, push_latest, wait_pop, try_pop, stop, reset, clear | no lost wakeup, no missed stop, bounded, keeps the newest, in order |
| `system/SystemManager` | `running_`, `state_`, two queues, two threads, `kin_mtx_`, driver, camera | start, stop, manual operation, camera callback, two loops and their callbacks | start and stop return and leave nothing behind; neutral is the last output; each frame acts once, in order; the state table of `docs/state_machine.md` |
| `actuators/ActuatorManager` | last output, whether there is one | onCommand | no angle outside its range, no step beyond the slew limit of what the servos really hold |
| `actuators/ServoDriver`, `PCA9685` | running, mode, hardware; chip registers | start, stop, apply; init, set_pwm_freq, set_pwm | starts in a defined mode under each policy; writes only while running; pulses in range |
| `common/LatencyMonitor` | stamps per frame, order of arrival, samples | onCapture, onEstimate, onControl, onActuate, printSummary | one sample per complete frame, monotonic stages, bounded memory |
| `sensors/SimulatedPublisher`, `LibcameraPublisher` | `running_`, worker thread, descriptors; what is taken of libcamera, its pool of requests | start, stop, worker with its setup, callback, the simulated picture | one worker at a time, stop joins it, no callback after stop, all that was taken is given back, no request is lost through the callback's own doing |
| `control/Controller`, `Kinematics3RRS`, `vision/SunTracker` | kinematics: last angles and branch; tracker: threshold | onEstimate, onSetpoint, onFrame | the centroid of the picture, a setpoint without jumps, continuity of the branch, a status that tells a fallback from a solution |
| `app` (Application, LinuxEventLoop, CliController) | signal mask, timers, `quit` | run loop, command lines | a signal, `q`, or a key in the picture ends the program after a stop |
| `qt/MainWindow` | mailbox of one frame, converter thread, manual mode, sliders, threshold | observers, converter loop, camera timer, every button and slider, close | converter joined, newer and newer frames shown, the controls agree with the tracker, nothing of it used after it is gone |
| `ui/UiViewer` | latest frame and data, ring buffers, threshold | observers, tick, mouse, keys | the newest commands in order, the newest frame drawn, the threshold handed on, ESC heeded |
| `common/Logger`, `hal`, config and factory, `OverlayDraw`, scripts | none of their own or pure I/O | | not modelled |

The hard behaviours: four threads share two atomics (`running_`, `state_`) that
are checked and then acted upon without a lock; queues of capacity one drop
what is overtaken; `stop()` interleaves joins with queue resets; a failure in
the middle of `start()` has to be taken back; publishers can die by themselves.
`PROJECT.json` lists each hazard at its line with the properties that cover it.

## 2. Modules

A module per component; `EXTENDS` composes the ones that share a step, `INSTANCE`
relates a component to what it promises. One action stands for one operation
where a mutex or a single thread makes it atomic, and for one access to shared
state where it does not.

| Module | Models | How |
|---|---|---|
| `QueueOps` | the sequence operations of `ThreadSafeQueue` | shared by the queue and its user |
| `LatestBuffer` | what the queue promises | an atomic bounded buffer, each operation one step, with its liveness |
| `ThreadSafeQueue` | `common/ThreadSafeQueue.hpp` | threads in the mutex one at a time (a step is a critical section), waiting, woken, notifying; spurious wakeups. Implements `LatestBuffer` |
| `TrackerLifecycle` | what `start()` and `stop()` promise | phases of the tracker, the posture of the platform, power |
| `SystemManager` | `system/SystemManager.cpp` | client, camera, control and actuator thread; a step is one access to an atomic, a queue, a mutex or a join. Uses the queues as atomic, which `ThreadSafeQueue` shows. Implements `TrackerLifecycle` |
| `SystemManagerClaims` | a statement of the docs | checked by a run of its own |
| `ActuatorManager`, `PCA9685`, `ServoDriver` | `actuators/*` | the actuator chain from a command to the chip's registers, any bus call failing; history variables tell what a servo last obeyed |
| `LatencyMonitor` | `common/LatencyMonitor.cpp` | reports of stages under one mutex, in any order that frames overtaking each other allow |
| `Camera` | `sensors/ICamera.hpp` | the promise both backends implement |
| `Publisher`, `SimulatedPublisher`, `LibcameraPublisher`, `Cameras` | `sensors/*` | what both workers share; the simulated worker with its descriptors; the libcamera worker with each stage of its setup and what a failure there gives back, its condition variable, the pool of requests and the callback; the composition with a client |
| `PlaneCopy` | the stride a plane is copied by | operators: the stride estimated from the plane's length, and when the copy throws |
| `SimulatedFrame` | `SimulatedPublisher::generateFrame_` | operators: the disc, cut at the edges, and the noise |
| `Fractions` | the arithmetic of `double` and `float` | exact, reduced fractions |
| `SunTracker`, `Controller`, `Kinematics3RRS` | `vision/*`, `control/*` | pure operators on frames, pixels, estimates and setpoints; the kinematics with the state it keeps per leg |
| `TrackingPipeline` | their composition in the control thread | a frame, the simulated camera's among them, an estimate, a setpoint and a command, with thresholds set in between |
| `FrontEnd` | what the two programs use of the tracker | its mode, manual setpoint and threshold, what each call makes of them, and what the tracker does by itself |
| `UiViewer`, `LinuxEventLoop` | `ui/UiViewer.cpp`, `app/*` | the poll loop step by step, with signals, timer, lines and the end of the input; the latest frame, the ring of plotted commands, the tick with mouse and keys |
| `MainWindow` | `qt/MainWindow.cpp`, `qt/main_qt.cpp` | GUI thread with its panel, frame observer and converter thread around a mutex, a condition variable and a mailbox of one |
| `Display` | what a live picture promises | frames offered and shown, each show moving on, with its liveness |
| `FrontEnds` | the two programs | chooses one of them and states their properties; both pictures implement `Display` |
| `NumberLemmas` | | lemmas on integers, `Fractions` and sums over a finite set |
| `ThreadSafeQueueProofs`, `SystemManagerProofs`, `ServoDriverProofs`, `LatencyMonitorProofs`, `CamerasProofs`, `TrackingPipelineProofs`, `FrontEndsProofs` | | the theorems about each component, with their lemmas and proofs |
| `MC*` | | values of the constants for TLC |

`PROJECT.json` maps every definition to the lines it stands for. Operators whose
comment says *Mutant* or *Fault variant* are not part of the model: each is a
plausible mistake in one definition, kept to show that a property would notice it.

## 3. Runs

| Run | Module, configuration | What it shows |
|---|---|---|
| `queue` | `MCThreadSafeQueue` | whatever three threads call, no wakeup or stop is lost, the queue keeps the newest items in order, and it implements `LatestBuffer` |
| `system_manager` | `MCSystemManager` | orderly start and shutdown, the neutral pose is the last command before power-off, frames act once and in order, calls return, loops do not stall, what a dead camera left is worked off, `TrackerLifecycle` is implemented |
| `actuators` | `MCServoDriver` | the chip is set up whenever it is driven, the slew limiter's error and the motion of a servo are bounded by the writes that failed, pulses stay in range, `stop()` parks |
| `latency` | `MCLatencyMonitor.cfg` | a frame that reaches the servos is sampled once unless it was pruned, pruning has a cause, memory of entries is bounded |
| `cameras` | `Cameras` | nothing of a camera acts or is kept after `stop()`, wherever the setup failed; a request leaves the pool only by libcamera's refusal or cancellation; `ICamera` is kept; the simulated camera always stops |
| `pipeline` | `MCTrackingPipeline` | the estimate is of the picture the bytes hold and finds the disc of the simulated camera, the setpoint follows it without jumps, a command is Ok only as a whole, a leg does not change its branch without need |
| `front_ends` | `MCFrontEnds` | `q` and ESC are heeded, the window closes, both pictures move on to newer frames, the controls show what the tracker has, the plot's ring keeps the newest commands, nothing is used after it is gone |

Five runs check one sentence of the documentation or the program's own messages each
and find it violated:

| Run | Sentence | What the code does |
|---|---|---|
| `claim_manual` | MANUAL is left on request | the estimate callback checks the state and stores TRACKING or SEARCHING later; MANUAL entered in between is overwritten |
| `claim_stale` | old entries are pruned by age | an entry without a capture at the head of `order_` ends the pruning, and stale entries behind it stay |
| `claim_join` | the destructor joins the worker | a worker that gave up during setup has reset `running_`; `stop()` returns at once and the destructor destroys a joinable thread |
| `claim_libcamera` | the destructor stops and joins | `stop()` notifies without the mutex of the wait; between predicate and wait the notification is lost |
| `claim_signal` | SIGINT and SIGTERM are received by the event loop, which stops the tracker | the mask is set in the main thread after the tracker's threads began; with the loop running, a signal to the process goes to one of those and ends the process with the servos where they are |

Observations that no run states:

- Below the least confidence `Controller` hands out a zero setpoint, so a platform at
  rest that points at the sun moves to level, as `test_controller.cpp:42` expects, where
  `docs/requirements.md:74` asks that motion reduce or stop, and `docs/testing.md:205`
  names a test of no motion.
- A camera that dies leaves the state TRACKING, where `docs/requirements.md:190` asks for
  a safe state; `PipelineMoves` shows that its last frames are worked off.
- A request that `queueRequest()` refuses in the callback (`LibcameraPublisher.cpp:345`,
  `:352`, `:398` ignore the answer) or that comes back cancelled while the camera runs
  (`:338`) is not queued again before the next start. When all are gone the camera is
  silent, `isRunning()` still says true and nothing is logged. `RequestsCirculate` says
  that there is no other way to lose one.
- The window starts with a threshold of 200 whatever is configured (`MainWindow.hpp:64`);
  `MainWindowAssumption` says that the configuration agrees, as `AppConfig.cpp:18` does.
- The startup park can be displaced from the queue of one by the first automatic command.
- A signal to the main thread that `poll()` reports together with a line of input is
  forgotten: the line's answer overwrites `quit` (`LinuxEventLoop.cpp:106`).
- At the end of the input `poll()` no longer blocks and the loop spins.
- When the tracker leaves MANUAL by itself the window goes on saying MANUAL.
- `UiViewer::drawPlots_` reads its rings without the mutex.
- With both solutions of a leg inward the branch flips at every command.
- Exactly `min_pixels` bright pixels give an estimate of confidence zero.
- A pulse that ends within half a count of the period wraps around to none
  (`PCA9685.cpp:53`); no servo has one that long.

### Bounds

- `queue`: three threads (one may wait while one pushes and one stops),
  capacity two (smallest at which order and overflow differ), four items.
- `system_manager`: four client calls allow two starts and two stops, or a start,
  two manual calls and a stop; three frames fill both queues of one and the hands of
  both threads. `MaxFrames` and `MaxCalls` are guards of `OnFrame` and of calls only.
- `actuators`: two channels, one mirrored; angles and steps are few and chosen to
  meet both ends of the range; `MaxMissed` bounds the outputs in a row a channel may miss.
- `latency`: four frames and a monitor of two entries, so that pruning by count and
  by age both happen; `claim_stale` needs three entries. A limit of 0 is none.
- `cameras`: three starts, three frames, two buffers; stop, failure and destruction at any
  point. A plane of two rows of two bytes, too short or padded.
- `pipeline`: four bytes of three values (black, just below the threshold, white),
  read as four gray pixels in a row, two padded rows, and one RGB and one BGR pixel,
  and one each of the ways a frame is invalid; thresholds 0 and 103, `min_pixels` 0,
  1 and 2. The simulated camera draws a disc of radius one: whole and cut without noise,
  and cut with noise on every pixel. Two of the three legs, with opposite directions of the servo; poses with
  both solutions outward, one, none, and no solution.
- `front_ends`: a ring of two rows for three commands (it wraps around); three lines,
  signals, frames and commands together in the terminal (a line and a signal, or two of
  each kind in any order); two frames in the window (one converted while one waits); two
  angles; one move of a slider or click on the threshold, and any number of clicks on the
  other buttons, since only the panel's own values would grow with more. A threshold
  moves by its whole range at a click.

Deadlock checking is off where bounds, a finished program or a destroyed object
let the model stop; waiting for ever is then excluded by liveness instead
(`PipelineMoves`, `ImplementsLifecycle`, `SimulatedStopReturns`, `QuitIsHeeded`,
`WindowCloses`).

### Fairness

A thread that can go on does, which any preemptive scheduler gives: weak fairness of
each thread's steps, and of calls that have begun. Never assumed: that the client or
the user calls anything, that the camera or its timer delivers, that a condition
variable wakes without a notification. `ThreadSafeQueue` assumes fairness of
notifiers and woken threads only. `FrontEnds` also assumes that a periodic timer
fires (a timerfd and a `QTimer`) and that the GUI thread serves it even among clicks
that never end, which is strong fairness of that one action: Qt's event loop takes
events in turn, but between two of them the action is disabled by a call.
`SystemManager` needs no strong fairness for `kin_mtx_`: the client's calls are
bounded.

## 4. Proofs

Theorems hold for every value of the constants, under the `ASSUME`s of the modules:
types of the constants, ranges that are not empty, and what the code relies on. A
deadband is less than one, gains and limits are not negative, the least confidence and
the scale of confidence are positive (the defaults are); the longest pulse of a servo ends
more than half a count before the period does, for `PCA9685::set_pulse_us` masks the
rounded count with `0x0FFF` (`PCA9685.cpp:53`) and would turn a pulse as long as the
period into none. The window's own first threshold is the configured one, which in the
code are two literals of 200. A frame has the types of `FrameEvent`; whether it is valid is the
tracker's to find out.

Every safety property of every run is a theorem, the safety of all four promises
(`LatestBuffer`, `TrackerLifecycle`, `Camera`, `Display`) among them.

`ThreadSafeQueueProofs`, for any set of threads and any capacity: `TypeCorrect`,
`NewestKept`, `StopsNotMissed`, `WakeupsNotLost`. Each of the four invariants is
inductive together with `TypeOK`. The last counts threads by what they are doing:
a notification moves one from waiting to woken. `ImplementsBufferSafely` maps each
critical section to the one step of `LatestBuffer` that takes effect in it, and the
others to stutters.

`SystemManagerProofs`, for any number of frames and calls, with or without camera
and solvable neutral pose: every safety property of the run. None of them is inductive
by itself. `IInv` adds, in named parts, what the code relies on without saying so:
which threads, camera and driver run at each place of `start()` and `stop()` and who
holds `kin_mtx_` (`LockInv`, `RunningInv`, `ThreadsInv`, `DriverInv`, `CameraInv`), what
may still be in the queues there (`QueuesInv`), which states are possible (`StateInv`), that
frames are older the farther down the pipeline they are (`OrderInv`), and that nothing
but the neutral command is left once it is queued (`NeutralInv`). A lemma for the first
five, which go together, and one for each other part, with a step per action.
`StateSettles` adds that no transitional state survives the call that set it.
`ImplementsLifecycleSafely`: every step of the runtime is a step or a stutter of
`TrackerLifecycle`, with the invariant `PostureInv` that relates what the servos hold to
the commands on their way.

`ServoDriverProofs`, for any calibration, channels and bus failures: `TypeCorrect`,
`HardwareIsReady`, `LagIsBounded`, from `IInv == TypeOK /\ HardwareReady /\ LagBounded` with
what a parked servo was told, and `MotionIsLimited`, which needs of `LagBounded` that the
angle a servo holds is within the manager's range. `PulsesStayInRange` goes through the
chip's arithmetic: the pulse is clamped, rounded to a count and masked, and comes out
within half a count of the calibrated range. `StopAlwaysParks` follows one `stop()`.

`LatencyMonitorProofs`, for any frames, limits of age and number, and order of the
reports: `TypeCorrect`, which bounds the entries, `FramesAreSampled`, `PruningHasCause`.
`IInv` adds that an entry has stamps of stages its frame has reached and not of all
(`EntriesInv`), that an id in `order_` has an entry or reports no more (`OrderInv`), and that a frame
on its way keeps all its stamps unless it was pruned (`KeptInv`). Most of the work is in
saying which prefixes of `order_` a report removes.

`CamerasProofs`, for any number of starts, frames and buffers and any failure of the
setup: `TypeCorrect`, `StoppedIsQuiet`, `RequestsStay`. `IInv` ties to the worker's place
whether its thread exists (`ThreadInv`), what is open (`FdInv`), what is taken of libcamera
(`HeldInv`) and what is under way (`StreamInv`). `KeepsPromise` maps the place to what `Camera`
shows of it. `RequestsStay` holds with any of libcamera's calls refusing and any request
cancelled at any time: these losses it allows, and no other. `CopyThrowsWhenShort`: for any plane the copy goes on just if it stays inside.

`TrackingPipelineProofs`, for any frames, thresholds, gains, limits, legs and
poses:

- `EstimateIsOfThePicture`: a pixel's bytes lie in its row and in the frame
  (`PixelBytes`, from the checks of `isFrameValid_`), are the ones the picture shows there
  (`PixelIs`), and swapping the colors changes nothing. When all bright pixels are equally
  bright, their common weight cancels (`EvenWeight`). A weighted mean lies within the
  bounds of what is weighed, so within the disc (`MeanIsNear`), and a disc that is whole
  maps to itself point-symmetrically, so its mean is its middle (`MeanOfSymmetric`).
- `SetpointIsSteady`: with all fractions over one denominator the control law is one
  on integers, in which cutting out the deadband and clamping move no two errors apart
  (`LawFollows`, `SteeredFollows`).
- `TypeCorrect`: a centroid that is no number comes without confidence
  (`CentroidType`), and the gate keeps it from the controller (`SteersByNumbers`); no
  target leaves 0..180.
- `OkIsSolved` and `BranchIsNearest`, from lemmas on what `WrapAngle` and the choice of
  a branch do with two angles.

The invariant is `KinematicsTypeOK /\ OkSolvesEveryLeg /\ InHand`; the last says that the
estimate in hand is one and the setpoint in hand was made of it.

These rest on `NumberLemmas`. `Gcd` is a recursive function: that it exists and computes
what its definition says is `GcdComputes`, by induction over its second argument with the
set of numbers for which a claim holds, from which `Lowest` keeps the value of a
fraction (`IsLowest`) and gives equal ones the same form (`LowestScaled`). `Is(f, x, m)` says
that `f` is `x / m`, and a lemma for each operator what it does to that. `SumFunction` is a
fold over a set: `SumAddsUp` shows the function it computes with exists, `SumIs` that the
order of the terms does not matter, and the rest how sums compare, add up and are
renamed.

`FrontEndsProofs`, for any number of frames, lines, signals, commands and rows:
`TypeCorrect`, `ExitIsQuiet`, `HistoryIsNewest` and `ControlsAreHeeded`. `IInv` says that the chosen program
alone moves, that the converter exists from its start to its join, and that the tracker
is stopped before the window is; `HistoryInv` that the ring is typed and in order, which
rests on arithmetic of the remainder; `LineIsThere` that a line `poll()` reported is
still there when it is read. `PicturesMoveForward`: both pictures implement the safety of
`Display`, for a frame further on its way to the screen is never newer (`FramesInv`).

Only model-checked: everything under fairness (`PipelineMoves`, the liveness of
`LatestBuffer`, `TrackerLifecycle` and `Display`, `SimulatedStopReturns`, `QuitIsHeeded`,
`WindowCloses`), which the prover does not reach, and the five sentences found violated.

## 5. What the models leave out, and why

- **Time.** Clocks are counters (`LatencyMonitor`) or left out; rates and timeouts are
  choices of when something happens.
- **Arithmetic.** `float` and `double` are exact fractions; a NaN arises only where the
  code divides zero by zero (`SunTracker`). Pulses are fractions of the period. The
  trigonometry of a leg is a choice among poses; what is done with the two solutions is
  modelled.
- **The bus.** A call fails or not, and a failed write may or may not have reached the
  chip. The chip keeps its registers; losing power is not modelled. Calls of the driver
  are steps, since the actuator thread is spawned after `start()` and joined before
  `stop()` of the driver (`SystemManager` shows it: `NoWriteToStoppedDriver`).
- **Data races.** `stopFd_` of `SimulatedPublisher` is read by `stop()` while the worker
  writes it; a read gives the value before or after. `drawPlots_` keeps nothing.
- **Pictures.** Drawing, overlays, labels, log lines and the statistics of the latency
  samples are display. `MainWindow`'s plot and both overlays draw the values last stored
  and keep nothing else. The centroid and latency rings of `UiViewer` are never drawn.
- **Signals** other than SIGINT and SIGTERM, and what the kernel does when several
  threads could take one: any may.
- **libcamera, OpenCV and Qt** are external. libcamera's calls in the setup and in the
  callback fail or not; those that give something back succeed (the code looks at none of
  their results). A queued request is completed or cancelled once. A timer of Qt fires
  while the window is up.
- **Not modelled:** factory and configuration (objects built once from constants),
  `Logger` (a mutex around output), `OverlayDraw` (called by nothing), `LinuxI2CDevice` beyond its failures,
  the Windows and non-Linux variants, and the scripts.
- **The terminal** hands out one line per read; `std::cin` may buffer several from a pipe.

## 6. Plan

Done, in this order: the queue and its promise; the runtime and its lifecycle; the
actuator chain; the latency monitor; the cameras; the algorithms and their pipeline; the
two programs; the setup and the pool of libcamera, the picture of the simulated camera,
the panels of both programs and what a display promises. For each of them theorems of
all its safety properties.

Next:

1. `ServoDriver` within `SystemManager`: that the calls the runtime makes of the driver
   are ones `ServoDriver` starts from, as a theorem of their composition.
2. The same of `Publisher` and of the front ends: what `SystemManager` and `FrontEnd` take
   for granted of each other.
