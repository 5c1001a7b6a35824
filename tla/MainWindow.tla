----------------------------- MODULE MainWindow -----------------------------
(***************************************************************************)
(* The Qt program: main_qt, the window's buttons and its converter thread. *)
(* The camera thread leaves its latest readable frame in a mailbox of one, *)
(* the converter makes a picture of it, and a timer of the GUI thread      *)
(* shows it.  A condition variable is a lock that is taken to look and     *)
(* given back in the same step as the wait begins.  Frames are numbered;   *)
(* the conversion of a readable one succeeds.  The overlay, which draws    *)
(* the last estimate and setpoint, and the values plotted are left out.    *)
(***************************************************************************)
EXTENDS FrontEnd

CONSTANTS MaxFrames,        \* bound: readable frames delivered
          MaxActs,          \* bound: moves of a slider and clicks on the
                            \* threshold
          WindowThreshold   \* what thr_ is made with, whatever is configured

(* The window does not ask for the configured threshold: 200 is written    *)
(* both in MainWindow.hpp and in AppConfig.cpp, and nothing else makes the *)
(* two agree before the first click.                                       *)
ASSUME MainWindowAssumption ==
  /\ MaxFrames \in Nat /\ MaxActs \in Nat
  /\ WindowThreshold = StartThreshold

VARIABLES gui,              \* where the GUI thread is
          leaving,          \* why it stops: "stop" button, "close", "destroy"
          manualMode,       \* manualMode_
          sliders,          \* the values of tilt_ and pan_
          thr,              \* thr_
          acts,             \* bound: moves and clicks so far
          convRunning,      \* convRunning_
          conv,             \* where the converter thread is
          convMutex,        \* convMutex_ is taken by the converter
          convHasFrame,     \* convHasFrame_
          latest,           \* latestBuf_: a frame, 0 for none
          buf,              \* the converter's copy of latestBuf_
          image,            \* latestImg_: 0 until imgReady_
          shown,            \* the frame in camView_
          observer,         \* where the frame observer is
          frames            \* frames delivered

panel == <<sliders, thr, acts>>
guiVars == <<gui, leaving, manualMode, panel>>
mailbox == <<convHasFrame, latest>>
converterVars == <<conv, convMutex, buf, image>>
cameraVars == <<observer, frames>>
windowVars == <<guiVars, convRunning, mailbox, converterVars, shown,
                cameraVars>>

Frame == 0 .. MaxFrames

WindowTypeOK ==
  /\ gui \in {"main", "register", "convert", "idle", "zero", "send",
              "stopped", "flag", "mark", "notify", "join", "sysStop",
              "closed", "gone", "failed"}
  /\ leaving \in {"no", "stop", "close", "destroy"}
  /\ {manualMode, convRunning, convMutex, convHasFrame} \subseteq BOOLEAN
  /\ conv \in {"none", "top", "lock", "look", "block", "wait", "take",
               "convert", "end"}
  /\ {latest, buf, image, shown, frames} \subseteq Frame
  /\ observer \in {"idle", "notify"}
  /\ sliders \in Setpoints /\ thr \in Levels
  /\ acts \in 0 .. MaxActs

WindowInit ==
  /\ gui = "main" /\ leaving = "no" /\ manualMode = FALSE
  /\ sliders = <<0, 0>> /\ thr = WindowThreshold
  /\ acts = 0
  /\ convRunning = FALSE /\ conv = "none" /\ convMutex = FALSE
  /\ convHasFrame = FALSE /\ latest = 0 /\ buf = 0
  /\ image = 0 /\ shown = 0
  /\ observer = "idle" /\ frames = 0

GuiMoves(from, to) ==
  /\ gui = from
  /\ gui' = to

-----------------------------------------------------------------------------
(* The GUI thread.                                                         *)

MainStart ==
  /\ gui = "main"
  /\ StartTracker
  /\ gui' = IF tracker' = "failed" THEN "failed" ELSE "register"
  /\ UNCHANGED <<leaving, manualMode, panel, convRunning, mailbox, converterVars,
                 shown, cameraVars>>

RegisterObservers ==
  /\ GuiMoves("register", "convert")
  /\ UNCHANGED <<trackerVars, leaving, manualMode, panel, convRunning, mailbox,
                 converterVars, shown, cameraVars>>

StartConverter ==
  /\ GuiMoves("convert", "idle")
  /\ convRunning' = TRUE
  /\ conv' = "top"
  /\ UNCHANGED <<trackerVars, leaving, manualMode, panel, mailbox, convMutex, buf,
                 image, shown, cameraVars>>

BtnAuto ==
  /\ gui = "idle"
  /\ ExitManual
  /\ manualMode' = FALSE
  /\ UNCHANGED <<gui, leaving, panel, convRunning, mailbox, converterVars,
                 shown, cameraVars>>

(* The panel leaves the rest of the window alone.                          *)
RestOfWindow == UNCHANGED <<leaving, convRunning, mailbox, converterVars, shown,
                            cameraVars>>

(* Mutant: the sliders are not sent.                                       *)
BtnManualUnsent ==
  /\ gui = "idle"
  /\ EnterManual
  /\ manualMode' = TRUE
  /\ UNCHANGED <<gui, panel>> /\ RestOfWindow

(* The mode first, then the sliders are sent.                              *)
BtnManual ==
  /\ GuiMoves("idle", "send")
  /\ EnterManual
  /\ manualMode' = TRUE
  /\ UNCHANGED panel /\ RestOfWindow

(* sendManual_(), which the buttons end with.                              *)
SendManual ==
  /\ GuiMoves("send", "idle")
  /\ SetManualSetpoint(sliders)
  /\ UNCHANGED <<manualMode, panel>> /\ RestOfWindow

(* Sliders and buttons of the setpoint are enabled in manual mode only.    *)
BtnSend ==
  /\ manualMode
  /\ GuiMoves("idle", "send")
  /\ UNCHANGED <<trackerVars, manualMode, panel>> /\ RestOfWindow

Acts ==
  /\ acts < MaxActs
  /\ acts' = acts + 1

(* A slider that takes another value sends both.                           *)
SetSlider(axis, angle) ==
  /\ sliders' = [sliders EXCEPT ![axis] = angle]
  /\ IF sliders' = sliders THEN UNCHANGED trackerVars
     ELSE SetManualSetpoint(sliders')

MoveSlider(axis, angle) ==
  /\ gui = "idle" /\ manualMode
  /\ Acts
  /\ sliders[axis] # angle
  /\ SetSlider(axis, angle)
  /\ UNCHANGED <<gui, manualMode, thr>> /\ RestOfWindow

(* ZERO moves pan, then tilt, and sends.                                   *)
BtnZero ==
  /\ manualMode
  /\ GuiMoves("idle", "zero")
  /\ SetSlider(2, 0)
  /\ UNCHANGED <<manualMode, thr, acts>> /\ RestOfWindow

ZeroTilt ==
  /\ GuiMoves("zero", "send")
  /\ SetSlider(1, 0)
  /\ UNCHANGED <<manualMode, thr, acts>> /\ RestOfWindow

(* The threshold's buttons stay enabled when the tracker is stopped.       *)
ClickThreshold(t) ==
  /\ gui \in {"idle", "stopped"}
  /\ Acts
  /\ thr' = t
  /\ SetTrackerThreshold(t)
  /\ UNCHANGED <<gui, manualMode, sliders>> /\ RestOfWindow

(* The camera timer, until the window is stopped.                          *)
UpdateCamera ==
  /\ gui = "idle"
  /\ image # 0
  /\ shown' = image
  /\ UNCHANGED <<trackerVars, guiVars, convRunning, mailbox, converterVars,
                 cameraVars>>

(* The stop button, which is disabled by its first use, and closing the    *)
(* window both stop timers, converter and tracker.                         *)
Leave(why) ==
  /\ CASE why = "stop" -> gui = "idle"
       [] why = "close" -> gui \in {"idle", "stopped"}
       [] why = "destroy" -> gui = "closed"
  /\ gui' = "flag"
  /\ leaving' = why
  /\ UNCHANGED <<trackerVars, manualMode, panel, convRunning, mailbox,
                 converterVars, shown, cameraVars>>

(* Where a stopped converter leaves the GUI thread.                        *)
AfterConverter == IF leaving = "destroy" THEN "gone" ELSE "sysStop"

(* stopConverter_(): nothing to do, or the flag is reset ...               *)
StopFlag ==
  /\ gui = "flag"
  /\ gui' = IF convRunning THEN "mark" ELSE AfterConverter
  /\ convRunning' = FALSE
  /\ UNCHANGED <<trackerVars, leaving, manualMode, panel, mailbox, converterVars,
                 shown, cameraVars>>

(* Mutant: the mailbox is marked without its mutex.                        *)
StopMarksUnlocked ==
  /\ GuiMoves("mark", "notify")
  /\ convHasFrame' = TRUE
  /\ UNCHANGED <<trackerVars, leaving, manualMode, panel, convRunning, latest,
                 converterVars, shown, cameraVars>>

(* ... the mailbox is marked under the mutex ...                           *)
StopMarks ==
  /\ ~convMutex
  /\ GuiMoves("mark", "notify")
  /\ convHasFrame' = TRUE
  /\ UNCHANGED <<trackerVars, leaving, manualMode, panel, convRunning, latest,
                 converterVars, shown, cameraVars>>

WakeConverter == conv' = IF conv = "wait" THEN "lock" ELSE conv

(* ... the converter is woken ...                                          *)
StopNotifies ==
  /\ GuiMoves("notify", "join")
  /\ WakeConverter
  /\ UNCHANGED <<trackerVars, leaving, manualMode, panel, convRunning, mailbox,
                 convMutex, buf, image, shown, cameraVars>>

(* ... and joined.                                                         *)
StopJoins ==
  /\ conv = "end"
  /\ GuiMoves("join", AfterConverter)
  /\ conv' = "none"
  /\ UNCHANGED <<trackerVars, leaving, manualMode, panel, convRunning, mailbox,
                 convMutex, buf, image, shown, cameraVars>>

(* sys_.stop() returns when the camera has no callback under way.  After   *)
(* closeEvent() main_qt stops the tracker again, which does nothing.       *)
SysStop ==
  /\ gui = "sysStop"
  /\ observer = "idle"
  /\ StopTracker
  /\ gui' = IF leaving = "stop" THEN "stopped" ELSE "closed"
  /\ UNCHANGED <<leaving, manualMode, panel, convRunning, mailbox, converterVars,
                 shown, cameraVars>>

GuiCallSteps ==
  \/ MainStart \/ RegisterObservers \/ StartConverter
  \/ StopFlag \/ StopMarks \/ StopNotifies \/ StopJoins \/ SysStop
  \/ SendManual \/ ZeroTilt
  \/ Leave("destroy")

UserActs ==
  \/ BtnAuto \/ BtnManual \/ BtnSend \/ BtnZero
  \/ \E axis \in 1 .. 2, angle \in Angles : MoveSlider(axis, angle)
  \/ ClickThreshold(Raised(thr)) \/ ClickThreshold(Lowered(thr))
  \/ Leave("stop") \/ Leave("close")

-----------------------------------------------------------------------------
(* The frame observer, on the camera thread, while the tracker runs.       *)

Observing == tracker # "stopped" /\ gui \notin {"main", "register", "failed"}

StoreFrame ==
  /\ Observing
  /\ observer = "idle"
  /\ frames < MaxFrames
  /\ ~convMutex
  /\ frames' = frames + 1
  /\ latest' = frames'
  /\ convHasFrame' = TRUE
  /\ observer' = "notify"
  /\ UNCHANGED <<trackerVars, guiVars, convRunning, converterVars, shown>>

NotifyConverter ==
  /\ observer = "notify"
  /\ observer' = "idle"
  /\ WakeConverter
  /\ UNCHANGED <<trackerVars, guiVars, convRunning, mailbox, convMutex, buf,
                 image, shown, frames>>

-----------------------------------------------------------------------------
(* The converter thread.                                                   *)

ConvKeeps == UNCHANGED <<trackerVars, guiVars, convRunning, shown, cameraVars>>

ConvTop ==
  /\ conv = "top"
  /\ conv' = IF convRunning THEN "lock" ELSE "end"
  /\ UNCHANGED <<mailbox, convMutex, buf, image>> /\ ConvKeeps

ConvLock ==
  /\ conv = "lock"
  /\ ~convMutex
  /\ convMutex' = TRUE
  /\ conv' = "look"
  /\ UNCHANGED <<mailbox, buf, image>> /\ ConvKeeps

(* The predicate of the wait.                                              *)
ConvLooks ==
  /\ conv = "look"
  /\ conv' = IF ~convRunning \/ convHasFrame THEN "take" ELSE "block"
  /\ UNCHANGED <<mailbox, convMutex, buf, image>> /\ ConvKeeps

(* Mutant: the mutex is not given back.                                    *)
ConvWaitsHolding ==
  /\ conv = "block"
  /\ conv' = "wait"
  /\ UNCHANGED <<mailbox, convMutex, buf, image>> /\ ConvKeeps

ConvWaits ==
  /\ conv = "block"
  /\ convMutex' = FALSE
  /\ conv' = "wait"
  /\ UNCHANGED <<mailbox, buf, image>> /\ ConvKeeps

ConvSpuriousWakeup ==
  /\ conv = "wait"
  /\ conv' = "lock"
  /\ UNCHANGED <<mailbox, convMutex, buf, image>> /\ ConvKeeps

ConvTakes ==
  /\ conv = "take"
  /\ convMutex' = FALSE
  /\ IF convRunning
     THEN buf' = latest /\ convHasFrame' = FALSE /\ conv' = "convert"
     ELSE conv' = "end" /\ UNCHANGED <<buf, convHasFrame>>
  /\ UNCHANGED <<latest, image>> /\ ConvKeeps

(* Mutant: the mailbox is emptied once the work is done.                   *)
ConvPublishesResets ==
  /\ conv = "convert"
  /\ image' = IF buf = 0 THEN image ELSE buf
  /\ convHasFrame' = FALSE
  /\ conv' = "top"
  /\ UNCHANGED <<latest, convMutex, buf>> /\ ConvKeeps

ConvPublishes ==
  /\ conv = "convert"
  /\ image' = IF buf = 0 THEN image ELSE buf
  /\ conv' = "top"
  /\ UNCHANGED <<mailbox, convMutex, buf>> /\ ConvKeeps

ConvSteps ==
  \/ ConvTop \/ ConvLock \/ ConvLooks \/ ConvWaits \/ ConvTakes
  \/ ConvPublishes

WindowNext ==
  \/ GuiCallSteps \/ UserActs \/ UpdateCamera
  \/ StoreFrame \/ NotifyConverter
  \/ ConvSteps \/ ConvSpuriousWakeup
  \/ (TrackerFaults \/ TrackerLeavesManual) /\ UNCHANGED windowVars
=============================================================================
