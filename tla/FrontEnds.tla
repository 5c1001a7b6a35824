----------------------------- MODULE FrontEnds -----------------------------
(***************************************************************************)
(* The two programs of the repository: the terminal with its event loop,   *)
(* and the Qt window.                                                      *)
(***************************************************************************)
EXTENDS LinuxEventLoop, MainWindow

vars == <<trackerVars, uiVars, loopVars, windowVars>>

(* Each program's variables, and the mutex of the converter is taken only  *)
(* where the code holds it.                                                *)
TypeOK ==
  /\ FrontEndTypeOK /\ RingTypeOK /\ PictureTypeOK
  /\ LoopTypeOK /\ WindowTypeOK
  /\ convMutex <=> conv \in {"look", "block", "take"}

Init == FrontEndInit /\ UiInit /\ LoopInit /\ WindowInit

IsTerminal == frontEnd = "terminal"
IsWindow == frontEnd = "window"

Terminal(A) == IsTerminal /\ A /\ UNCHANGED windowVars
Window(A) == IsWindow /\ A /\ UNCHANGED <<uiVars, loopVars>>

Next == Terminal(LoopNext) \/ Window(WindowNext)

(* Threads go on where they do not wait, timers fire, and a tick is seen,  *)
(* the window's among clicks that never end.  What the user, the camera    *)
(* and the tracker do is left open, and a thread need not wake without     *)
(* being told.                                                             *)
Fairness ==
  /\ WF_vars(Terminal(LoopSteps))
  /\ WF_vars(Terminal(TimerExpires))
  /\ WF_vars(Window(GuiCallSteps))
  /\ SF_vars(Window(UpdateCamera))
  /\ WF_vars(Window(NotifyConverter))
  /\ WF_vars(Window(ConvSteps))

Spec == Init /\ [][Next]_vars /\ Fairness

-----------------------------------------------------------------------------
(* A program that has ended, or a window that is gone, leaves the tracker  *)
(* stopped or never started, no thread and no observer under way, which    *)
(* would use what was destroyed with it.                                   *)
QuietAfterExit ==
  /\ loop = "exited" => tracker \in {"stopped", "failed"}
  /\ gui \in {"gone", "failed"} => conv = "none" /\ observer = "idle"
  /\ gui \in {"stopped", "closed", "gone"} => tracker = "stopped"

(* A line that says q and a key in the picture are heeded, though the loop *)
(* may spin on an input that has ended; only a signal is faster.           *)
QuitIsHeeded ==
  /\ loop # "start" /\ lines # << >> /\ Head(lines)[1] = "q" ~> ~Alive
  /\ uiQuit ~> ~Alive

(* What Application.cpp:58 says of Ctrl+C: it stops the program, which is  *)
(* to stop the tracker first (Application.cpp:81).  Asked only of signals  *)
(* that come when the main thread has blocked them.                        *)
SignalStopsTracker ==
  [][loop \notin {"start", "setup"} /\ loop' = "killed" => ~HasThreads]_vars

(* stopConverter_() and what follows it return, wherever the converter is, *)
(* though no frame may ever come again.                                    *)
WindowCloses ==
  gui \in {"flag", "mark", "notify", "join", "sysStop", "closed"}
    ~> gui \in {"stopped", "gone"}

(* Both pictures of the camera keep the promise of a live one: no frame is *)
(* left in the mailbox or behind it when no newer one comes.               *)
Picture == INSTANCE Display WITH
  offered <- IF IsTerminal THEN gray ELSE frames,
  shown <- IF IsTerminal THEN drawn ELSE shown,
  up <- IF IsTerminal THEN loop \notin {"stop", "exited", "killed"}
        ELSE gui \in {"main", "register", "convert", "idle", "zero", "send"}

ImplementsDisplay == Picture!Spec

(* What the controls show is what the tracker has: its threshold, and      *)
(* while both are in manual mode its setpoint.                             *)
ControlsTakeEffect ==
  /\ IsWindow => threshold = thr
  /\ IsTerminal /\ hasUi /\ ~uiQuit => threshold = uiThreshold
  /\ gui = "idle" /\ manualMode /\ tracker = "manual" => setpoint = sliders

(* The plot takes the newest commands in order, as many as there are rows. *)
HistoryKeepsNewest ==
  \A back \in 0 .. histCount - 1 : histU[RowBack(back)] = lastCmd - back
=============================================================================
