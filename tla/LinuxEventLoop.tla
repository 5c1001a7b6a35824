--------------------------- MODULE LinuxEventLoop ---------------------------
(***************************************************************************)
(* The terminal program: Application::run, LinuxEventLoop::run and         *)
(* CliController::handleLine, one thread around poll() on a signal         *)
(* descriptor, a timer and the terminal, which hands out one line for each *)
(* read.  The signals are blocked once the tracker has started, and in     *)
(* this thread alone: a signal of the process goes to any thread that does *)
(* not block it, and then ends the process.                                *)
(***************************************************************************)
EXTENDS UiViewer

CONSTANTS TypedSetpoints,   \* setpoints the user may type
          MaxInputs         \* bound: lines typed, signals sent, commands
                            \* and frames observed, together

ASSUME EventLoopAssumption ==
  TypedSetpoints \subseteq Setpoints /\ MaxInputs \in Nat

VARIABLES loop,             \* where the thread is
          hasUi,            \* built with OpenCV
          revents,          \* what poll() reported, and is not yet looked at
          signal,           \* SIGINT or SIGTERM is pending
          expired,          \* the timer has expired and was not read
          lines,            \* lines typed and not read
          eof,              \* the input has ended
          quit,             \* quit
          inputs            \* lines typed and signals sent

input == <<lines, eof>>
loopVars == <<loop, hasUi, revents, signal, expired, input, quit, inputs>>

(* What a line says, and the setpoint it gives.                            *)
Line == ({"q", "m", "a", "other"} \X {NoSetpoint})
          \cup ({"setpoint"} \X TypedSetpoints)
EmptyLine == <<"other", NoSetpoint>>

LoopTypeOK ==
  /\ loop \in {"start", "setup", "poll", "signal", "tick", "line", "ui",
               "decide", "stop", "exited", "killed"}
  /\ revents \subseteq {"signal", "timer", "stdin"}
  /\ {hasUi, signal, expired, quit, eof} \subseteq BOOLEAN
  /\ lines \in Seq(Line)
  /\ inputs \in 0 .. MaxInputs

LoopInit ==
  /\ loop = "start"
  /\ hasUi \in {FALSE, frontEnd = "terminal"}
  /\ revents = {}
  /\ signal = FALSE /\ expired = FALSE /\ quit = FALSE
  /\ lines = << >> /\ eof = FALSE
  /\ inputs = 0

(* The system starts, or run() returns 1.                                  *)
AppStart ==
  /\ loop = "start"
  /\ StartTracker
  /\ loop' = IF tracker' = "failed" THEN "exited" ELSE "setup"
  /\ UNCHANGED <<hasUi, revents, signal, expired, input, quit, inputs>>

(* The signals are blocked, the descriptors created and the timer set; any *)
(* of it may fail.                                                         *)
LoopSetup ==
  /\ loop = "setup"
  /\ loop' \in {"poll", "stop"}
  /\ UNCHANGED <<trackerVars, hasUi, revents, signal, expired, input, quit,
                 inputs>>

Ready ==
  {e \in {"signal", "timer", "stdin"} :
     CASE e = "signal" -> signal
       [] e = "timer" -> expired
       [] e = "stdin" -> lines # << >> \/ eof}

Poll ==
  /\ loop = "poll"
  /\ Ready # {}
  /\ revents' = Ready
  /\ loop' = "signal"
  /\ UNCHANGED <<trackerVars, hasUi, signal, expired, input, quit,
                 inputs>>

PollFails ==
  /\ loop = "poll"
  /\ loop' = "stop"
  /\ UNCHANGED <<trackerVars, hasUi, revents, signal, expired, input, quit,
                 inputs>>

ReadSignal ==
  /\ loop = "signal"
  /\ IF "signal" \in revents THEN signal' = FALSE /\ quit' = TRUE
     ELSE UNCHANGED <<signal, quit>>
  /\ loop' = "tick"
  /\ UNCHANGED <<trackerVars, hasUi, revents, expired, input, inputs>>

(* The timer is read; without a tick nothing else is looked at.            *)
ReadTimer ==
  /\ loop = "tick"
  /\ IF "timer" \in revents
     THEN /\ expired' = FALSE
          /\ loop' = IF "stdin" \in revents THEN "line" ELSE "ui"
     ELSE UNCHANGED expired /\ loop' = "decide"
  /\ UNCHANGED <<trackerVars, hasUi, revents, signal, input, quit,
                 inputs>>

(* What handleLine() does to the tracker.                                  *)
Obeys(line) ==
  CASE line[1] = "m" -> EnterManual
    [] line[1] = "a" -> ExitManual
    [] line[1] = "setpoint" -> SetManualSetpoint(line[2])
    [] OTHER -> UNCHANGED trackerVars

(* The next line; at the end of the input an empty one, again and again.   *)
NextLine == IF lines = << >> THEN EmptyLine ELSE Head(lines)
LinesLeft == IF lines = << >> THEN lines ELSE Tail(lines)

(* Mutant: the answer to q is thrown away.                                 *)
HandleLineIgnored ==
  /\ loop = "line"
  /\ Obeys(NextLine)
  /\ lines' = LinesLeft
  /\ quit' = FALSE
  /\ loop' = "ui"
  /\ UNCHANGED <<hasUi, revents, signal, expired, eof, inputs>>

(* quit = cli_.handleLine(line): whatever quit was before.                 *)
HandleLine ==
  /\ loop = "line"
  /\ Obeys(NextLine)
  /\ lines' = LinesLeft
  /\ quit' = (NextLine[1] = "q")
  /\ loop' = "ui"
  /\ UNCHANGED <<hasUi, revents, signal, expired, eof, inputs>>

(* The picture is drawn and tells whether to go on, and then the threshold *)
(* is handed to the tracker.                                               *)
TickUi ==
  /\ loop = "ui"
  /\ IF hasUi
     THEN /\ UiTick
          /\ quit' = (quit \/ uiQuit')
          /\ IF uiQuit' THEN UNCHANGED trackerVars
             ELSE SetTrackerThreshold(uiThreshold')
     ELSE UNCHANGED <<trackerVars, uiVars, quit>>
  /\ loop' = "decide"
  /\ UNCHANGED <<hasUi, revents, signal, expired, input, inputs>>

Decide ==
  /\ loop = "decide"
  /\ loop' = IF quit THEN "stop" ELSE "poll"
  /\ revents' = {}
  /\ UNCHANGED <<trackerVars, hasUi, signal, expired, input, quit,
                 inputs>>

(* Mutant: the program ends without a stop.                                *)
AppStopForgotten ==
  /\ loop = "stop"
  /\ loop' = "exited"
  /\ UNCHANGED <<trackerVars, hasUi, revents, signal, expired, input, quit,
                 inputs>>

AppStop ==
  /\ loop = "stop"
  /\ StopTracker
  /\ loop' = "exited"
  /\ UNCHANGED <<hasUi, revents, signal, expired, input, quit, inputs>>

(* The program's own steps.                                                *)
LoopSteps ==
  \/ TickUi
  \/ /\ UNCHANGED uiVars
     /\ \/ AppStart \/ LoopSetup \/ Poll \/ PollFails \/ ReadSignal
        \/ ReadTimer \/ HandleLine \/ Decide \/ AppStop

Alive == loop \notin {"exited", "killed"}

MoreInput == inputs + lastCmd + gray < MaxInputs

TimerExpires ==
  /\ Alive /\ loop # "start"
  /\ ~expired
  /\ expired' = TRUE
  /\ UNCHANGED <<trackerVars, uiVars, loop, hasUi, revents, signal, input,
                 quit, inputs>>

UserTypes(line) ==
  /\ Alive
  /\ ~eof
  /\ MoreInput
  /\ inputs' = inputs + 1
  /\ lines' = Append(lines, line)
  /\ UNCHANGED <<trackerVars, uiVars, loop, hasUi, revents, signal, expired,
                 eof, quit>>

InputEnds ==
  /\ Alive
  /\ ~eof
  /\ eof' = TRUE
  /\ UNCHANGED <<trackerVars, uiVars, loop, hasUi, revents, signal, expired,
                 lines, quit, inputs>>

(* SIGINT or SIGTERM, for this thread or for the process.  It waits for    *)
(* the descriptor if whoever may take it has blocked it: the tracker's     *)
(* threads, which began before this one blocked it, have not.              *)
SignalSent(to) ==
  /\ Alive
  /\ ~signal
  /\ MoreInput
  /\ inputs' = inputs + 1
  /\ IF loop \in {"start", "setup"} \/ (to = "process" /\ HasThreads)
     THEN loop' = "killed" /\ UNCHANGED signal
     ELSE signal' = TRUE /\ UNCHANGED loop
  /\ UNCHANGED <<trackerVars, uiVars, hasUi, revents, expired, input, quit>>

(* What the tracker does to the terminal program by itself.                *)
TrackerActs ==
  /\ Alive
  /\ \/ (TrackerFaults \/ TrackerLeavesManual) /\ UNCHANGED uiVars
     \/ /\ hasUi /\ HasThreads /\ MoreInput
        /\ UiOnCommand \/ UiOnFrame
        /\ UNCHANGED trackerVars

LoopNext ==
  \/ LoopSteps \/ TimerExpires \/ InputEnds
  \/ SignalSent("process") \/ SignalSent("thread")
  \/ \E line \in Line : UserTypes(line)
  \/ TrackerActs /\ UNCHANGED loopVars
=============================================================================
