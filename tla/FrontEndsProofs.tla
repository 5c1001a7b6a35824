--------------------------- MODULE FrontEndsProofs ---------------------------
(***************************************************************************)
(* Theorems of both programs, whatever the bounds: nothing of either acts  *)
(* once it has ended, for a stop of the tracker and the join of the        *)
(* converter come before; the ring of the plot keeps the newest commands;  *)
(* the controls show what the tracker has; both pictures move forward.     *)
(***************************************************************************)
EXTENDS FrontEnds, TLAPS

-----------------------------------------------------------------------------
(* The inductive invariant.                                                *)

(* Only the program that was chosen moves.                                 *)
OneProgram ==
  /\ frontEnd \in {"terminal", "window"}
  /\ frontEnd = "window" => loop = "start"
  /\ frontEnd = "terminal" => gui = "main"

(* A program that ends has stopped the tracker, or never started it.       *)
ExitedStopped == loop = "exited" => tracker \in {"stopped", "failed"}

(* The converter runs from its start to its join, and the flag is reset by *)
(* the GUI thread alone, on its way to the join.                           *)
ConverterInv ==
  /\ convRunning \in BOOLEAN
  /\ convRunning = TRUE => gui \in {"idle", "zero", "send", "flag"}
  /\ conv # "none" => convRunning = TRUE \/ gui \in {"mark", "notify", "join"}
  /\ gui \in {"main", "register", "convert", "failed"} =>
       conv = "none" /\ leaving = "no"
  /\ gui \in {"main", "register", "failed"} => observer = "idle"

(* The tracker is stopped before the window is, and then no observer is    *)
(* under way.                                                              *)
StoppedInv ==
  /\ gui \in {"stopped", "closed", "gone"} \/ leaving = "destroy" =>
       tracker = "stopped" /\ observer = "idle" /\ convRunning = FALSE
  /\ leaving = "destroy" => gui \in {"flag", "gone"}

IInv == OneProgram /\ ExitedStopped /\ ConverterInv /\ StoppedInv

-----------------------------------------------------------------------------
(* The terminal program: one step for each action.                         *)
LEMMA TerminalStep ==
  ASSUME IInv, IsTerminal, LoopNext, UNCHANGED windowVars
  PROVE  IInv'
<1> USE DEF IInv, IsTerminal, OneProgram, ExitedStopped, ConverterInv,
           StoppedInv, trackerVars, loopVars, windowVars, guiVars, mailbox,
           converterVars, cameraVars, Mode
<1>1. CASE AppStart
  BY <1>1 DEF AppStart, StartTracker
<1>2. CASE LoopSetup
  BY <1>2 DEF LoopSetup
<1>3. CASE Poll
  BY <1>3 DEF Poll
<1>4. CASE PollFails
  BY <1>4 DEF PollFails
<1>5. CASE ReadSignal
  BY <1>5 DEF ReadSignal
<1>6. CASE ReadTimer
  BY <1>6 DEF ReadTimer
<1>7. CASE HandleLine
  BY <1>7 DEF HandleLine, Obeys, EnterManual, ExitManual, Accepts,
              SetManualSetpoint
<1>8. CASE Decide
  BY <1>8 DEF Decide
<1>9. CASE AppStop
  BY <1>9 DEF AppStop, StopTracker
<1>10. CASE TickUi
  BY <1>10 DEF TickUi, SetTrackerThreshold
<1>11. CASE TimerExpires
  BY <1>11 DEF TimerExpires
<1>12. CASE SignalSent("process") \/ SignalSent("thread")
  BY <1>12 DEF SignalSent, Alive
<1>13. ASSUME NEW line \in Line, UserTypes(line) PROVE IInv'
  BY <1>13 DEF UserTypes
<1>14. CASE TrackerActs /\ UNCHANGED loopVars
  BY <1>14 DEF TrackerActs, TrackerFaults, TrackerLeavesManual, Accepts,
               Alive
<1>15. CASE InputEnds
  BY <1>15 DEF InputEnds
<1> QED
  BY <1>1, <1>2, <1>3, <1>4, <1>5, <1>6, <1>7, <1>8, <1>9, <1>10, <1>11,
     <1>12, <1>13, <1>14, <1>15
  DEF LoopNext, LoopSteps

(* The window: one step for each action.                                   *)
LEMMA WindowStep ==
  ASSUME IInv, IsWindow, WindowNext, UNCHANGED loopVars
  PROVE  IInv'
<1> USE DEF IInv, IsWindow, OneProgram, ExitedStopped, ConverterInv,
           StoppedInv, trackerVars, loopVars, windowVars, guiVars, mailbox,
           converterVars, cameraVars, GuiMoves, ConvKeeps, Mode, panel,
           RestOfWindow
<1>1. CASE MainStart
  BY <1>1 DEF MainStart, StartTracker
<1>2. CASE RegisterObservers
  BY <1>2 DEF RegisterObservers
<1>3. CASE StartConverter
  BY <1>3 DEF StartConverter
<1>4. CASE StopFlag
  BY <1>4 DEF StopFlag, AfterConverter
<1>5. CASE StopMarks
  BY <1>5 DEF StopMarks
<1>6. CASE StopNotifies
  BY <1>6 DEF StopNotifies, WakeConverter
<1>7. CASE StopJoins
  BY <1>7 DEF StopJoins, AfterConverter
<1>8. CASE SysStop
  BY <1>8 DEF SysStop, StopTracker
<1>9. CASE Leave("destroy")
  BY <1>9 DEF Leave
<1>10. CASE BtnAuto
  BY <1>10 DEF BtnAuto, ExitManual, Accepts
<1>11. CASE BtnManual
  BY <1>11 DEF BtnManual, EnterManual, Accepts
<1>12. CASE Leave("stop")
  BY <1>12 DEF Leave
<1>13. CASE Leave("close")
  BY <1>13 DEF Leave
<1>14. CASE UpdateCamera
  BY <1>14 DEF UpdateCamera
<1>15. CASE StoreFrame
  BY <1>15 DEF StoreFrame, Observing
<1>16. CASE NotifyConverter
  BY <1>16 DEF NotifyConverter, WakeConverter
<1>17. CASE ConvTop
  BY <1>17 DEF ConvTop
<1>18. CASE ConvLock
  BY <1>18 DEF ConvLock
<1>19. CASE ConvLooks
  BY <1>19 DEF ConvLooks
<1>20. CASE ConvWaits
  BY <1>20 DEF ConvWaits
<1>21. CASE ConvTakes
  BY <1>21 DEF ConvTakes
<1>22. CASE ConvPublishes
  BY <1>22 DEF ConvPublishes
<1>23. CASE ConvSpuriousWakeup
  BY <1>23 DEF ConvSpuriousWakeup
<1>24. CASE (TrackerFaults \/ TrackerLeavesManual) /\ UNCHANGED windowVars
  BY <1>24 DEF TrackerFaults, TrackerLeavesManual, Accepts
<1>25. CASE SendManual
  BY <1>25 DEF SendManual, SetManualSetpoint
<1>26. CASE BtnSend
  BY <1>26 DEF BtnSend
<1>27. CASE BtnZero
  BY <1>27 DEF BtnZero, SetSlider, SetManualSetpoint
<1>28. CASE ZeroTilt
  BY <1>28 DEF ZeroTilt, SetSlider, SetManualSetpoint
<1>29. ASSUME NEW axis \in 1 .. 2, NEW angle \in Angles,
              MoveSlider(axis, angle)
       PROVE  IInv'
  BY <1>29 DEF MoveSlider, Acts, SetSlider, SetManualSetpoint
<1>30. CASE ClickThreshold(Raised(thr)) \/ ClickThreshold(Lowered(thr))
  BY <1>30 DEF ClickThreshold, Acts, SetTrackerThreshold
<1> QED
  BY <1>1, <1>2, <1>3, <1>4, <1>5, <1>6, <1>7, <1>8, <1>9, <1>10, <1>11,
     <1>12, <1>13, <1>14, <1>15, <1>16, <1>17, <1>18, <1>19, <1>20, <1>21,
     <1>22, <1>23, <1>24, <1>25, <1>26, <1>27, <1>28, <1>29, <1>30
  DEF WindowNext, GuiCallSteps, UserActs, ConvSteps

(* It holds before either program has begun.                               *)
LEMMA InitIInv == Init => IInv
BY DEF Init, FrontEndInit, LoopInit, WindowInit, IInv, OneProgram,
       ExitedStopped, ConverterInv, StoppedInv

(* Every step of the program that was chosen keeps it.                     *)
LEMMA StepIInv == IInv /\ [Next]_vars => IInv'
<1> SUFFICES ASSUME IInv, [Next]_vars PROVE IInv'
  OBVIOUS
<1>1. CASE Terminal(LoopNext)
  BY <1>1, TerminalStep DEF Terminal
<1>2. CASE Window(WindowNext)
  BY <1>2, WindowStep DEF Window
<1>3. CASE UNCHANGED vars
  BY <1>3 DEF vars, trackerVars, loopVars, windowVars, guiVars, converterVars,
              cameraVars, IInv, OneProgram, ExitedStopped, ConverterInv,
              StoppedInv
<1> QED
  BY <1>1, <1>2, <1>3 DEF Next

-----------------------------------------------------------------------------
(* When a program has ended or the window is gone, the tracker is stopped  *)
(* or never started, the converter joined and no observer under way.       *)
THEOREM ExitIsQuiet == Spec => []QuietAfterExit
<1>1. IInv => QuietAfterExit
  BY DEF IInv, ExitedStopped, ConverterInv, StoppedInv, QuietAfterExit
<1> QED
  BY <1>1, InitIInv, StepIInv, PTL DEF Spec

-----------------------------------------------------------------------------
(* The ring of plotted commands.                                           *)

(* The head moves on by one, and a row so many back from it is the one     *)
(* that was one less back from where it was.                               *)
LEMMA RowArithmetic ==
  ASSUME NEW n \in Nat \ {0}, NEW h \in 0 .. n - 1, NEW b \in 0 .. n - 1
  PROVE  /\ (h + 1) % n \in 0 .. n - 1
         /\ (((h + 1) % n) + n - 1 - b) % n =
              IF b <= h THEN h - b ELSE h + n - b
         /\ b > 0 =>
              (h + n - 1 - (b - 1)) % n = IF b <= h THEN h - b ELSE h + n - b
<1>1. CASE h + 1 < n
  <2>1. (h + 1) % n = h + 1
    BY <1>1
  <2>2. CASE b <= h
    <3>1. (h + n - b) % n = h - b
      BY <2>2
    <3> QED
      BY <2>1, <2>2, <3>1
  <2>3. CASE b > h
    <3>1. (h + n - b) % n = h + n - b
      BY <2>3
    <3> QED
      BY <2>1, <2>3, <3>1
  <2> QED
    BY <2>2, <2>3
<1>2. CASE h + 1 = n
  <2>1. (h + 1) % n = 0
    BY <1>2
  <2>2. (n - 1 - b) % n = n - 1 - b
    OBVIOUS
  <2>3. (h + n - b) % n = n - 1 - b
    BY <1>2
  <2> QED
    BY <1>2, <2>1, <2>2, <2>3
<1> QED
  BY <1>1, <1>2

(* After a sample its row is the newest, every other row that is drawn is  *)
(* one farther back, and none of them was overwritten.                     *)
LEMMA RowsMove ==
  ASSUME RingTypeOK, NEW back \in 0 .. HistoryRows - 1,
         histHead' = (histHead + 1) % HistoryRows
  PROVE  /\ histHead' \in RowIndex
         /\ back = 0 => RowBack(back)' = histHead
         /\ back > 0 => /\ RowBack(back)' = RowBack(back - 1)
                        /\ RowBack(back)' # histHead
                        /\ RowBack(back)' \in RowIndex
<1>1. HistoryRows \in Nat \ {0} /\ histHead \in 0 .. HistoryRows - 1
  BY UiViewerAssumption DEF RingTypeOK, RowIndex
<1>2. /\ histHead' \in 0 .. HistoryRows - 1
      /\ (histHead' + HistoryRows - 1 - back) % HistoryRows =
           IF back <= histHead THEN histHead - back
           ELSE histHead + HistoryRows - back
      /\ back > 0 =>
           (histHead + HistoryRows - 1 - (back - 1)) % HistoryRows =
             IF back <= histHead THEN histHead - back
             ELSE histHead + HistoryRows - back
  BY <1>1, RowArithmetic
<1>3. /\ RowBack(back)' = (histHead' + HistoryRows - 1 - back) % HistoryRows
      /\ RowBack(back - 1) =
           (histHead + HistoryRows - 1 - (back - 1)) % HistoryRows
  BY DEF RowBack
<1>4. CASE back = 0
  BY <1>1, <1>2, <1>3, <1>4 DEF RowIndex
<1>5. CASE back > 0 /\ back <= histHead
  BY <1>1, <1>2, <1>3, <1>5 DEF RowIndex
<1>6. CASE back > 0 /\ back > histHead
  BY <1>1, <1>2, <1>3, <1>6 DEF RowIndex
<1> QED
  BY <1>1, <1>4, <1>5, <1>6

(* A click leaves a threshold a byte.                                      *)
LEMMA ClicksStayLevels ==
  ASSUME NEW t \in Levels
  PROVE  Raised(t) \in Levels /\ Lowered(t) \in Levels
BY FrontEndAssumption DEF Levels, Raised, Lowered

HistoryInv == RingTypeOK /\ HistoryKeepsNewest

(* A command stored in the ring keeps it in order, whether or not the ring *)
(* was full.                                                               *)
LEMMA RingStep == HistoryInv /\ PictureTypeOK /\ UiOnCommand => HistoryInv'
<1> SUFFICES ASSUME HistoryInv, PictureTypeOK, UiOnCommand PROVE HistoryInv'
  OBVIOUS
<1>1. RingTypeOK /\ HistoryKeepsNewest
  BY DEF HistoryInv
<1>2. /\ HistoryRows \in Nat \ {0} /\ MaxObserved \in Nat
      /\ histHead \in RowIndex /\ histHead \in 0 .. HistoryRows - 1
      /\ histCount \in 0 .. HistoryRows
      /\ lastCmd \in 0 .. MaxObserved /\ gray \in 0 .. MaxObserved
      /\ lastCmd + gray < MaxObserved
      /\ histU \in [RowIndex -> 0 .. MaxObserved]
  BY <1>1, UiViewerAssumption DEF RingTypeOK, PictureTypeOK, RowIndex,
                                  UiOnCommand
<1>3. /\ lastCmd' = lastCmd + 1
      /\ histU' = [histU EXCEPT ![histHead] = lastCmd + 1]
      /\ histHead' = (histHead + 1) % HistoryRows
      /\ histCount' = IF histCount < HistoryRows THEN histCount + 1
                      ELSE HistoryRows
  BY DEF UiOnCommand, PushSample
<1>4. RingTypeOK'
  <2>1. lastCmd' \in 0 .. MaxObserved /\ histCount' \in 0 .. HistoryRows
    BY <1>2, <1>3
  <2>2. histHead' \in RowIndex
    <3>1. 0 \in 0 .. HistoryRows - 1
      BY <1>2
    <3> QED
      BY <1>1, <1>3, <3>1, RowsMove
  <2>3. histU' \in [RowIndex -> 0 .. MaxObserved]
    BY <1>2, <1>3
  <2> QED
    BY <1>1, <1>3, <2>1, <2>2, <2>3 DEF RingTypeOK
<1>5. ASSUME NEW back \in 0 .. histCount' - 1
      PROVE  histU'[RowBack(back)'] = lastCmd' - back
  <2>1. back \in 0 .. HistoryRows - 1
    BY <1>2, <1>3
  <2>2. CASE back = 0
    <3>1. RowBack(back)' = histHead
      BY <1>1, <1>3, <2>1, <2>2, RowsMove
    <3> QED
      BY <1>2, <1>3, <2>2, <3>1
  <2>3. CASE back > 0
    <3>1. back - 1 \in 0 .. histCount - 1
      BY <1>2, <1>3, <2>3
    <3>2. /\ RowBack(back)' = RowBack(back - 1)
          /\ RowBack(back)' # histHead
          /\ RowBack(back)' \in RowIndex
      BY <1>1, <1>3, <2>1, <2>3, RowsMove
    <3>3. histU[RowBack(back - 1)] = lastCmd - (back - 1)
      BY <1>1, <3>1 DEF HistoryKeepsNewest
    <3>4. histU'[RowBack(back)'] = histU[RowBack(back - 1)]
      BY <1>2, <1>3, <3>2
    <3> QED
      BY <1>2, <1>3, <2>1, <3>3, <3>4
  <2> QED
    BY <2>1, <2>2, <2>3
<1>6. HistoryKeepsNewest'
  BY <1>5 DEF HistoryKeepsNewest
<1> QED
  BY <1>4, <1>6 DEF HistoryInv

(* An empty ring is in order.                                              *)
LEMMA InitHistory == Init => HistoryInv
<1> SUFFICES ASSUME Init PROVE HistoryInv
  OBVIOUS
<1>1. HistoryRows \in Nat \ {0} /\ MaxObserved \in Nat
  BY UiViewerAssumption
<1>2. /\ histU = [i \in RowIndex |-> 0]
      /\ histHead = 0 /\ histCount = 0 /\ lastCmd = 0
  BY DEF Init, UiInit
<1>3. 0 \in RowIndex /\ 0 \in 0 .. HistoryRows /\ 0 \in 0 .. MaxObserved
  BY <1>1 DEF RowIndex
<1>4. RingTypeOK
  BY <1>2, <1>3 DEF RingTypeOK
<1>5. HistoryKeepsNewest
  BY <1>2 DEF HistoryKeepsNewest
<1> QED
  BY <1>4, <1>5 DEF HistoryInv

(* The variables of the picture begin with their types.                    *)
LEMMA InitPicture == Init => PictureTypeOK
<1> SUFFICES ASSUME Init PROVE PictureTypeOK
  OBVIOUS
<1>1. /\ gray = 0 /\ drawn = 0 /\ uiThreshold = StartThreshold
      /\ uiQuit = FALSE
  BY DEF Init, UiInit
<1>2. FALSE \in BOOLEAN
  OBVIOUS
<1>3. gray \in 0 .. MaxObserved /\ drawn \in 0 .. MaxObserved
  BY <1>1, UiViewerAssumption
<1>4. uiThreshold \in Levels
  BY <1>1, FrontEndAssumption DEF Levels
<1> QED
  BY <1>1, <1>2, <1>3, <1>4 DEF PictureTypeOK

(* Whatever happens, the picture and the ring change in these ways only.   *)
LEMMA UiSteps ==
  ASSUME [Next]_vars
  PROVE  UiOnCommand \/ UiOnFrame \/ UiTick \/ UNCHANGED uiVars
<1>1. CASE Terminal(LoopNext)
  BY <1>1 DEF Terminal, LoopNext, LoopSteps, TickUi, TimerExpires, SignalSent,
              UserTypes, InputEnds, TrackerActs
<1>2. CASE Window(WindowNext)
  BY <1>2 DEF Window
<1>3. CASE UNCHANGED vars
  BY <1>3 DEF vars
<1> QED
  BY <1>1, <1>2, <1>3 DEF Next

(* Every step keeps them.                                                  *)
LEMMA StepPicture == RingTypeOK /\ PictureTypeOK /\ [Next]_vars => PictureTypeOK'
<1> SUFFICES ASSUME RingTypeOK, PictureTypeOK, [Next]_vars PROVE PictureTypeOK'
  OBVIOUS
<1>1. CASE UiOnCommand \/ UNCHANGED uiVars
  BY <1>1 DEF UiOnCommand, uiVars, pictureVars, PictureTypeOK
<1>2. CASE UiOnFrame
  <2>1. /\ gray' = gray + 1 /\ lastCmd + gray < MaxObserved
        /\ UNCHANGED <<drawn, uiThreshold, uiQuit, lastCmd>>
    BY <1>2 DEF UiOnFrame, ringVars
  <2> QED
    BY <2>1, UiViewerAssumption DEF RingTypeOK, PictureTypeOK
<1>3. CASE UiTick
  <2>1. /\ drawn' = gray /\ gray' = gray
        /\ uiThreshold' \in
             {uiThreshold, Raised(uiThreshold), Lowered(uiThreshold)}
        /\ uiQuit' \in {uiQuit, TRUE}
    BY <1>3 DEF UiTick
  <2>2. uiThreshold' \in Levels
    BY <2>1, ClicksStayLevels DEF PictureTypeOK
  <2>3. uiQuit' \in BOOLEAN
    BY <2>1 DEF PictureTypeOK
  <2> QED
    BY <2>1, <2>2, <2>3 DEF PictureTypeOK
<1> QED
  BY <1>1, <1>2, <1>3, UiSteps

(* Only a command changes the ring.                                        *)
LEMMA StepHistory ==
  HistoryInv /\ PictureTypeOK /\ [Next]_vars => HistoryInv'
<1> SUFFICES ASSUME HistoryInv, PictureTypeOK, [Next]_vars PROVE HistoryInv'
  OBVIOUS
<1>1. CASE UiOnCommand
  BY <1>1, RingStep
<1>2. CASE UNCHANGED ringVars
  BY <1>2 DEF ringVars, HistoryInv, RingTypeOK, HistoryKeepsNewest, RowBack
<1>3. UiOnCommand \/ UNCHANGED ringVars
  BY UiSteps DEF UiOnFrame, UiTick, uiVars
<1> QED
  BY <1>1, <1>2, <1>3

(* The plot's ring holds the newest commands in order, for any number of   *)
(* rows and commands.                                                      *)
THEOREM HistoryIsNewest == Spec => []HistoryKeepsNewest
<1>1. HistoryInv /\ PictureTypeOK => HistoryKeepsNewest
  BY DEF HistoryInv
<1>2. HistoryInv /\ PictureTypeOK /\ [Next]_vars
        => (HistoryInv /\ PictureTypeOK)'
  BY StepHistory, StepPicture DEF HistoryInv
<1> QED
  BY <1>1, <1>2, InitHistory, InitPicture, PTL DEF Spec

-----------------------------------------------------------------------------
(* Types.                                                                  *)

(* The types of both programs' own variables.                              *)
ProgramsTypeOK ==
  /\ FrontEndTypeOK /\ LoopTypeOK /\ WindowTypeOK
  /\ convMutex <=> conv \in {"look", "block", "take"}

(* The line handed to handleLine() is one, whether typed or the end's.     *)
LEMMA LinesAreLines ==
  ASSUME lines \in Seq(Line)
  PROVE  NextLine \in Line /\ LinesLeft \in Seq(Line)
<1>1. EmptyLine \in Line
  BY DEF EmptyLine, Line
<1>2. CASE lines = << >>
  BY <1>1, <1>2 DEF NextLine, LinesLeft
<1>3. CASE lines # << >>
  BY <1>3 DEF NextLine, LinesLeft
<1> QED
  BY <1>2, <1>3

(* What a line does to the tracker keeps the tracker's types.              *)
LEMMA ObeysTypes ==
  ASSUME FrontEndTypeOK, NEW line \in Line, Obeys(line)
  PROVE  FrontEndTypeOK'
<1> USE DEF FrontEndTypeOK, Mode, trackerVars
<1>1. CASE line[1] = "m"
  BY <1>1 DEF Obeys, EnterManual, Accepts
<1>2. CASE line[1] = "a"
  BY <1>2 DEF Obeys, ExitManual, Accepts
<1>3. CASE line[1] = "setpoint"
  <2>1. line[2] \in Setpoints
    BY <1>3, EventLoopAssumption DEF Line
  <2> QED
    BY <1>3, <2>1 DEF Obeys, SetManualSetpoint
<1>4. CASE line[1] \notin {"m", "a", "setpoint"}
  BY <1>4 DEF Obeys
<1> QED
  BY <1>1, <1>2, <1>3, <1>4

(* A step of the terminal keeps its types and those of the loop and the    *)
(* viewer.                                                                 *)
LEMMA TerminalTypes ==
  ASSUME FrontEndTypeOK, LoopTypeOK, RingTypeOK, PictureTypeOK, LoopNext
  PROVE  FrontEndTypeOK' /\ LoopTypeOK'
<1> USE DEF FrontEndTypeOK, LoopTypeOK, trackerVars, input, loopVars, Mode
<1>1. CASE AppStart
  BY <1>1 DEF AppStart, StartTracker
<1>2. CASE LoopSetup
  BY <1>2 DEF LoopSetup
<1>3. CASE Poll
  BY <1>3 DEF Poll, Ready
<1>4. CASE PollFails
  BY <1>4 DEF PollFails
<1>5. CASE ReadSignal
  BY <1>5 DEF ReadSignal
<1>6. CASE ReadTimer
  BY <1>6 DEF ReadTimer
<1>7. CASE HandleLine
  <2>1. NextLine \in Line /\ lines' \in Seq(Line)
    BY <1>7, LinesAreLines DEF HandleLine
  <2>2. quit' \in BOOLEAN
    BY <1>7 DEF HandleLine
  <2>3. FrontEndTypeOK'
    BY <1>7, <2>1, ObeysTypes DEF HandleLine
  <2> QED
    BY <1>7, <2>1, <2>2, <2>3 DEF HandleLine
<1>8. CASE Decide
  BY <1>8 DEF Decide
<1>9. CASE AppStop
  BY <1>9 DEF AppStop, StopTracker
<1>10. CASE TickUi
  <2>1. CASE hasUi = TRUE
    <3>1. UiTick /\ quit' = (quit \/ uiQuit')
      BY <1>10, <2>1 DEF TickUi
    <3>2. uiThreshold' \in Levels
      BY <3>1, ClicksStayLevels DEF UiTick, PictureTypeOK
    <3>3. quit' \in BOOLEAN
      BY <3>1
    <3>4. FrontEndTypeOK'
      BY <1>10, <2>1, <3>2 DEF TickUi, SetTrackerThreshold
    <3> QED
      BY <1>10, <3>3, <3>4 DEF TickUi
  <2>2. CASE hasUi = FALSE
    BY <1>10, <2>2 DEF TickUi
  <2> QED
    BY <2>1, <2>2
<1>11. CASE TimerExpires
  BY <1>11 DEF TimerExpires
<1>12. CASE SignalSent("process") \/ SignalSent("thread")
  <2>1. inputs' \in 0 .. MaxInputs
    BY <1>12, EventLoopAssumption DEF SignalSent, MoreInput, RingTypeOK,
                                     PictureTypeOK
  <2> QED
    BY <1>12, <2>1 DEF SignalSent
<1>13. ASSUME NEW line \in Line, UserTypes(line)
      PROVE  FrontEndTypeOK' /\ LoopTypeOK'
  <2>1. inputs' \in 0 .. MaxInputs
    BY <1>13, EventLoopAssumption DEF UserTypes, MoreInput, RingTypeOK,
                                     PictureTypeOK
  <2>2. lines' \in Seq(Line)
    BY <1>13 DEF UserTypes
  <2> QED
    BY <1>13, <2>1, <2>2 DEF UserTypes
<1>14. CASE TrackerActs /\ UNCHANGED loopVars
  BY <1>14 DEF TrackerActs, TrackerFaults, TrackerLeavesManual, Accepts
<1>15. CASE InputEnds
  BY <1>15 DEF InputEnds
<1> QED
  BY <1>1, <1>2, <1>3, <1>4, <1>5, <1>6, <1>7, <1>8, <1>9,
     <1>10, <1>11, <1>12, <1>13, <1>14, <1>15 DEF LoopNext, LoopSteps

(* A slider that moves stays among the angles.                             *)
LEMMA SlidersMove ==
  ASSUME NEW s \in Setpoints, NEW axis \in 1 .. 2, NEW angle \in Angles
  PROVE  [s EXCEPT ![axis] = angle] \in Setpoints
<1>1. PICK a \in Angles, b \in Angles : s = <<a, b>>
  BY DEF Setpoints
<1>2. CASE axis = 1
  <2>1. [s EXCEPT ![axis] = angle] = <<angle, b>>
    BY <1>1, <1>2
  <2> QED
    BY <2>1 DEF Setpoints
<1>3. CASE axis = 2
  <2>1. [s EXCEPT ![axis] = angle] = <<a, angle>>
    BY <1>1, <1>3
  <2> QED
    BY <2>1 DEF Setpoints
<1> QED
  BY <1>2, <1>3

(* A step of the window keeps its types and those of its panel and         *)
(* converter.                                                              *)
LEMMA WindowTypes ==
  ASSUME ProgramsTypeOK, ConverterInv, WindowNext
  PROVE  FrontEndTypeOK' /\ WindowTypeOK'
         /\ (convMutex' <=> conv' \in {"look", "block", "take"})
<1> USE DEF ProgramsTypeOK, FrontEndTypeOK, WindowTypeOK, trackerVars,
           windowVars, guiVars, mailbox, converterVars, cameraVars,
           GuiMoves, ConvKeeps, Mode, panel,
           RestOfWindow, Frame
<1>1. CASE MainStart
  BY <1>1 DEF MainStart, StartTracker
<1>2. CASE RegisterObservers
  BY <1>2 DEF RegisterObservers
<1>3. CASE StartConverter
  BY <1>3 DEF StartConverter, ConverterInv
<1>4. CASE StopFlag
  BY <1>4 DEF StopFlag, AfterConverter
<1>5. CASE StopMarks
  BY <1>5 DEF StopMarks
<1>6. CASE StopNotifies
  BY <1>6 DEF StopNotifies, WakeConverter
<1>7. CASE StopJoins
  BY <1>7 DEF StopJoins, AfterConverter
<1>8. CASE SysStop
  BY <1>8 DEF SysStop, StopTracker
<1>9. CASE Leave("destroy")
  BY <1>9 DEF Leave
<1>10. CASE BtnAuto
  BY <1>10, ZenonT(30) DEF BtnAuto, ExitManual, Accepts
<1>11. CASE BtnManual
  BY <1>11 DEF BtnManual, EnterManual, Accepts
<1>12. CASE Leave("stop")
  BY <1>12 DEF Leave
<1>13. CASE Leave("close")
  BY <1>13 DEF Leave
<1>14. CASE UpdateCamera
  BY <1>14 DEF UpdateCamera
<1>15. CASE StoreFrame
  BY <1>15, MainWindowAssumption DEF StoreFrame, Observing
<1>16. CASE NotifyConverter
  BY <1>16 DEF NotifyConverter, WakeConverter
<1>17. CASE ConvTop
  BY <1>17 DEF ConvTop
<1>18. CASE ConvLock
  BY <1>18 DEF ConvLock
<1>19. CASE ConvLooks
  BY <1>19 DEF ConvLooks
<1>20. CASE ConvWaits
  BY <1>20, ZenonT(30) DEF ConvWaits
<1>21. CASE ConvTakes
  <2>1. /\ convMutex' = FALSE /\ conv' \in {"convert", "end"}
        /\ buf' \in {latest, buf} /\ convHasFrame' \in {FALSE, convHasFrame}
        /\ UNCHANGED <<latest, image>>
    BY <1>21 DEF ConvTakes
  <2>2. convHasFrame' \in BOOLEAN /\ buf' \in Frame
    BY <2>1
  <2>3. {manualMode', convRunning', convMutex', convHasFrame'} \subseteq BOOLEAN
    BY <1>21, <2>1, <2>2 DEF ConvTakes
  <2>4. WindowTypeOK'
    BY <1>21, <2>1, <2>2, <2>3 DEF ConvTakes
  <2> QED
    BY <1>21, <2>1, <2>4 DEF ConvTakes
<1>22. CASE ConvPublishes
  BY <1>22 DEF ConvPublishes
<1>23. CASE ConvSpuriousWakeup
  BY <1>23 DEF ConvSpuriousWakeup
<1>24. CASE (TrackerFaults \/ TrackerLeavesManual) /\ UNCHANGED windowVars
  BY <1>24 DEF TrackerFaults, TrackerLeavesManual, Accepts
<1>25. CASE SendManual
  BY <1>25 DEF SendManual, SetManualSetpoint
<1>26. CASE BtnSend
  BY <1>26 DEF BtnSend
<1>27. CASE BtnZero
  <2>1. 2 \in 1 .. 2 /\ sliders \in Setpoints
    OBVIOUS
  <2>2. [sliders EXCEPT ![2] = 0] \in Setpoints
    BY <2>1, FrontEndAssumption, SlidersMove
  <2> QED
    BY <1>27, <2>2 DEF BtnZero, SetSlider, SetManualSetpoint
<1>28. CASE ZeroTilt
  <2>1. 1 \in 1 .. 2 /\ sliders \in Setpoints
    OBVIOUS
  <2>2. [sliders EXCEPT ![1] = 0] \in Setpoints
    BY <2>1, FrontEndAssumption, SlidersMove
  <2> QED
    BY <1>28, <2>2 DEF ZeroTilt, SetSlider, SetManualSetpoint
<1>29. ASSUME NEW axis \in 1 .. 2, NEW angle \in Angles,
              MoveSlider(axis, angle)
       PROVE  FrontEndTypeOK' /\ WindowTypeOK'
              /\ (convMutex' <=> conv' \in {"look", "block", "take"})
  <2>1. sliders' \in Setpoints
    BY <1>29, SlidersMove DEF MoveSlider, SetSlider
  <2>2. acts' \in 0 .. MaxActs
    BY <1>29, MainWindowAssumption DEF MoveSlider, Acts
  <2> QED
    BY <1>29, <2>1, <2>2 DEF MoveSlider, SetSlider, SetManualSetpoint
<1>30. CASE ClickThreshold(Raised(thr)) \/ ClickThreshold(Lowered(thr))
  <2>1. thr' \in Levels /\ threshold' = thr'
    BY <1>30, ClicksStayLevels DEF ClickThreshold, SetTrackerThreshold
  <2>2. acts' \in 0 .. MaxActs
    BY <1>30, MainWindowAssumption DEF ClickThreshold, Acts
  <2> QED
    BY <1>30, <2>1, <2>2 DEF ClickThreshold, SetTrackerThreshold
<1> QED
  BY <1>1, <1>2, <1>3, <1>4, <1>5, <1>6, <1>7, <1>8, <1>9, <1>10, <1>11,
     <1>12, <1>13, <1>14, <1>15, <1>16, <1>17, <1>18, <1>19, <1>20, <1>21,
     <1>22, <1>23, <1>24, <1>25, <1>26, <1>27, <1>28, <1>29, <1>30
  DEF WindowNext, GuiCallSteps, UserActs, ConvSteps

(* Both programs begin with values of their types.                         *)
LEMMA InitTypes == Init => ProgramsTypeOK
<1> SUFFICES ASSUME Init PROVE ProgramsTypeOK
  OBVIOUS
<1>1. MaxInputs \in Nat /\ MaxFrames \in Nat /\ MaxActs \in Nat
  BY EventLoopAssumption, MainWindowAssumption
<1>2. FALSE \in BOOLEAN
  OBVIOUS
<1>3. FrontEndTypeOK
  BY FrontEndAssumption DEF Init, FrontEndInit, FrontEndTypeOK, Levels,
                           NoSetpoint
<1>4. LoopTypeOK
  <2>1. /\ hasUi \in {FALSE, frontEnd = "terminal"} /\ signal = FALSE
        /\ expired = FALSE /\ quit = FALSE /\ eof = FALSE
    BY DEF Init, LoopInit
  <2>2. {hasUi, signal, expired, quit, eof} \subseteq BOOLEAN
    BY <1>2, <2>1
  <2>3. /\ loop = "start" /\ revents = {} /\ lines = << >>
        /\ inputs = 0
    BY DEF Init, LoopInit
  <2> QED
    BY <1>1, <2>2, <2>3 DEF LoopTypeOK
<1>5. WindowTypeOK /\ (convMutex <=> conv \in {"look", "block", "take"})
  <2>1. /\ manualMode = FALSE /\ convRunning = FALSE /\ convMutex = FALSE
        /\ convHasFrame = FALSE
    BY DEF Init, WindowInit
  <2>2. {manualMode, convRunning, convMutex, convHasFrame} \subseteq BOOLEAN
    BY <1>2, <2>1
  <2>3. /\ gui = "main" /\ leaving = "no" /\ conv = "none" /\ observer = "idle"
        /\ latest = 0 /\ buf = 0 /\ image = 0 /\ shown = 0 /\ frames = 0
        /\ sliders = <<0, 0>> /\ thr = WindowThreshold /\ acts = 0
    BY DEF Init, WindowInit
  <2>4. sliders \in Setpoints /\ thr \in Levels
    BY <2>3, FrontEndAssumption, MainWindowAssumption DEF Setpoints, Levels
  <2> QED
    BY <1>1, <2>1, <2>2, <2>3, <2>4 DEF WindowTypeOK, Frame
<1> QED
  BY <1>3, <1>4, <1>5 DEF ProgramsTypeOK

(* Every step of either program keeps the types.                           *)
LEMMA StepTypes ==
  IInv /\ RingTypeOK /\ PictureTypeOK /\ ProgramsTypeOK /\ [Next]_vars
    => ProgramsTypeOK'
<1> SUFFICES ASSUME IInv, RingTypeOK, PictureTypeOK, ProgramsTypeOK,
                    [Next]_vars
             PROVE  ProgramsTypeOK'
  OBVIOUS
<1>1. CASE Terminal(LoopNext)
  <2>1. FrontEndTypeOK' /\ LoopTypeOK'
    BY <1>1, TerminalTypes DEF Terminal, ProgramsTypeOK
  <2>2. UNCHANGED windowVars
    BY <1>1 DEF Terminal
  <2> QED
    BY <2>1, <2>2 DEF ProgramsTypeOK, WindowTypeOK, windowVars, guiVars, panel,
                      mailbox, converterVars, cameraVars
<1>2. CASE Window(WindowNext)
  <2>1. /\ FrontEndTypeOK' /\ WindowTypeOK'
        /\ convMutex' <=> conv' \in {"look", "block", "take"}
    BY <1>2, WindowTypes DEF Window, IInv
  <2>2. UNCHANGED loopVars
    BY <1>2 DEF Window
  <2> QED
    BY <2>1, <2>2 DEF ProgramsTypeOK, LoopTypeOK, loopVars,
                      input
<1>3. CASE UNCHANGED vars
  BY <1>3 DEF vars, trackerVars, loopVars, input, windowVars, guiVars, panel,
              mailbox, converterVars, cameraVars, ProgramsTypeOK,
              FrontEndTypeOK, LoopTypeOK, WindowTypeOK
<1> QED
  BY <1>1, <1>2, <1>3 DEF Next

(* Every variable keeps its type, and the converter holds its mutex just   *)
(* where it looks into the mailbox, for any number of frames, lines,       *)
(* signals and commands.                                                   *)
THEOREM TypeCorrect == Spec => []TypeOK
<1>1. HistoryInv /\ PictureTypeOK /\ ProgramsTypeOK => TypeOK
  BY DEF HistoryInv, ProgramsTypeOK, TypeOK
<1>2. IInv /\ HistoryInv /\ PictureTypeOK /\ ProgramsTypeOK /\ [Next]_vars
        => (IInv /\ HistoryInv /\ PictureTypeOK /\ ProgramsTypeOK)'
  BY StepIInv, StepHistory, StepPicture, StepTypes DEF HistoryInv
<1>3. Init => IInv /\ HistoryInv /\ PictureTypeOK /\ ProgramsTypeOK
  BY InitIInv, InitHistory, InitPicture, InitTypes
<1> QED
  BY <1>1, <1>2, <1>3, PTL DEF Spec
-----------------------------------------------------------------------------
(* The controls.                                                           *)

(* The sliders are what the tracker was last given, except between entering *)
(* the manual mode and sending them, and the mode cannot be manual before  *)
(* the window is up.                                                       *)
ControlsInv ==
  /\ IsWindow => threshold = thr
  /\ IsTerminal /\ hasUi = TRUE /\ uiQuit # TRUE => threshold = uiThreshold
  /\ IsWindow /\ gui \in {"main", "register", "convert", "failed"} =>
       tracker # "manual"
  /\ IsWindow /\ gui \in {"idle", "zero"} /\ tracker = "manual" =>
       manualMode # TRUE \/ setpoint = sliders

(* The controls begin with what the tracker has.                           *)
LEMMA InitControls == Init => ControlsInv
BY MainWindowAssumption
   DEF Init, FrontEndInit, UiInit, LoopInit, WindowInit, ControlsInv, IsWindow,
       IsTerminal

(* Every step of the terminal keeps them: a threshold is handed on in the  *)
(* tick that changes it.                                                   *)
LEMMA TerminalControls ==
  ASSUME ControlsInv, IsTerminal, LoopNext, UNCHANGED windowVars,
         [Next]_vars
  PROVE  ControlsInv'
<1> USE DEF ControlsInv, IsTerminal, IsWindow, trackerVars, Mode
<1>1. CASE TickUi
  BY <1>1 DEF TickUi, UiTick, SetTrackerThreshold, uiVars, pictureVars
<1>2. CASE HandleLine /\ UNCHANGED uiVars
  BY <1>2 DEF HandleLine, Obeys, EnterManual, ExitManual, SetManualSetpoint,
              uiVars, pictureVars
<1>3. CASE AppStart /\ UNCHANGED uiVars
  BY <1>3 DEF AppStart, StartTracker, uiVars, pictureVars
<1>4. CASE AppStop /\ UNCHANGED uiVars
  BY <1>4 DEF AppStop, StopTracker, uiVars, pictureVars
<1>5. CASE /\ LoopSetup \/ Poll \/ PollFails \/ ReadSignal \/ ReadTimer \/ Decide
           /\ UNCHANGED uiVars
  BY <1>5 DEF LoopSetup, Poll, PollFails, ReadSignal, ReadTimer, Decide, uiVars,
              pictureVars
<1>6. CASE \/ TimerExpires \/ InputEnds
           \/ SignalSent("process") \/ SignalSent("thread")
           \/ \E line \in Line : UserTypes(line)
  BY <1>6 DEF TimerExpires, InputEnds, SignalSent, UserTypes, uiVars, pictureVars
<1>7. CASE TrackerActs /\ UNCHANGED loopVars
  BY <1>7 DEF TrackerActs, TrackerFaults, TrackerLeavesManual, UiOnCommand,
              UiOnFrame, uiVars, pictureVars, loopVars
<1> QED
  BY <1>1, <1>2, <1>3, <1>4, <1>5, <1>6, <1>7 DEF LoopNext, LoopSteps

(* Every step of the window keeps them: what the GUI thread has changed it *)
(* sends before it is idle again.                                          *)
LEMMA WindowControls ==
  ASSUME ControlsInv, OneProgram, ConverterInv, IsWindow, WindowNext
  PROVE  ControlsInv'
<1> USE DEF ControlsInv, IsTerminal, IsWindow, trackerVars, guiVars, panel,
            Mode, GuiMoves, ConvKeeps, RestOfWindow
<1>1. CASE MainStart \/ RegisterObservers \/ StartConverter
  BY <1>1 DEF MainStart, RegisterObservers, StartConverter, StartTracker
<1>2. CASE StopFlag \/ StopMarks \/ StopNotifies \/ StopJoins \/ SysStop
  BY <1>2 DEF StopFlag, StopMarks, StopNotifies, StopJoins, SysStop,
              AfterConverter, StopTracker
<1>3. CASE SendManual
  BY <1>3 DEF SendManual, SetManualSetpoint
<1>4. CASE BtnZero \/ ZeroTilt
  BY <1>4 DEF BtnZero, ZeroTilt, SetSlider, SetManualSetpoint
<1>5. CASE BtnAuto
  BY <1>5 DEF BtnAuto, ExitManual, Accepts
<1>6. CASE BtnManual \/ BtnSend
  BY <1>6 DEF BtnManual, BtnSend, EnterManual, Accepts
<1>7. CASE \E axis \in 1 .. 2, angle \in Angles : MoveSlider(axis, angle)
  BY <1>7 DEF MoveSlider, SetSlider, SetManualSetpoint
<1>8. CASE ClickThreshold(Raised(thr)) \/ ClickThreshold(Lowered(thr))
  BY <1>8 DEF ClickThreshold, SetTrackerThreshold
<1>9. CASE Leave("stop") \/ Leave("close") \/ Leave("destroy")
  BY <1>9 DEF Leave
<1>10. CASE UpdateCamera \/ StoreFrame \/ NotifyConverter
  BY <1>10 DEF UpdateCamera, StoreFrame, NotifyConverter
<1>11. CASE ConvSteps \/ ConvSpuriousWakeup
  BY <1>11 DEF ConvSteps, ConvSpuriousWakeup, ConvTop, ConvLock, ConvLooks,
               ConvWaits, ConvTakes, ConvPublishes
<1>12. CASE (TrackerFaults \/ TrackerLeavesManual) /\ UNCHANGED windowVars
  BY <1>12 DEF TrackerFaults, TrackerLeavesManual, windowVars
<1> QED
  BY <1>1, <1>2, <1>3, <1>4, <1>5, <1>6, <1>7, <1>8, <1>9, <1>10, <1>11,
     <1>12
  DEF WindowNext, GuiCallSteps, UserActs

(* Every step keeps what the controls show and what the tracker has        *)
(* together.                                                               *)
LEMMA StepControls == IInv /\ ControlsInv /\ [Next]_vars => ControlsInv'
<1> SUFFICES ASSUME IInv, ControlsInv, [Next]_vars PROVE ControlsInv'
  OBVIOUS
<1>1. CASE Terminal(LoopNext)
  BY <1>1, TerminalControls DEF Terminal
<1>2. CASE Window(WindowNext)
  BY <1>2, WindowControls DEF Window, IInv
<1>3. CASE UNCHANGED vars
  BY <1>3 DEF vars, trackerVars, uiVars, pictureVars, loopVars, windowVars,
              guiVars, panel, ControlsInv, IsWindow, IsTerminal
<1> QED
  BY <1>1, <1>2, <1>3 DEF Next

(* What the controls of either program show is what the tracker has.       *)
THEOREM ControlsAreHeeded == Spec => []ControlsTakeEffect
<1>1. IInv /\ ControlsInv => ControlsTakeEffect
  BY DEF IInv, OneProgram, ControlsInv, ControlsTakeEffect, IsWindow, IsTerminal
<1>2. IInv /\ ControlsInv /\ [Next]_vars => (IInv /\ ControlsInv)'
  BY StepIInv, StepControls
<1> QED
  BY <1>1, <1>2, InitIInv, InitControls, PTL DEF Spec

-----------------------------------------------------------------------------
(* The pictures.                                                           *)

(* Frames are newer the nearer they are to the camera.                     *)
FramesInv ==
  /\ drawn <= gray
  /\ shown <= image /\ image <= buf /\ buf <= latest /\ latest = frames

(* Frames are numbered, so one is newer than another.                      *)
LEMMA FramesAreNumbers ==
  ASSUME PictureTypeOK, WindowTypeOK
  PROVE  {gray, drawn, shown, image, buf, latest, frames} \subseteq Nat
BY UiViewerAssumption, MainWindowAssumption DEF PictureTypeOK, WindowTypeOK, Frame

(* What a step of the terminal program is for its picture.                 *)
LEMMA TerminalShows ==
  ASSUME FramesInv, PictureTypeOK, WindowTypeOK, Terminal(LoopNext)
  PROVE  FramesInv' /\ [Picture!Next]_(Picture!displayVars)
<1> USE DEF FramesInv, Picture!Next, Picture!displayVars, Picture!Offer,
           Picture!Show, Picture!Close, IsTerminal, trackerVars, Mode,
           uiVars, ringVars, pictureVars
<1>0. /\ frontEnd = "terminal"
      /\ UNCHANGED <<shown, image, buf, latest, frames>>
      /\ {gray, drawn, shown, image, buf, latest, frames} \subseteq Nat
  BY FramesAreNumbers
     DEF Terminal, windowVars, converterVars, mailbox, cameraVars
<1>1. CASE TickUi
  <2>1. /\ gray' = gray /\ drawn' \in {drawn, gray}
        /\ loop = "ui" /\ loop' = "decide" /\ frontEnd' = frontEnd
    BY <1>1 DEF TickUi, UiTick, SetTrackerThreshold
  <2>. QED
    BY <1>0, <2>1
<1>2. CASE TrackerActs /\ UNCHANGED loopVars
  <2>1. /\ gray' \in {gray, gray + 1} /\ drawn' = drawn
        /\ loop' = loop /\ frontEnd' = frontEnd
    BY <1>2 DEF TrackerActs, TrackerFaults, TrackerLeavesManual, UiOnCommand,
                UiOnFrame, loopVars
  <2>. QED
    BY <1>0, <2>1
<1>3. ASSUME gray' = gray, drawn' = drawn, frontEnd' = frontEnd,
             loop \in {"stop", "exited", "killed"} =>
               loop' \in {"stop", "exited", "killed"}
      PROVE  FramesInv' /\ [Picture!Next]_(Picture!displayVars)
  BY <1>0, <1>3
<1>4. CASE UNCHANGED uiVars /\ (AppStart \/ AppStop \/ HandleLine)
  BY <1>3, <1>4 DEF AppStart, StartTracker, AppStop, StopTracker, HandleLine,
                    Obeys, EnterManual, ExitManual, SetManualSetpoint
<1>5. CASE /\ LoopSetup \/ Poll \/ PollFails \/ ReadSignal \/ ReadTimer \/ Decide
           /\ UNCHANGED uiVars
  BY <1>3, <1>5 DEF LoopSetup, Poll, PollFails, ReadSignal, ReadTimer, Decide
<1>6. CASE \/ TimerExpires \/ InputEnds
           \/ SignalSent("process") \/ SignalSent("thread")
           \/ \E line \in Line : UserTypes(line)
  BY <1>3, <1>6 DEF TimerExpires, InputEnds, SignalSent, UserTypes
<1> QED
  BY <1>1, <1>2, <1>4, <1>5, <1>6 DEF Terminal, LoopNext, LoopSteps

(* What a step of the window is for its picture.                           *)
LEMMA WindowShows ==
  ASSUME FramesInv, PictureTypeOK, WindowTypeOK, Window(WindowNext)
  PROVE  FramesInv' /\ [Picture!Next]_(Picture!displayVars)
<1> USE DEF FramesInv, Picture!Next, Picture!displayVars, Picture!Offer,
           Picture!Show, Picture!Close, IsTerminal, trackerVars, Mode,
           guiVars, mailbox, converterVars, cameraVars, GuiMoves, ConvKeeps,
           RestOfWindow
<1> DEFINE Up == {"main", "register", "convert", "idle", "zero", "send"}
<1>0. /\ frontEnd = "window" /\ frontEnd # "terminal"
      /\ UNCHANGED <<gray, drawn>>
      /\ {gray, drawn, shown, image, buf, latest, frames} \subseteq Nat
  BY FramesAreNumbers DEF Window, IsWindow, uiVars, pictureVars
<1>1. CASE UpdateCamera
  BY <1>0, <1>1 DEF UpdateCamera
<1>2. CASE StoreFrame
  BY <1>0, <1>2 DEF StoreFrame
<1>3. ASSUME UNCHANGED <<frontEnd, shown, image, buf, latest, frames>>,
             gui \notin Up => gui' \notin Up
      PROVE  FramesInv' /\ [Picture!Next]_(Picture!displayVars)
  BY <1>0, <1>3
<1>4. CASE ConvTakes
  BY <1>0, <1>4 DEF ConvTakes
<1>5. CASE ConvPublishes
  BY <1>0, <1>5 DEF ConvPublishes
<1>6. CASE \/ ConvTop \/ ConvLock \/ ConvLooks \/ ConvWaits
           \/ ConvSpuriousWakeup \/ NotifyConverter
  BY <1>3, <1>6 DEF ConvTop, ConvLock, ConvLooks, ConvWaits,
                    ConvSpuriousWakeup, NotifyConverter
<1>7. CASE MainStart \/ RegisterObservers \/ StartConverter
  BY <1>3, <1>7 DEF MainStart, RegisterObservers, StartConverter, StartTracker
<1>8. CASE StopFlag \/ StopMarks \/ StopNotifies \/ StopJoins \/ SysStop
  BY <1>3, <1>8 DEF StopFlag, StopMarks, StopNotifies, StopJoins, SysStop,
                    AfterConverter, StopTracker
<1>9. CASE SendManual \/ BtnZero \/ ZeroTilt \/ BtnAuto \/ BtnManual \/ BtnSend
  BY <1>3, <1>9 DEF SendManual, BtnZero, ZeroTilt, BtnAuto, BtnManual, BtnSend,
                    SetSlider, SetManualSetpoint, EnterManual, ExitManual
<1>10. CASE \E axis \in 1 .. 2, angle \in Angles : MoveSlider(axis, angle)
  BY <1>3, <1>10 DEF MoveSlider, SetSlider, SetManualSetpoint
<1>11. CASE ClickThreshold(Raised(thr)) \/ ClickThreshold(Lowered(thr))
  BY <1>3, <1>11 DEF ClickThreshold, SetTrackerThreshold
<1>12. CASE Leave("stop") \/ Leave("close") \/ Leave("destroy")
  BY <1>3, <1>12 DEF Leave
<1>13. CASE (TrackerFaults \/ TrackerLeavesManual) /\ UNCHANGED windowVars
  BY <1>3, <1>13 DEF TrackerFaults, TrackerLeavesManual, windowVars
<1> QED
  BY <1>1, <1>2, <1>4, <1>5, <1>6, <1>7, <1>8, <1>9, <1>10, <1>11, <1>12, <1>13
  DEF Window, WindowNext, GuiCallSteps, UserActs, ConvSteps

(* Both pictures keep the promise of a live one, as far as safety goes:    *)
(* what is shown was offered and is never older than what was shown, and a *)
(* picture that is closed shows nothing more.                              *)
THEOREM PicturesMoveForward == Spec => Picture!Safe
<1>1. Init => FramesInv /\ Picture!Init
  BY DEF Init, FrontEndInit, UiInit, LoopInit, WindowInit, FramesInv,
         Picture!Init, IsTerminal
<1>2. FramesInv /\ TypeOK /\ [Next]_vars =>
        FramesInv' /\ [Picture!Next]_(Picture!displayVars)
  <2> SUFFICES ASSUME FramesInv, TypeOK, [Next]_vars
               PROVE  FramesInv' /\ [Picture!Next]_(Picture!displayVars)
    OBVIOUS
  <2>1. CASE UNCHANGED vars
    BY <2>1 DEF vars, trackerVars, uiVars, pictureVars, loopVars, windowVars,
                guiVars, mailbox, converterVars, cameraVars, FramesInv,
                Picture!displayVars, IsTerminal
  <2> QED
    BY <2>1, TerminalShows, WindowShows DEF Next, TypeOK
<1> QED
  BY <1>1, <1>2, TypeCorrect, PTL DEF Spec, Picture!Safe
=============================================================================
