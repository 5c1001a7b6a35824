------------------------------ MODULE UiViewer ------------------------------
(***************************************************************************)
(* UiViewer: the OpenCV window of the terminal program.  The observers     *)
(* leave the latest readable frame and write into a ring of plotted        *)
(* values, under a mutex; the event loop's tick draws them, takes clicks   *)
(* on the threshold and asks for a key.  Frames and commands are numbered. *)
(* The rings of centroids and latencies are written in the same rows and   *)
(* never drawn, the overlay draws what the last estimate and setpoint say; *)
(* both are left out.                                                      *)
(***************************************************************************)
EXTENDS FrontEnd

CONSTANTS HistoryRows,      \* max(32, Config::plot_history)
          MaxObserved       \* bound: commands and readable frames observed

ASSUME UiViewerAssumption == HistoryRows \in Nat \ {0} /\ MaxObserved \in Nat

VARIABLES histU,            \* hist_u_: ids of commands in place of values
          histHead,         \* hist_head_
          histCount,        \* hist_count_
          lastCmd,          \* id of lastCmd_, 0 for none
          gray,             \* the frame in gray_, 0 for none
          drawn,            \* the frame of the last picture
          uiThreshold,      \* threshold_
          uiQuit            \* quit_

ringVars == <<histU, histHead, histCount, lastCmd>>
pictureVars == <<gray, drawn, uiThreshold, uiQuit>>
uiVars == <<ringVars, pictureVars>>

RowIndex == 0 .. HistoryRows - 1

RingTypeOK ==
  /\ histU \in [RowIndex -> 0 .. MaxObserved]
  /\ histHead \in RowIndex /\ histCount \in 0 .. HistoryRows
  /\ lastCmd \in 0 .. MaxObserved

PictureTypeOK ==
  /\ gray \in 0 .. MaxObserved /\ drawn \in 0 .. MaxObserved
  /\ uiThreshold \in Levels
  /\ uiQuit \in BOOLEAN

UiInit ==
  /\ histU = [i \in RowIndex |-> 0]
  /\ histHead = 0 /\ histCount = 0
  /\ lastCmd = 0
  /\ gray = 0 /\ drawn = 0
  /\ uiThreshold = StartThreshold
  /\ uiQuit = FALSE

(* Mutant: the head moves on before the value is written.                  *)
PushSampleAhead(v) ==
  /\ histHead' = (histHead + 1) % HistoryRows
  /\ histU' = [histU EXCEPT ![histHead'] = v]
  /\ histCount' = IF histCount < HistoryRows THEN histCount + 1
                  ELSE HistoryRows

PushSample(v) ==
  /\ histU' = [histU EXCEPT ![histHead] = v]
  /\ histHead' = (histHead + 1) % HistoryRows
  /\ histCount' = IF histCount < HistoryRows THEN histCount + 1
                  ELSE HistoryRows

UiOnCommand ==
  /\ lastCmd + gray < MaxObserved
  /\ lastCmd' = lastCmd + 1
  /\ PushSample(lastCmd')
  /\ UNCHANGED pictureVars

(* A readable frame; any other is ignored.                                 *)
UiOnFrame ==
  /\ lastCmd + gray < MaxObserved
  /\ gray' = gray + 1
  /\ UNCHANGED <<ringVars, drawn, uiThreshold, uiQuit>>

(* tick(): the latest frame is drawn; in waitKey() the mouse may click on  *)
(* the threshold and the user press ESC or q, which is not taken back.     *)
UiTick ==
  /\ drawn' = gray
  /\ uiThreshold' \in {uiThreshold, Raised(uiThreshold), Lowered(uiThreshold)}
  /\ uiQuit' \in {uiQuit, TRUE}
  /\ UNCHANGED <<ringVars, gray>>

(* The row that drawPlots_() takes for the command so many back.           *)
RowBack(back) == (histHead + HistoryRows - 1 - back) % HistoryRows
=============================================================================
