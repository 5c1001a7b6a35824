------------------------- MODULE MCTrackingPipeline -------------------------
(***************************************************************************)
(* Four bytes to a frame, read in each format, packed and padded.          *)
(***************************************************************************)
EXTENDS TrackingPipeline

CONSTANTS front, left

MCLegs == {front, left}
MCNeutral == [leg \in MCLegs |-> 90]
MCDir == [leg \in MCLegs |-> IF leg = front THEN -1 ELSE 1]

(* In half degrees: both branches outward, one of them, both inward.       *)
MCPoses == {Unsolvable, <<171, -110>>, <<300, 40>>, <<460, 260>>}

Layout(format, width, height, stride, bytes) ==
  {[format |-> format, width |-> width, height |-> height, stride |-> stride,
    data |-> data] : data \in bytes}

Fours == [1 .. 4 -> {0, 102, 255}]
AllWhite == {<<255, 255, 255, 255>>}

(* The simulated camera's: with its noise, and without it a disc in whole. *)
MCSimulated ==
  SimulatedFrames(3, 2)
    \cup {GenerateFrame(3, 3, m, [i \in 1 .. 9 |-> 0]) : m \in Middles(3, 3)}

MCFrames ==
  MCSimulated \cup
  UNION {Layout("Gray8", 4, 1, 4, Fours), Layout("Gray8", 1, 2, 2, Fours),
         Layout("RGB888", 1, 1, 4, Fours), Layout("BGR888", 1, 1, 3, Fours),
         Layout("Gray8", 0, 1, 4, AllWhite), Layout("Gray8", 3, 1, 2, AllWhite),
         Layout("Gray8", 3, 2, 3, AllWhite), Layout("RGB888", 2, 1, 4, AllWhite)}

MCNoises == {-30, 0}
MCScale == <<3, 1>>
MCDeadband == <<1, 8>>
MCGain == <<4, 5>>
MCMax == <<7, 20>>
MCMinConfidence == <<2, 5>>
=============================================================================
