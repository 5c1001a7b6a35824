-------------------------- MODULE TrackingPipeline --------------------------
(***************************************************************************)
(* What the control thread computes from a frame: SunTracker, Controller   *)
(* and Kinematics3RRS one after the other, with the threshold that another *)
(* thread may set at any time.  SystemManager says when each of them is    *)
(* called; here they always are.  The pose the setpoint gives each leg is  *)
(* any of Poses, for the trigonometry between them is not modelled.        *)
(***************************************************************************)
EXTENDS SunTracker, SimulatedFrame, Controller, Kinematics3RRS

CONSTANTS Frames,           \* frames the camera may deliver, some invalid
          Thresholds,       \* thresholds that are set
          MinPixels,        \* values of Config::min_pixels
          Poses             \* what a leg's geometry may come to

Bytes == 0 .. 255

ASSUME FramesAssumption ==
  /\ Frames \subseteq [format: {"Gray8", "RGB888", "BGR888"}, width: Int,
                      height: Int, stride: Int, data: Seq(Bytes)]
  /\ Thresholds \subseteq Bytes /\ MinPixels \subseteq Nat

ASSUME PosesAssumption ==
  \A legPose \in Poses : legPose = Unsolvable \/ legPose \in Int \X Int

VARIABLES threshold,        \* cfg_.threshold
          minPixels,        \* cfg_.min_pixels
          stage,            \* what the control thread has in hand
          frame, est, sp,   \* the frame, estimate and setpoint in hand
          pose              \* the pose of the last setpoint

vars == <<kinematicsVars, threshold, minPixels, stage, frame, est, sp, pose>>

None == << >>

(* The stages, and that a setpoint is made of numbers.                     *)
TypeOK ==
  /\ KinematicsTypeOK
  /\ stage \in {"idle", "estimated", "steered"}
  /\ threshold \in Thresholds /\ minPixels \in MinPixels
  /\ stage = "steered" => sp.pan # NaN /\ sp.tilt # NaN

Init ==
  /\ KinematicsInit
  /\ threshold \in Thresholds /\ minPixels \in MinPixels
  /\ stage = "idle"
  /\ frame = None /\ est = None /\ sp = None /\ pose = None

(* setThreshold(), under the mutex of the configuration.                   *)
SetThreshold(t) ==
  /\ threshold' = t
  /\ UNCHANGED <<kinematicsVars, minPixels, stage, frame, est, sp, pose>>

(* An invalid frame yields nothing.                                        *)
OnFrame(f) ==
  /\ stage = "idle"
  /\ IsFrameValid(f)
  /\ stage' = "estimated"
  /\ frame' = f
  /\ est' = Estimate(f, threshold, minPixels)
  /\ pose' = None
  /\ UNCHANGED <<kinematicsVars, threshold, minPixels, sp>>

OnEstimate ==
  /\ stage = "estimated"
  /\ stage' = "steered"
  /\ frame' = None
  /\ sp' = Setpoint(est)
  /\ UNCHANGED <<kinematicsVars, threshold, minPixels, est, pose>>

OnSetpoint(legPoses) ==
  /\ stage = "steered"
  /\ ComputeIK(legPoses)
  /\ stage' = "idle"
  /\ est' = None /\ sp' = None
  /\ pose' = legPoses
  /\ UNCHANGED <<threshold, minPixels, frame>>

Next ==
  \/ \E t \in Thresholds : SetThreshold(t)
  \/ \E f \in Frames : OnFrame(f)
  \/ OnEstimate
  \/ \E legPoses \in [Legs -> Poses] : OnSetpoint(legPoses)

Spec == Init /\ [][Next]_vars

-----------------------------------------------------------------------------
(* The rows of a frame, cut out of its bytes.                              *)
Row(f, y) == SubSeq(f.data, f.stride * y + 1, f.stride * (y + 1))

(* The bytes of a pixel.                                                   *)
Pixel(f, x, y) ==
  LET n == BytesPerPixel(f.format)
  IN SubSeq(Row(f, y), n * x + 1, n * (x + 1))

(* As bright as white, or as dark as black, whatever its format.           *)
White(f, x, y) == \A i \in DOMAIN Pixel(f, x, y) : Pixel(f, x, y)[i] = 255
Black(f, x, y) == \A i \in DOMAIN Pixel(f, x, y) : Pixel(f, x, y)[i] = 0

(* The same picture with its color bytes the other way round.              *)
Swapped(f) ==
  [f EXCEPT !.format = IF f.format = "RGB888" THEN "BGR888" ELSE "RGB888",
            !.data = [i \in DOMAIN f.data |->
                        LET x == ((i - 1) % f.stride) \div 3
                            c == ((i - 1) % f.stride) % 3
                        IN IF (i - 1) \div f.stride < f.height /\ x < f.width
                           THEN f.data[i + 2 - 2 * c] ELSE f.data[i]]]

(* A frame the simulated camera may draw with its disc around m.           *)
IsPictureOf(f, m) ==
  LET clean == GenerateFrame(f.width, f.height, m,
                             [i \in 1 .. f.width * f.height |-> 0])
  IN /\ [f EXCEPT !.data = clean.data] = clean
     /\ \A i \in DOMAIN clean.data :
          f.data[i] \in {Byte(clean.data[i] + noise) : noise \in Noises}

(* The disc lies within the picture.                                       *)
IsWhole(f, m) ==
  /\ {m[1] - Radius, m[1] + Radius} \subseteq Columns(f)
  /\ {m[2] - Radius, m[2] + Radius} \subseteq Rows(f)

Near(c, i) == Leq(Abs(Minus(c, <<i, 1>>)), <<Radius, 1>>)

(* The disc is found, when noise takes no pixel across the threshold: the  *)
(* centroid is inside it though it be cut, and its middle without noise.   *)
FindsTheSpot(f, e) ==
  \A m \in Middles(f.width, f.height) :
    /\ IsPictureOf(f, m)
    /\ \A noise \in Noises : /\ Byte(Background + noise) < threshold
                             /\ threshold <= Byte(SpotValue + noise)
    /\ Lt(Zero, e.confidence)
    => /\ Near(e.cx, m[1]) /\ Near(e.cy, m[2])
       /\ IsWhole(f, m) /\ Cardinality({f.data[i] : i \in DOMAIN f.data}) = 2 =>
            e.cx = <<m[1], 1>> /\ e.cy = <<m[2], 1>>

(* An estimate is of the pixels the frame holds, padding left out, and the *)
(* same for both orders of colors.  In a picture of black and white,       *)
(* below a positive threshold, the centroid is the mean of the white       *)
(* pixels, and there is confidence when they outnumber those required.     *)
SeesThePicture(f, e) ==
  LET white == {p \in Columns(f) \X Rows(f) : White(f, p[1], p[2])}
      n == Cardinality(white)
      Mean(axis) == Lowest(SumFunction([p \in white |-> p[axis]]), n)
      blackAndWhite == \A x \in Columns(f), y \in Rows(f) :
                         White(f, x, y) \/ Black(f, x, y)
  IN /\ f.format # "Gray8" => e = Estimate(Swapped(f), threshold, minPixels)
     /\ Leq(e.confidence, One)
     /\ blackAndWhite /\ threshold > 0 =>
          /\ Lt(Zero, e.confidence) <=> n > minPixels /\ n > 1
          /\ n >= minPixels /\ n > 0 => e.cx = Mean(1) /\ e.cy = Mean(2)

(* Every estimate is of what the camera's picture shows, and what the      *)
(* simulated camera draws is what the tracker finds.                       *)
EstimateOfThePicture ==
  [][stage = "idle" /\ stage' = "estimated" =>
       SeesThePicture(frame', est') /\ FindsTheSpot(frame', est')]_vars

(* The centroids a setpoint is compared at: every half pixel.              *)
Coordinates(size) == {<<c, 2>> : c \in 0 .. 2 * (size - 1)}

(* One axis of the setpoint, now for a centroid at this coordinate, never  *)
(* goes back as the centroid moves on and has no jump, at the edge of the  *)
(* deadband least of all: it moves at most gain / (1 - deadband) times as  *)
(* far as the error.                                                       *)
Follows(axis(_), now, at, size, gain) ==
  \A c \in Coordinates(size) :
    LET moved == Abs(Minus(axis(c), now))
        error == Abs(Minus(Error(c, size), Error(at, size)))
    IN /\ Leq(at, c) => Leq(now, axis(c))
       /\ Leq(Times(moved, Minus(One, Deadband)), Times(gain, error))

(* Every setpoint is within the limits, and one of an estimate with        *)
(* confidence follows the centroid on both axes.                           *)
SetpointFollows ==
  stage = "steered" =>
    /\ Leq(Abs(sp.pan), MaxPan) /\ Leq(Abs(sp.tilt), MaxTilt)
    /\ ~Lt(est.confidence, MinConfidence) =>
         /\ Follows(LAMBDA c : Setpoint([est EXCEPT !.cx = c]).pan,
                    sp.pan, est.cx, Width, KPan)
         /\ Follows(LAMBDA c : Setpoint([est EXCEPT !.cy = c]).tilt,
                    sp.tilt, est.cy, Height, KTilt)

(* A command is Ok only when every leg's target solves one and the same    *)
(* pose; otherwise it says so, for SystemManager to refuse it whole.       *)
OkSolvesEveryLeg ==
  pose # None /\ cmd.status = "Ok" =>
    /\ geometryValid
    /\ \A leg \in Legs : \E branch \in 1 .. 2 :
         /\ pose[leg] # Unsolvable
         /\ cmd.targets[leg] = ServoDegrees(leg, WrapAngle(pose[leg][branch]))

(* A horn points outward wherever a leg has such a solution, and of two it *)
(* takes the nearest to where it was: the platform does not flip from one  *)
(* way to stand in a pose to the other.                                    *)
NearestOutwardBranch ==
  [][cmd' # cmd => \A leg \in Legs :
       LET solutions == {WrapAngle(pose'[leg][i]) : i \in DOMAIN pose'[leg]}
           outward == {q \in solutions : ~Inward(q)}
       IN geometryValid /\ outward # {} =>
            /\ qPrev'[leg] \in outward
            /\ \A q \in outward :
                 Distance(qPrev'[leg], qPrev[leg]) <= Distance(q, qPrev[leg])
    ]_vars
=============================================================================
