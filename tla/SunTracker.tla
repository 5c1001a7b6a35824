----------------------------- MODULE SunTracker -----------------------------
(***************************************************************************)
(* SunTracker: from a frame of bytes to the centroid of its bright pixels  *)
(* and a confidence.  onFrame() keeps no state: it copies the              *)
(* configuration under its mutex and works on the copy.  Pixels are <<x,   *)
(* y>>, the first byte of a frame is frame.data[1].  What the code sums    *)
(* and divides in double is exact here.                                    *)
(***************************************************************************)
EXTENDS Fractions, Sequences, FiniteSets, Functions

CONSTANT ConfidenceScale      \* Config::confidence_scale, a fraction

ASSUME ScaleAssumption ==
  ConfidenceScale \in Fraction /\ Lt(Zero, ConfidenceScale)

(* 0.0 / 0.0                                                               *)
NaN == <<0, 0>>

BytesPerPixel(format) == IF format = "Gray8" THEN 1 ELSE 3

IsFrameValid(frame) ==
  /\ frame.width > 0 /\ frame.height > 0
  /\ frame.stride > 0
  /\ frame.stride >= frame.width * BytesPerPixel(frame.format)
  /\ Len(frame.data) >= frame.stride * frame.height

Luminance(r, g, b) == (77 * r + 150 * g + 29 * b) \div 256

(* Mutant: rows are taken to be packed.                                    *)
IntensityAtPacked(frame, x, y) ==
  LET at == y * frame.width * BytesPerPixel(frame.format)
              + x * BytesPerPixel(frame.format)
      byte(i) == frame.data[at + i + 1]
  IN CASE frame.format = "Gray8" -> byte(0)
       [] frame.format = "RGB888" -> Luminance(byte(0), byte(1), byte(2))
       [] frame.format = "BGR888" -> Luminance(byte(2), byte(1), byte(0))

IntensityAt(frame, x, y) ==
  LET at == y * frame.stride + x * BytesPerPixel(frame.format)
      byte(i) == frame.data[at + i + 1]
  IN CASE frame.format = "Gray8" -> byte(0)
       [] frame.format = "RGB888" -> Luminance(byte(0), byte(1), byte(2))
       [] frame.format = "BGR888" -> Luminance(byte(2), byte(1), byte(0))

NothingSeen == [cx |-> Zero, cy |-> Zero, confidence |-> Zero]

(* How sure a count of bright pixels makes it: nothing at the least count, *)
(* full at ten times as many, scaled and clamped again.                    *)
Confidence(count, minPixels) ==
  LET minPix == IF minPixels < 1 THEN 1 ELSE minPixels
      conf01 == Clamp(Lowest(count - minPix, 9 * minPix), Zero, One)
  IN Clamp(Times(conf01, ConfidenceScale), Zero, One)

(* The centroid of the bright among pixels, each weighted by how bright it *)
(* is.  When all of those are black their plain mean is taken; with        *)
(* min_pixels 0 there may be none at all.                                  *)
Centroid(px, threshold, minPixels) ==
  LET bright == {p \in DOMAIN px : px[p] >= threshold}
      count == Cardinality(bright)
      weight == [p \in bright |-> IF \E b \in bright : px[b] > 0
                                  THEN px[p] ELSE 1]
      moment(axis) == SumFunction([p \in bright |-> weight[p] * p[axis]])
      mean(axis) == IF count = 0 THEN NaN
                    ELSE Lowest(moment(axis), SumFunction(weight))
  IN IF count < minPixels THEN NothingSeen
     ELSE [cx |-> mean(1), cy |-> mean(2),
           confidence |-> Confidence(count, minPixels)]

Columns(frame) == 0 .. frame.width - 1
Rows(frame) == 0 .. frame.height - 1

(* onFrame() of a valid frame.                                             *)
Estimate(frame, threshold, minPixels) ==
  Centroid([p \in Columns(frame) \X Rows(frame) |->
              IntensityAt(frame, p[1], p[2])], threshold, minPixels)
=============================================================================
