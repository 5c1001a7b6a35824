----------------------------- MODULE PlaneCopy -----------------------------
(***************************************************************************)
(* How LibcameraPublisher packs the luminance plane of a frame.  libcamera *)
(* tells the length of a plane but the code does not ask for the distance  *)
(* of its rows: it estimates the stride from the length and checks every   *)
(* row against it.                                                         *)
(***************************************************************************)
EXTENDS Integers

CONSTANTS RowBytes, Rows        \* cfg_.width, cfg_.height

ASSUME PlaneAssumption == RowBytes \in Nat \ {0} /\ Rows \in Nat \ {0}

(* strideFromPlane(): the length shared out among the rows, never less     *)
(* than a row.                                                             *)
StrideFromPlane(length) ==
  IF length \div Rows < RowBytes THEN RowBytes ELSE length \div Rows

(* Where copyPlaneStrideAware() takes row y from, and when it throws.      *)
RowAt(length, y) == y * StrideFromPlane(length)

CopyThrows(length) ==
  \E y \in 0 .. Rows - 1 : RowAt(length, y) + RowBytes > length
=============================================================================
